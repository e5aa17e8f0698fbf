---------------------------- MODULE ParBfsProofs ----------------------------
(***************************************************************************)
(* That the parallel breadth-first visits tell no node twice, and what     *)
(* LevelVisit promises: exact distances, predecessors one level up, level  *)
(* by level, and all of it when they say they are done.  For every graph,  *)
(* number of threads and granularity, under every filter and whatever      *)
(* callbacks answer, over any number of visits of one object.              *)
(* Then that symm_par, which makes one such visit per node, numbers the    *)
(* connected components of every symmetric graph.                          *)
(* Then the same of the sequential visit, whose levels are kept apart by   *)
(* the separators of one queue, and that BfsOrder gives its nodes in an    *)
(* order of breadth.                                                       *)
(***************************************************************************)
EXTENDS SymmPar, BaseLemmas

LEMMA GraphLists ==
  ASSUME NEW g \in Graphs, NEW u \in DOMAIN g
  PROVE  /\ Successors(g, u) \in Seq(DOMAIN g)
         /\ ToSet(Successors(g, u)) = g[u]
<1>1. IsDigraph(g)
  BY ParBfsAssumption
<1> QED
  BY <1>1, SuccessorLists

-----------------------------------------------------------------------------
(* The shape of the variables: chunks and workers stay within the frontier *)
(* of the level, and all is quiet outside a level.                         *)
Work == [at : Nat, last : Nat, succs : Seq(Nodes),
         step : {"idle", "node", "arcs", "known", "unknown"}]
Frontier == Seq(Nodes \X Nodes)
Busy(w) == work[w].step # "idle"

Shape ==
  /\ kind \in Kinds /\ graph \in Graphs /\ granularity \in Granularities
  /\ pc \in {"idle", "roots", "level", "scan"}
  /\ roots \in Seq(Nodes)
  /\ curr_frontier \in Frontier
  /\ next_frontier \in Frontier
  /\ todo \subseteq Chunks
  /\ work \in [Workers -> Work]
  /\ pc # "scan" => todo = {} /\ AllIdle
  /\ pc \in {"roots", "level"} => next_frontier = << >>
  /\ \A w \in Workers :
       /\ work[w].step \in {"known", "unknown"} => work[w].succs # << >>
       /\ Busy(w) => /\ 1 <= work[w].at /\ work[w].at <= work[w].last
                     /\ work[w].last <= Len(curr_frontier)

LEMMA IdleWork == Idle \in Work
BY DEF Idle, Work

LEMMA InitShape == Init => Shape
<1> SUFFICES ASSUME Init PROVE Shape
  OBVIOUS
<1>1. << >> \in Seq(Nodes) /\ << >> \in Frontier
  BY DEF Frontier
<1>2. \A w \in Workers : work[w] = Idle /\ Idle.step = "idle"
  BY DEF Init, Idle
<1>3. work \in [Workers -> Work]
  BY IdleWork DEF Init
<1> QED
  BY <1>1, <1>2, <1>3 DEF Init, Shape, Busy, AllIdle

(* Steps of the calling thread between two visits and at the roots.        *)
LEMMA CallerShape == Shape /\ Caller => Shape'
<1> SUFFICES ASSUME Shape, Caller PROVE Shape'
  OBVIOUS
<1> USE DEF Busy, Nodes
<1>0. granularity \in Nat \ {0}
  BY ParBfsAssumption DEF Shape
<1>1. CASE StartVisit
  <2>1. \A rs \in RootLists : rs \in Seq(Nodes)
    BY ParBfsAssumption DEF Shape
  <2>2. << >> \in Frontier
    BY DEF Frontier
  <2>3. todo = {} /\ AllIdle
    BY <1>1 DEF Shape, StartVisit
  <2> QED
    BY <1>1, <2>1, <2>2, <2>3 DEF StartVisit, Shape, AllIdle, Idle, Frontier, Work
<1>2. CASE Reset
  BY <1>2 DEF Reset, Shape, visitVars, mine, Chunks, AllIdle, Frontier, Work
<1>3. CASE TakeRoot
  <2>1. roots' \in Seq(Nodes) /\ Head(roots) \in Nodes
    BY <1>3 DEF TakeRoot, Shape
  <2>2. curr_frontier' \in Frontier
    <3>1. curr_frontier' = curr_frontier
          \/ curr_frontier' = Append(curr_frontier, <<Head(roots), Head(roots)>>)
      BY <1>3 DEF TakeRoot
    <3> HIDE DEF Nodes
    <3>2. <<Head(roots), Head(roots)>> \in Nodes \X Nodes
      BY <2>1
    <3>3. Append(curr_frontier, <<Head(roots), Head(roots)>>) \in Frontier
      BY <3>2, AppendProperties DEF Shape, Frontier
    <3> QED
      BY <3>1, <3>3 DEF Shape
  <2>3. todo' = {} /\ AllIdle' /\ work' = work /\ next_frontier' = << >>
    BY <1>3 DEF TakeRoot, Shape, AllIdle
  <2>4. pc' \in {"idle", "roots"}
    BY <1>3 DEF TakeRoot
  <2>5. UNCHANGED <<kind, graph, granularity>> /\ << >> \in Frontier
    BY <1>3 DEF TakeRoot, Frontier
  <2> QED
    BY <2>1, <2>2, <2>3, <2>4, <2>5 DEF Shape, AllIdle, Idle, Frontier, Work
<1>4. CASE CloseRoots
  BY <1>4 DEF CloseRoots, Shape, visitVars, Chunks, AllIdle, Frontier, Work
<1>5. CASE OpenLevel
  BY <1>5 DEF OpenLevel, Shape, visitVars, Chunks, AllIdle, Idle, Frontier, Work
<1>6. CASE Finish
  BY <1>6 DEF Finish, Shape, visitVars, Chunks, AllIdle, Frontier, Work
<1>7. CASE CloseLevel
  <2>1. todo' = {} /\ AllIdle' /\ work' = work
    BY <1>7 DEF CloseLevel, LevelOver, AllIdle
  <2>2. curr_frontier' \in Frontier /\ next_frontier' \in Frontier
    <3>1. curr_frontier' \in {curr_frontier, next_frontier}
          /\ next_frontier' \in {next_frontier, << >>}
      BY <1>7 DEF CloseLevel
    <3>2. << >> \in Frontier
      BY DEF Frontier
    <3> QED
      BY <3>1, <3>2 DEF Shape
  <2>3. pc' \in {"idle", "level"} /\ (pc' = "level" => next_frontier' = << >>)
    BY <1>7 DEF CloseLevel
  <2>4. UNCHANGED <<kind, graph, granularity, roots>>
    BY <1>7 DEF CloseLevel
  <2> QED
    BY <2>1, <2>2, <2>3, <2>4 DEF Shape, AllIdle, Idle, Frontier, Work
<1> QED
  BY <1>1, <1>2, <1>3, <1>4, <1>5, <1>6, <1>7 DEF Caller

(* What a worker is at are nodes of the graph.                             *)
LEMMA WorkerNodes ==
  ASSUME Shape, NEW w \in Workers
  PROVE  /\ work[w].at \in Nat /\ work[w].last \in Nat
         /\ work[w].succs \in Seq(Nodes)
         /\ Busy(w) => work[w].at \in 1 .. Len(curr_frontier) /\ Node(w) \in Nodes
         /\ work[w].succs # << >> => Succ(w) \in Nodes
<1>1. /\ work[w].at \in Nat /\ work[w].last \in Nat
      /\ work[w].succs \in Seq(Nodes) /\ Len(curr_frontier) \in Nat
  BY LenProperties DEF Shape, Work, Frontier
<1>2. Busy(w) => work[w].at \in 1 .. Len(curr_frontier)
  BY <1>1 DEF Shape
<1>3. Busy(w) => curr_frontier[work[w].at] \in Nodes \X Nodes
  BY <1>2, ElementOfSeq DEF Shape, Frontier
<1>4. work[w].succs # << >> => Succ(w) \in Nodes
  BY <1>1, EmptySeq, ElementOfSeq DEF Succ
<1> QED
  BY <1>1, <1>2, <1>3, <1>4 DEF Node

LEMMA WorkerShape == Shape /\ (\E w \in Workers : Worker(w)) => Shape'
<1> SUFFICES ASSUME Shape, NEW w \in Workers, Worker(w) PROVE Shape'
  OBVIOUS
<1>0. granularity \in Nat \ {0}
  BY ParBfsAssumption DEF Shape
<1>1. UNCHANGED <<kind, granularity, graph, pc, roots, curr_frontier>>
  BY DEF Worker, TakeChunk, VisitNode, SwapBit, TellKnown, Discover, NextNode,
     callers, mine
<1>14. Nodes' = Nodes
  BY <1>1 DEF Nodes
<1>2. pc = "scan"
  BY DEF Worker, TakeChunk, VisitNode, SwapBit, TellKnown, Discover, NextNode,
     AtStep
<1>3. todo' \subseteq Chunks
  BY DEF Worker, TakeChunk, VisitNode, SwapBit, TellKnown, Discover, NextNode,
     Shape
(* It is enough to look at the record of the worker that moves.            *)
<1>4. ASSUME NEW r \in Work, work' = [work EXCEPT ![w] = r],
             next_frontier' \in Frontier,
             r.step \in {"known", "unknown"} => r.succs # << >>,
             r.step # "idle" => 1 <= r.at /\ r.at <= r.last
                                /\ r.last <= Len(curr_frontier)
      PROVE  Shape'
  <2>1. work' \in [Workers -> Work]
    BY <1>4 DEF Shape
  <2>2. \A v \in Workers : work'[v] = IF v = w THEN r ELSE work[v]
    BY <1>4 DEF Shape
  <2>3. todo' \subseteq Chunks'
    BY <1>1, <1>3 DEF Chunks
  <2> QED
    BY <1>1, <1>2, <1>4, <1>14, <2>1, <2>2, <2>3 DEF Shape, Frontier, Work, Busy
<1>5. next_frontier \in Frontier /\ work[w] \in Work /\ Len(curr_frontier) \in Nat
  BY LenProperties DEF Shape, Frontier
<1>15. work[w].at \in Nat /\ work[w].last \in Nat /\ work[w].succs \in Seq(Nodes)
  BY <1>5 DEF Work
<1>16. Busy(w) => Node(w) \in Nodes
  BY WorkerNodes
<1>17. work[w].succs # << >> =>
         Succ(w) \in Nodes /\ Tail(work[w].succs) \in Seq(Nodes)
  BY <1>15, WorkerNodes, HeadTailProperties
<1>6. Idle \in Work /\ Idle.step = "idle"
  BY IdleWork DEF Idle
<1>7. CASE TakeChunk(w)
  <2>1. PICK p \in todo :
          work' = [work EXCEPT ![w] =
            [at |-> p, succs |-> << >>, step |-> "node",
             last |-> IF p + granularity - 1 > Len(curr_frontier)
                      THEN Len(curr_frontier) ELSE p + granularity - 1]]
    BY <1>7 DEF TakeChunk
  <2>2. p \in 1 .. Len(curr_frontier)
    BY DEF Shape, Chunks
  <2>3. next_frontier' = next_frontier /\ << >> \in Seq(Nodes)
    BY <1>7 DEF TakeChunk
  <2> DEFINE r == [at |-> p, succs |-> << >>, step |-> "node",
                   last |-> IF p + granularity - 1 > Len(curr_frontier)
                            THEN Len(curr_frontier) ELSE p + granularity - 1]
  <2>4. r \in Work /\ r.step = "node" /\ r.at = p
        /\ r.last >= p /\ r.last <= Len(curr_frontier)
    BY <1>0, <1>5, <2>2, <2>3 DEF Work
  <2>5. work' = [work EXCEPT ![w] = r]
    BY <2>1
  <2> HIDE DEF r
  <2> QED
    <3>1. next_frontier' \in Frontier
      BY <1>5, <2>3
    <3>2. 1 <= r.at /\ r.at <= r.last /\ r.last <= Len(curr_frontier)
      BY <1>5, <2>2, <2>4
    <3> QED
      BY <1>4, <2>4, <2>5, <3>1, <3>2
<1>8. CASE VisitNode(w)
  <2>1. Node(w) \in Nodes
    BY <1>8, <1>16 DEF VisitNode, AtStep, Busy
  <2>2. Successors(graph, Node(w)) \in Seq(Nodes)
    BY <2>1, GraphLists DEF Shape, Nodes
  <2> DEFINE r == [work[w] EXCEPT !.succs = Successors(graph, Node(w)),
                                  !.step = "arcs"]
  <2>3. r \in Work /\ r.step = "arcs" /\ r.at = work[w].at /\ r.last = work[w].last
    BY <1>5, <2>2 DEF Work
  <2>4. work' = [work EXCEPT ![w] = r] \/ work' = [work EXCEPT ![w] = Idle]
    BY <1>8 DEF VisitNode, Answer
  <2>5. next_frontier' = next_frontier /\ Busy(w)
    BY <1>8 DEF VisitNode, AtStep, Busy
  <2> HIDE DEF r
  <2> QED
    BY <1>4, <1>5, <1>6, <2>3, <2>4, <2>5 DEF Shape, Busy
<1>9. CASE SwapBit(w)
  <2>1. Busy(w) /\ work[w].succs # << >> /\ next_frontier' = next_frontier
    BY <1>9 DEF SwapBit, AtStep, Busy
  <2>2. Tail(work[w].succs) \in Seq(Nodes)
    BY <1>17, <2>1
  <2>3. \/ work' = [work EXCEPT ![w] = [@ EXCEPT !.succs = Tail(work[w].succs)]]
        \/ \E s \in {"known", "unknown"} :
             work' = [work EXCEPT ![w] = [@ EXCEPT !.step = s]]
    BY <1>9 DEF SwapBit, Found, Shape
  <2>4. CASE work' = [work EXCEPT ![w] = [@ EXCEPT !.succs = Tail(work[w].succs)]]
    <3> DEFINE r == [work[w] EXCEPT !.succs = Tail(work[w].succs)]
    <3>1. r \in Work /\ r.at = work[w].at /\ r.last = work[w].last
          /\ r.step = "arcs"
      BY <1>5, <1>9, <2>2 DEF Work, SwapBit, AtStep
    <3>2. work' = [work EXCEPT ![w] = r]
      BY <2>4 DEF Shape
    <3> HIDE DEF r
    <3> QED
      BY <1>4, <1>5, <2>1, <3>1, <3>2 DEF Shape
  <2>5. ASSUME NEW s \in {"known", "unknown"},
               work' = [work EXCEPT ![w] = [@ EXCEPT !.step = s]]
        PROVE  Shape'
    <3> DEFINE r == [work[w] EXCEPT !.step = s]
    <3>1. r \in Work /\ r.at = work[w].at /\ r.last = work[w].last
          /\ r.succs = work[w].succs
      BY <1>5 DEF Work
    <3>2. work' = [work EXCEPT ![w] = r]
      BY <2>5 DEF Shape
    <3> HIDE DEF r
    <3> QED
      BY <1>4, <1>5, <2>1, <3>1, <3>2 DEF Shape
  <2> QED
    BY <2>3, <2>4, <2>5
<1>10. work[w].succs # << >> =>
         /\ Advanced(w) \in Work /\ Advanced(w).step = "arcs"
         /\ Advanced(w).at = work[w].at /\ Advanced(w).last = work[w].last
  BY <1>5, <1>17 DEF Advanced, Work
<1>11. CASE TellKnown(w)
  <2>1. Busy(w) /\ work[w].succs # << >> /\ next_frontier' = next_frontier
    BY <1>11 DEF TellKnown, AtStep, Busy, Shape
  <2>2. work' = [work EXCEPT ![w] = Advanced(w)] \/ work' = [work EXCEPT ![w] = Idle]
    BY <1>11 DEF TellKnown, Answer
  <2> QED
    BY <1>4, <1>5, <1>6, <1>10, <2>1, <2>2 DEF Shape
<1>12. CASE Discover(w)
  <2>1. Busy(w) /\ work[w].succs # << >>
    BY <1>12 DEF Discover, AtStep, Busy, Shape
  <2>2. work' = [work EXCEPT ![w] = Advanced(w)] \/ work' = [work EXCEPT ![w] = Idle]
    BY <1>12 DEF Discover, Answer
  <2>3. Succ(w) \in Nodes /\ Node(w) \in Nodes
    BY <1>16, <1>17, <2>1
  <2>4. next_frontier' = next_frontier
        \/ next_frontier' = Append(next_frontier, <<Succ(w), Node(w)>>)
    BY <1>12 DEF Discover
  <2>5. next_frontier' \in Frontier
    <3>1. <<Succ(w), Node(w)>> \in Nodes \X Nodes
      BY <2>3
    <3>2. Append(next_frontier, <<Succ(w), Node(w)>>) \in Frontier
      BY <1>5, <3>1, AppendProperties DEF Frontier
    <3> QED
      BY <1>5, <2>4, <3>2
  <2> QED
    BY <1>4, <1>5, <1>6, <1>10, <2>1, <2>2, <2>5 DEF Shape
<1>13. CASE NextNode(w)
  <2>1. Busy(w) /\ next_frontier' = next_frontier
    BY <1>13 DEF NextNode, AtStep, Busy
  <2> DEFINE r == [work[w] EXCEPT !.at = work[w].at + 1, !.step = "node"]
  <2>2. /\ work[w].at = work[w].last => work' = [work EXCEPT ![w] = Idle]
        /\ work[w].at # work[w].last => work' = [work EXCEPT ![w] = r]
    BY <1>13 DEF NextNode, Shape
  <2>3. r \in Work /\ r.at = work[w].at + 1 /\ r.last = work[w].last
        /\ r.step = "node"
    <3>1. work[w].at + 1 \in Nat
      BY <1>15
    <3> QED
      BY <1>5, <3>1 DEF Work
  <2> HIDE DEF r
  <2> QED
    BY <1>4, <1>5, <1>6, <1>15, <2>1, <2>2, <2>3 DEF Shape
<1> QED
  BY <1>7, <1>8, <1>9, <1>11, <1>12, <1>13 DEF Worker

LEMMA NextShape == Shape /\ [Next]_vars => Shape'
<1>1. Shape /\ UNCHANGED vars => Shape'
  BY DEF Shape, vars, visitVars, mine, Nodes, Frontier, Work, Busy, Chunks, AllIdle
<1> QED
  BY <1>1, CallerShape, WorkerShape DEF Next

-----------------------------------------------------------------------------
(* No position of the frontier is in the range of two workers, or in that  *)
(* of a worker and in a chunk not taken yet.                               *)
Apart ==
  /\ \A w \in Workers, p \in todo :
       Busy(w) => p + granularity - 1 < work[w].at \/ work[w].last < p
  /\ \A v, w \in Workers :
       v # w /\ Busy(v) /\ Busy(w) =>
         work[v].last < work[w].at \/ work[w].last < work[v].at

(* Two chunks begin at least a granularity apart.                          *)
LEMMA ChunksApart ==
  ASSUME Shape, NEW p \in Chunks, NEW q \in Chunks, p < q
  PROVE  p + granularity <= q
<1>1. granularity \in Nat \ {0}
  BY ParBfsAssumption DEF Shape
<1>2. p \in Nat \ {0} /\ q \in Nat \ {0}
  BY LenProperties DEF Chunks, Shape, Frontier
<1> DEFINE a == (p - 1) \div granularity
           b == (q - 1) \div granularity
<1>3. a \in Nat /\ a * granularity = p - 1
  BY <1>1, <1>2 DEF Chunks
<1>4. b \in Nat /\ b * granularity = q - 1
  BY <1>1, <1>2 DEF Chunks
<1> HIDE DEF a, b
<1>5. a < b
  <2> SUFFICES ASSUME b <= a PROVE FALSE
    BY <1>3, <1>4
  <2>1. a * granularity - b * granularity = (a - b) * granularity
    BY <1>1, <1>3, <1>4
  <2>2. (a - b) * granularity \in Nat
    BY <1>1, <1>3, <1>4
  <2> QED
    BY <1>2, <1>3, <1>4, <2>1, <2>2
<1>6. a * granularity + granularity <= b * granularity
  BY <1>1, <1>3, <1>4, <1>5, NextRange
<1> QED
  BY <1>1, <1>2, <1>3, <1>4, <1>6

(* What the steps of a worker have in common.                              *)
Moves(w) ==
  /\ todo' = todo
  /\ Busy(w)
  /\ Busy(w)' => work'[w].last = work[w].last /\ work'[w].at >= work[w].at
  /\ work'[w].step = "node" => work'[w].at > work[w].at

LEMMA WorkerFrame ==
  ASSUME Shape, NEW w \in Workers, Worker(w)
  PROVE  /\ pc = "scan" /\ UNCHANGED <<pc, curr_frontier, kind, granularity, graph>>
         /\ \A v \in Workers \ {w} : work'[v] = work[v]
         /\ TakeChunk(w) \/ Moves(w)
<1>1. work[w].at \in Nat /\ work[w].last \in Nat
  BY DEF Shape, Work
<1>2. pc = "scan" /\ UNCHANGED <<pc, curr_frontier, kind, granularity, graph>>
  BY DEF Worker, TakeChunk, VisitNode, SwapBit, TellKnown, Discover, NextNode,
     callers, mine, AtStep
<1>3. \A v \in Workers \ {w} : work'[v] = work[v]
  BY DEF Worker, TakeChunk, VisitNode, SwapBit, TellKnown, Discover, NextNode,
     Answer, Shape
<1>9. Idle.step = "idle" /\ work[w] \in Work
  BY DEF Idle, Shape
(* A worker that moves on within its range, or is done with it.            *)
<1>10. ASSUME NEW r, r.last = work[w].last, r.at = work[w].at,
              r.step # "node", Busy(w), todo' = todo,
              work' = [work EXCEPT ![w] = r] \/ work' = [work EXCEPT ![w] = Idle]
       PROVE  Moves(w)
  BY <1>1, <1>9, <1>10 DEF Moves, Busy, Shape
<1>4. ASSUME VisitNode(w) PROVE Moves(w)
  <2> DEFINE r == [work[w] EXCEPT !.succs = Successors(graph, Node(w)),
                                  !.step = "arcs"]
  <2>1. work' = [work EXCEPT ![w] = r] \/ work' = [work EXCEPT ![w] = Idle]
    BY <1>4 DEF VisitNode, Answer
  <2>2. r.last = work[w].last /\ r.at = work[w].at /\ r.step # "node"
    BY <1>9 DEF Work
  <2>3. Busy(w) /\ todo' = todo
    BY <1>4 DEF VisitNode, AtStep, Busy
  <2> HIDE DEF r
  <2> QED
    BY <1>10, <2>1, <2>2, <2>3
<1>5. ASSUME SwapBit(w) PROVE Moves(w)
  <2>1. Busy(w) /\ todo' = todo
    BY <1>5 DEF SwapBit, AtStep, Busy
  <2>2. \/ work' = [work EXCEPT ![w].succs = Tail(@)]
        \/ work' = [work EXCEPT ![w].step = Found(Succ(w))]
    BY <1>5 DEF SwapBit
  <2>3. work'[w].last = work[w].last /\ work'[w].at = work[w].at
        /\ work'[w].step # "node"
    <3>1. Found(Succ(w)) # "node" /\ work[w].step # "node"
      BY <1>5 DEF Found, SwapBit, AtStep
    <3> HIDE DEF Found
    <3> QED
      BY <1>9, <2>2, <3>1 DEF Shape, Work
  <2> QED
    BY <1>1, <2>1, <2>3 DEF Moves
<1>11. Advanced(w).last = work[w].last /\ Advanced(w).at = work[w].at
       /\ Advanced(w).step # "node"
  BY <1>9 DEF Advanced, Work
<1>6. ASSUME TellKnown(w) PROVE Moves(w)
  <2>1. Busy(w) /\ todo' = todo
    BY <1>6 DEF TellKnown, AtStep, Busy
  <2>2. work' = [work EXCEPT ![w] = Advanced(w)] \/ work' = [work EXCEPT ![w] = Idle]
    BY <1>6 DEF TellKnown, Answer
  <2> QED
    BY <1>10, <1>11, <2>1, <2>2
<1>7. ASSUME Discover(w) PROVE Moves(w)
  <2>1. Busy(w) /\ todo' = todo
    BY <1>7 DEF Discover, AtStep, Busy
  <2>2. work' = [work EXCEPT ![w] = Advanced(w)] \/ work' = [work EXCEPT ![w] = Idle]
    BY <1>7 DEF Discover, Answer
  <2> QED
    BY <1>10, <1>11, <2>1, <2>2
<1>8. NextNode(w) => Moves(w)
  BY <1>1 DEF NextNode, AtStep, Moves, Busy, Shape, Work, Idle
<1> QED
  BY <1>2, <1>3, <1>4, <1>5, <1>6, <1>7, <1>8 DEF Worker

LEMMA NextApart == Shape /\ Apart /\ [Next]_vars => Apart'
<1> SUFFICES ASSUME Shape, Apart, [Next]_vars PROVE Apart'
  OBVIOUS
<1>0. granularity \in Nat \ {0} /\ Len(curr_frontier) \in Nat
  BY ParBfsAssumption, LenProperties DEF Shape, Frontier
<1>5. Shape'
  BY NextShape
<1>1. CASE UNCHANGED vars
  BY <1>1 DEF Apart, vars, Busy
<1>2. CASE Caller
  <2>1. (todo' = {} /\ work' = work) \/ OpenLevel
    BY <1>2 DEF Caller, StartVisit, Reset, TakeRoot, CloseRoots, Finish,
       CloseLevel, Shape
  <2>2. CASE todo' = {} /\ work' = work
    BY <2>2 DEF Apart, Busy
  <2>3. CASE OpenLevel
    <3>1. \A w \in Workers : ~Busy(w)'
      BY <2>3 DEF OpenLevel, Shape, AllIdle, Idle, Busy
    <3> QED
      BY <3>1 DEF Apart
  <2> QED
    BY <2>1, <2>2, <2>3
<1>3. ASSUME NEW w \in Workers, TakeChunk(w) PROVE Apart'
  <2>1. PICK p \in todo :
          /\ todo' = todo \ {p}
          /\ work'[w].at = p
          /\ work'[w].last <= p + granularity - 1
          /\ work'[w].last \in Int
    <3>1. PICK p \in todo :
            /\ todo' = todo \ {p}
            /\ work' = [work EXCEPT ![w] =
                 [at |-> p, succs |-> << >>, step |-> "node",
                  last |-> IF p + granularity - 1 > Len(curr_frontier)
                           THEN Len(curr_frontier) ELSE p + granularity - 1]]
      BY <1>3 DEF TakeChunk
    <3>2. work'[w] = [at |-> p, succs |-> << >>, step |-> "node",
                      last |-> IF p + granularity - 1 > Len(curr_frontier)
                               THEN Len(curr_frontier) ELSE p + granularity - 1]
      BY <3>1 DEF Shape
    <3>3. p \in Nat
      BY <1>0 DEF Shape, Chunks
    <3> QED
      BY <1>0, <3>1, <3>2, <3>3
  <2>2. \A q \in todo : q \in Chunks /\ q \in Nat
    BY <1>0 DEF Shape, Chunks
  <2>3. \A v \in Workers \ {w} : work'[v] = work[v]
        /\ work[v].at \in Nat /\ work[v].last \in Nat
    BY <1>3, WorkerFrame DEF Worker, Shape, Work
  <2>4. granularity' = granularity
    BY <1>3, WorkerFrame DEF Worker
  <2>5. \A q \in todo' : q + granularity - 1 < work'[w].at \/ work'[w].last < q
    <3> TAKE q \in todo'
    <3>1. q \in todo /\ (q < p \/ p < q)
      BY <2>1, <2>2
    <3> QED
      BY <1>0, <2>1, <2>2, <3>1, ChunksApart
  <2>6. \A v \in Workers \ {w} :
          Busy(v) => work'[w].last < work[v].at \/ work[v].last < work'[w].at
    BY <1>0, <2>1, <2>2, <2>3 DEF Apart
  <2> QED
    BY <2>1, <2>3, <2>4, <2>5, <2>6 DEF Apart, Busy
<1>4. ASSUME NEW w \in Workers, Worker(w), Moves(w) PROVE Apart'
  <2>1. \A v \in Workers \ {w} : work'[v] = work[v]
    BY <1>4, WorkerFrame
  <2>2. granularity' = granularity /\ todo' = todo
    BY <1>4, WorkerFrame DEF Moves
  <2>3. \A v \in Workers : work[v].at \in Nat /\ work[v].last \in Nat
                           /\ work'[v].at \in Nat /\ work'[v].last \in Nat
    BY <1>5 DEF Shape, Work
  <2>4. \A q \in todo : q \in Nat
    BY <1>0 DEF Shape, Chunks
  <2>5. \A v \in Workers : Busy(v)' =>
          /\ Busy(v)
          /\ work'[v].last = work[v].last
          /\ work[v].at <= work'[v].at
    BY <1>4, <2>1, <2>3 DEF Moves, Busy
  <2>6. \A v \in Workers, q \in todo : Busy(v)' =>
          q + granularity - 1 < work'[v].at \/ work'[v].last < q
    BY <1>0, <2>3, <2>4, <2>5 DEF Apart
  <2>7. \A u, v \in Workers : u # v /\ Busy(u)' /\ Busy(v)' =>
          work'[u].last < work'[v].at \/ work'[v].last < work'[u].at
    BY <2>3, <2>5 DEF Apart
  <2> HIDE DEF Busy
  <2> QED
    BY <2>2, <2>6, <2>7 DEF Apart
<1> QED
  BY <1>1, <1>2, <1>3, <1>4, WorkerFrame DEF Next

-----------------------------------------------------------------------------
(* During a visit the nodes of both frontiers, and those the workers have  *)
(* just found unknown, are marked, and no two of them are the same.        *)
Unknown(w) == work[w].step = "unknown"
Curr(i) == curr_frontier[i][1]
Coming(j) == next_frontier[j][1]
InCurr == 1 .. Len(curr_frontier)
InNext == 1 .. Len(next_frontier)

CurrMarked ==
  /\ \A i \in InCurr : Curr(i) \in visited
  /\ \A i, j \in InCurr : i # j => Curr(i) # Curr(j)
NextMarked ==
  /\ \A j \in InNext : Coming(j) \in visited
  /\ \A i, j \in InNext : i # j => Coming(i) # Coming(j)
  /\ \A i \in InCurr, j \in InNext : Curr(i) # Coming(j)
Fresh(u) ==
  /\ \A i \in InCurr : Curr(i) # u
  /\ \A j \in InNext : Coming(j) # u
FoundMarked ==
  /\ \A w \in Workers : Unknown(w) => Succ(w) \in visited /\ Fresh(Succ(w))
  /\ \A v, w \in Workers :
       v # w /\ Unknown(v) /\ Unknown(w) => Succ(v) # Succ(w)
Marked == pc # "idle" => CurrMarked /\ NextMarked /\ FoundMarked

LEMMA CallerMarked == Shape /\ Marked /\ Caller => Marked'
<1> SUFFICES ASSUME Shape, Marked, Caller, pc' # "idle" PROVE Marked'
  BY DEF Marked
<1>1. \A w \in Workers : ~Unknown(w)'
  <2>1. AllIdle'
    BY CallerShape DEF Caller, StartVisit, Reset, TakeRoot, CloseRoots, OpenLevel,
       Finish, CloseLevel, LevelOver, AllIdle, Shape
  <2> QED
    BY <2>1 DEF AllIdle, Idle, Unknown
<1>2. CASE StartVisit
  <2>1. curr_frontier' = << >> /\ next_frontier' = << >>
    BY <1>2 DEF StartVisit
  <2>2. InCurr' = {} /\ InNext' = {}
    BY <2>1 DEF InCurr, InNext
  <2> QED
    BY <1>1, <2>2 DEF Marked, CurrMarked, NextMarked, FoundMarked
<1>3. CASE TakeRoot
  <2>1. pc = "roots" /\ next_frontier = << >> /\ next_frontier' = << >>
    BY <1>3 DEF TakeRoot, Shape
  <2>2. InNext' = {}
    BY <2>1 DEF InNext
  <2>3. CurrMarked
    BY <2>1 DEF Marked
  <2>4. CurrMarked'
    <3>1. CASE UNCHANGED <<visited, curr_frontier>>
      BY <2>3, <3>1 DEF CurrMarked, InCurr, Curr
    <3>2. CASE \E r \in Nodes \ visited :
                 /\ visited' = visited \cup {r}
                 /\ curr_frontier' = Append(curr_frontier, <<r, r>>)
      <4>1. PICK r \in Nodes \ visited :
              /\ visited' = visited \cup {r}
              /\ curr_frontier' = Append(curr_frontier, <<r, r>>)
        BY <3>2
      <4>2. /\ Len(curr_frontier) \in Nat
            /\ Len(curr_frontier') = Len(curr_frontier) + 1
            /\ \A i \in InCurr : curr_frontier'[i] = curr_frontier[i]
            /\ curr_frontier'[Len(curr_frontier) + 1] = <<r, r>>
        BY <4>1, AppendProperties, LenProperties DEF Shape, Frontier, InCurr
      <4> QED
        BY <2>3, <4>1, <4>2 DEF CurrMarked, InCurr, Curr
    <3> QED
      <4>1. Head(roots) \in Nodes
        BY <1>3, HeadTailProperties DEF TakeRoot, Shape
      <4> QED
        BY <1>3, <3>1, <3>2, <4>1 DEF TakeRoot
  <2> QED
    BY <1>1, <2>2, <2>4 DEF Marked, NextMarked, FoundMarked
<1>4. CASE CloseRoots \/ OpenLevel
  <2>1. UNCHANGED <<curr_frontier, next_frontier, visited>> /\ pc # "idle"
    BY <1>4 DEF CloseRoots, OpenLevel
  <2> QED
    BY <1>1, <2>1 DEF Marked, CurrMarked, NextMarked, FoundMarked, InCurr, InNext,
       Curr, Coming
<1>5. CASE CloseLevel
  <2>1. /\ pc = "scan" /\ visited' = visited
        /\ curr_frontier' = next_frontier /\ next_frontier' = << >>
    BY <1>5 DEF CloseLevel
  <2>2. InNext' = {}
    BY <2>1 DEF InNext
  <2>3. CurrMarked'
    BY <2>1 DEF Marked, NextMarked, CurrMarked, InCurr, InNext, Curr, Coming
  <2> QED
    BY <1>1, <2>2, <2>3 DEF Marked, NextMarked, FoundMarked
<1>6. ~Reset /\ ~Finish
  BY DEF Reset, Finish, mine
<1> QED
  BY <1>2, <1>3, <1>4, <1>5, <1>6 DEF Caller

LEMMA WorkerMarked == Shape /\ Marked /\ (\E w \in Workers : Worker(w)) => Marked'
<1> SUFFICES ASSUME Shape, Marked, NEW w \in Workers, Worker(w) PROVE Marked'
  OBVIOUS
<1>1. /\ pc = "scan" /\ curr_frontier' = curr_frontier
      /\ \A v \in Workers \ {w} : work'[v] = work[v]
  BY WorkerFrame
<1>2. CurrMarked /\ NextMarked /\ FoundMarked
  BY <1>1 DEF Marked
<1>3. \A v \in Workers \ {w} : Succ(v)' = Succ(v) /\ (Unknown(v)' <=> Unknown(v))
  BY <1>1 DEF Succ, Unknown
<1>4. InCurr' = InCurr /\ (\A i \in InCurr : Curr(i)' = Curr(i))
  BY <1>1 DEF InCurr, Curr
(* A step that finds nothing and pushes nothing.                           *)
<1>5. ASSUME visited \subseteq visited', next_frontier' = next_frontier,
             ~Unknown(w)'
      PROVE  Marked'
  <2>1. InNext' = InNext /\ (\A j \in InNext : Coming(j)' = Coming(j))
    BY <1>5 DEF InNext, Coming
  <2>2. CurrMarked'
    BY <1>2, <1>4, <1>5 DEF CurrMarked
  <2>3. NextMarked'
    BY <1>2, <1>4, <1>5, <2>1 DEF NextMarked
  <2>4. FoundMarked'
    BY <1>2, <1>3, <1>4, <1>5, <2>1 DEF FoundMarked, Fresh
  <2> QED
    BY <2>2, <2>3, <2>4 DEF Marked
<1>6. work[w] \in Work /\ work \in [Workers -> Work]
  BY DEF Shape
<1>7. CASE TakeChunk(w)
  <2>1. ~Unknown(w)'
    BY <1>7 DEF TakeChunk, Shape, Unknown
  <2> QED
    BY <1>5, <1>7, <2>1 DEF TakeChunk
<1>8. CASE VisitNode(w)
  <2> DEFINE r == [work[w] EXCEPT !.succs = Successors(graph, Node(w)),
                                  !.step = "arcs"]
  <2>1. work' = [work EXCEPT ![w] = r] \/ work' = [work EXCEPT ![w] = Idle]
    BY <1>8 DEF VisitNode, Answer
  <2>2. r.step = "arcs" /\ Idle.step = "idle"
    BY <1>6 DEF Work, Idle
  <2> HIDE DEF r
  <2>3. ~Unknown(w)'
    BY <1>6, <2>1, <2>2 DEF Unknown
  <2> QED
    BY <1>5, <1>8, <2>3 DEF VisitNode
<1>9. Advanced(w).step = "arcs" /\ Idle.step = "idle"
  BY <1>6 DEF Advanced, Work, Idle
<1>10. CASE TellKnown(w)
  <2>1. work' = [work EXCEPT ![w] = Advanced(w)] \/ work' = [work EXCEPT ![w] = Idle]
    BY <1>10 DEF TellKnown, Answer
  <2>2. ~Unknown(w)'
    BY <1>6, <1>9, <2>1 DEF Unknown
  <2> QED
    BY <1>5, <1>10, <2>2 DEF TellKnown
<1>11. CASE NextNode(w)
  <2> DEFINE r == [work[w] EXCEPT !.at = work[w].at + 1, !.step = "node"]
  <2>1. work' = [work EXCEPT ![w] = r] \/ work' = [work EXCEPT ![w] = Idle]
    BY <1>11 DEF NextNode
  <2>2. r.step = "node"
    BY <1>6 DEF Work
  <2> HIDE DEF r
  <2>3. ~Unknown(w)'
    BY <1>6, <1>9, <2>1, <2>2 DEF Unknown
  <2> QED
    BY <1>5, <1>11, <2>3 DEF NextNode
<1>12. CASE SwapBit(w)
  <2>1. next_frontier' = next_frontier /\ work[w].step = "arcs"
    BY <1>12 DEF SwapBit, AtStep
  <2>2. CASE Passes(Succ(w)) /\ Succ(w) \notin visited
    <3>1. work' = [work EXCEPT ![w].step = "unknown"]
          /\ visited' = visited \cup {Succ(w)}
      BY <1>12, <2>2 DEF SwapBit, Found, Listed
    <3>2. Succ(w)' = Succ(w)
      BY <1>6, <3>1 DEF Succ, Work
    <3>3. InNext' = InNext /\ (\A j \in InNext : Coming(j)' = Coming(j))
      BY <2>1 DEF InNext, Coming
    <3>4. CurrMarked'
      BY <1>2, <1>4, <3>1 DEF CurrMarked
    <3>5. NextMarked'
      BY <1>2, <1>4, <3>1, <3>3 DEF NextMarked
    <3>6. Fresh(Succ(w)) /\ (\A v \in Workers : Unknown(v) => Succ(v) # Succ(w))
      BY <1>2, <2>2 DEF Fresh, CurrMarked, NextMarked, FoundMarked
    <3>7. Succ(w)' \in visited' /\ Fresh(Succ(w))'
      BY <1>4, <3>1, <3>2, <3>3, <3>6 DEF Fresh
    <3>8. \A v \in Workers \ {w} :
            Unknown(v)' => /\ Succ(v)' \in visited' /\ Fresh(Succ(v))'
                           /\ Succ(v)' # Succ(w)'
      BY <1>2, <1>3, <1>4, <3>1, <3>2, <3>3, <3>6 DEF FoundMarked, Fresh
    <3>9. \A u, v \in Workers \ {w} :
            u # v /\ Unknown(u)' /\ Unknown(v)' => Succ(u)' # Succ(v)'
      BY <1>2, <1>3 DEF FoundMarked
    <3>10. FoundMarked'
      BY <3>7, <3>8, <3>9 DEF FoundMarked
    <3> QED
      BY <3>4, <3>5, <3>10 DEF Marked
  <2>3. CASE ~(Passes(Succ(w)) /\ Succ(w) \notin visited)
    <3>1. /\ visited \subseteq visited'
          /\ \/ work' = [work EXCEPT ![w].step = "known"]
             \/ work' = [work EXCEPT ![w].succs = Tail(@)]
      BY <1>12, <2>3 DEF SwapBit, Found, Listed
    <3>2. CASE work' = [work EXCEPT ![w].step = "known"]
      BY <1>5, <1>6, <2>1, <3>1, <3>2 DEF Unknown, Work
    <3>3. CASE work' = [work EXCEPT ![w].succs = Tail(@)]
      <4>1. work'[w].step = "arcs"
        BY <1>6, <2>1, <3>3 DEF Work
      <4> QED
        BY <1>5, <2>1, <3>1, <4>1 DEF Unknown
    <3> QED
      BY <3>1, <3>2, <3>3
  <2> QED
    BY <2>2, <2>3
<1>13. CASE Discover(w)
  <2>1. work' = [work EXCEPT ![w] = Advanced(w)] \/ work' = [work EXCEPT ![w] = Idle]
    BY <1>13 DEF Discover, Answer
  <2>2. ~Unknown(w)' /\ visited' = visited
    BY <1>6, <1>9, <1>13, <2>1 DEF Unknown, Discover
  <2>3. CASE next_frontier' = next_frontier
    BY <1>5, <2>2, <2>3
  <2>4. CASE next_frontier' = Append(next_frontier, <<Succ(w), Node(w)>>)
    <3>1. Unknown(w) /\ work[w].succs # << >> /\ Busy(w)
      BY <1>13 DEF Discover, AtStep, Unknown, Busy, Shape
    <3>2. <<Succ(w), Node(w)>> \in Nodes \X Nodes
      BY <3>1, WorkerNodes
    <3>3. /\ Len(next_frontier) \in Nat
          /\ Len(next_frontier') = Len(next_frontier) + 1
          /\ \A j \in InNext : next_frontier'[j] = next_frontier[j]
          /\ next_frontier'[Len(next_frontier) + 1] = <<Succ(w), Node(w)>>
      BY <2>4, <3>2, AppendProperties, LenProperties DEF Shape, Frontier, InNext
    <3>4. /\ \A j \in InNext' : IF j \in InNext THEN Coming(j)' = Coming(j)
                                                ELSE Coming(j)' = Succ(w)
          /\ \A i, j \in InNext' : i \notin InNext /\ j \notin InNext => i = j
      BY <3>3 DEF InNext, Coming
    <3>5. Succ(w) \in visited /\ Fresh(Succ(w))
          /\ (\A v \in Workers \ {w} : Unknown(v) => Succ(v) # Succ(w))
      BY <1>2, <3>1 DEF FoundMarked
    <3>6. CurrMarked'
      BY <1>2, <1>4, <2>2 DEF CurrMarked
    <3>7. NextMarked'
      BY <1>2, <1>4, <2>2, <3>4, <3>5 DEF NextMarked, Fresh
    <3>8. FoundMarked'
      BY <1>2, <1>3, <1>4, <2>2, <3>4, <3>5 DEF FoundMarked, Fresh
    <3> QED
      BY <3>6, <3>7, <3>8 DEF Marked
  <2> QED
    BY <1>13, <2>3, <2>4 DEF Discover
<1> QED
  BY <1>7, <1>8, <1>10, <1>11, <1>12, <1>13 DEF Worker

LEMMA NextMarkedInv == Shape /\ Marked /\ [Next]_vars => Marked'
<1>1. Marked /\ UNCHANGED vars => Marked'
  BY DEF vars, mine, Marked, CurrMarked, NextMarked, FoundMarked, Fresh, InCurr,
     InNext, Curr, Coming, Unknown, Succ
<1> QED
  BY <1>1, CallerMarked, WorkerMarked DEF Next

-----------------------------------------------------------------------------
(* Whom nobody has been told of yet: nodes found unknown and, where nodes  *)
(* are told when they are taken from the frontier, those of the coming     *)
(* level and those at positions that no worker has come to.                *)
Untold(u) == told[u] = << >>
Waiting(i) ==
  \/ pc \in {"roots", "level"}
  \/ \E p \in todo : p <= i /\ i <= p + granularity - 1
  \/ \E w \in Workers : Busy(w) /\ work[w].at < i /\ i <= work[w].last
  \/ \E w \in Workers : work[w].step = "node" /\ i = work[w].at

OnceEach ==
  /\ told = [u \in Nodes |-> told[u]]
  /\ \A u \in Nodes : ~Untold(u) => Len(told[u]) = 1 /\ u \in visited
FoundUntold == \A w \in Workers : Unknown(w) => Untold(Succ(w))
LevelUntold ==
  kind = "fair" /\ pc # "idle" =>
    /\ \A i \in InCurr : Waiting(i) => Untold(Curr(i))
    /\ \A j \in InNext : Untold(Coming(j))
ToldInv == OnceEach /\ FoundUntold /\ LevelUntold

(* Telling a node that nobody was told of.                                 *)
LEMMA TellUntold ==
  ASSUME OnceEach, NEW x \in Nodes, NEW p, NEW d, Untold(x),
         told' = Tells(x, p, d), x \in visited', visited \subseteq visited',
         graph' = graph
  PROVE  OnceEach' /\ \A u \in Nodes \ {x} : Untold(u) => Untold(u)'
<1> DEFINE e == [pred |-> p, distance |-> d]
<1>1. told' = [told EXCEPT ![x] = Append(@, e)]
  BY DEF Tells
<1> HIDE DEF e
<1>2. /\ told' = [u \in Nodes |-> told'[u]]
      /\ \A u \in Nodes : told'[u] = IF u = x THEN Append(<< >>, e) ELSE told[u]
  BY <1>1 DEF OnceEach, Untold
<1>3. Len(Append(<< >>, e)) = 1
  <2>1. << >> \in Seq({e}) /\ Len(<< >>) = 0
    OBVIOUS
  <2> QED
    BY <2>1, AppendProperties
<1>4. Nodes' = Nodes
  BY DEF Nodes
<1> QED
  BY <1>2, <1>3, <1>4 DEF OnceEach, Untold

LEMMA FrontierNodes ==
  ASSUME Shape
  PROVE  /\ \A i \in InCurr : Curr(i) \in Nodes
         /\ \A j \in InNext : Coming(j) \in Nodes
<1>1. \A i \in InCurr : curr_frontier[i] \in Nodes \X Nodes
  BY ElementOfSeq DEF Shape, Frontier, InCurr
<1>2. \A j \in InNext : next_frontier[j] \in Nodes \X Nodes
  BY ElementOfSeq DEF Shape, Frontier, InNext
<1> QED
  BY <1>1, <1>2 DEF Curr, Coming

LEMMA CallerTold == Shape /\ ToldInv /\ Caller => ToldInv'
<1> SUFFICES ASSUME Shape, ToldInv, Caller PROVE ToldInv'
  OBVIOUS
<1>1. FoundUntold'
  <2>1. AllIdle'
    BY CallerShape DEF Caller, StartVisit, Reset, TakeRoot, CloseRoots, OpenLevel,
       Finish, CloseLevel, LevelOver, AllIdle, Shape
  <2> QED
    BY <2>1 DEF AllIdle, Idle, Unknown, FoundUntold
<1>2. OnceEach /\ LevelUntold
  BY DEF ToldInv
<1>3. CASE StartVisit
  <2>1. curr_frontier' = << >> /\ next_frontier' = << >>
        /\ UNCHANGED <<told, visited, graph>>
    BY <1>3 DEF StartVisit
  <2>2. InCurr' = {} /\ InNext' = {}
    BY <2>1 DEF InCurr, InNext
  <2>3. OnceEach'
    BY <1>2, <2>1 DEF OnceEach, Untold, Nodes
  <2> QED
    BY <1>1, <2>2, <2>3 DEF ToldInv, LevelUntold
<1>4. CASE Reset
  <2>1. told' = [u \in Nodes |-> << >>] /\ pc' = "idle" /\ Nodes' = Nodes
    BY <1>4 DEF Reset, mine, Nodes
  <2>2. \A u \in Nodes : told'[u] = << >>
    BY <2>1
  <2>3. told' = [u \in Nodes |-> told'[u]]
    BY <2>1
  <2>4. OnceEach'
    BY <2>1, <2>2, <2>3 DEF OnceEach, Untold
  <2> QED
    BY <1>1, <2>1, <2>4 DEF ToldInv, LevelUntold
<1>5. CASE TakeRoot
  <2>1. /\ pc = "roots" /\ graph' = graph /\ kind' = kind
        /\ next_frontier = << >> /\ next_frontier' = << >>
        /\ Head(roots) \in Nodes
    BY <1>5, HeadTailProperties DEF TakeRoot, Shape
  <2>2. InNext' = {}
    BY <2>1 DEF InNext
  <2>3. CASE UNCHANGED <<visited, curr_frontier, told>>
    <3>1. OnceEach'
      BY <1>2, <2>1, <2>3 DEF OnceEach, Untold, Nodes
    <3>2. LevelUntold'
      BY <1>2, <2>1, <2>2, <2>3
         DEF LevelUntold, Waiting, InCurr, Curr, Untold
    <3> QED
      BY <1>1, <3>1, <3>2 DEF ToldInv
  <2>4. CASE /\ Head(roots) \notin visited
             /\ visited' = visited \cup {Head(roots)}
             /\ curr_frontier' = Append(curr_frontier, <<Head(roots), Head(roots)>>)
             /\ told' = IF kind = "lowmem" THEN Tells(Head(roots), Head(roots), 0)
                        ELSE told
    <3>1. Untold(Head(roots))
      BY <1>2, <2>1, <2>4 DEF OnceEach
    <3>2. CASE kind = "lowmem"
      <4>1. OnceEach'
        BY <1>2, <2>1, <2>4, <3>1, <3>2, TellUntold
      <4>2. LevelUntold'
        BY <2>1, <3>2 DEF LevelUntold
      <4> QED
        BY <1>1, <4>1, <4>2 DEF ToldInv
    <3>3. CASE kind # "lowmem"
      <4>1. told' = told
        BY <2>4, <3>3
      <4>2. OnceEach'
        BY <1>2, <2>1, <2>4, <4>1 DEF OnceEach, Untold, Nodes
      <4>3. <<Head(roots), Head(roots)>> \in Nodes \X Nodes
        BY <2>1
      <4>4. /\ Len(curr_frontier) \in Nat
            /\ Len(curr_frontier') = Len(curr_frontier) + 1
            /\ \A i \in InCurr : curr_frontier'[i] = curr_frontier[i]
            /\ curr_frontier'[Len(curr_frontier) + 1] = <<Head(roots), Head(roots)>>
        BY <2>4, <4>3, AppendProperties, LenProperties DEF Shape, Frontier, InCurr
      <4>5. \A i \in InCurr' : \/ Curr(i)' = Head(roots)
                               \/ i \in InCurr /\ Curr(i)' = Curr(i)
        BY <4>4 DEF InCurr, Curr
      <4>6. kind = "fair" => \A i \in InCurr : Untold(Curr(i))
        BY <1>2, <2>1 DEF LevelUntold, Waiting
      <4>7. LevelUntold'
        BY <2>1, <2>2, <3>1, <4>1, <4>5, <4>6 DEF LevelUntold, Untold
      <4> QED
        BY <1>1, <4>2, <4>7 DEF ToldInv
    <3> QED
      BY <3>2, <3>3
  <2> QED
    BY <1>5, <2>3, <2>4 DEF TakeRoot
<1>6. CASE CloseRoots \/ OpenLevel
  <2>1. /\ UNCHANGED <<curr_frontier, next_frontier, visited, told, graph, kind>>
        /\ pc \in {"roots", "level"}
    BY <1>6 DEF CloseRoots, OpenLevel
  <2>2. OnceEach'
    BY <1>2, <2>1 DEF OnceEach, Untold, Nodes
  <2>3. LevelUntold'
    BY <1>2, <2>1 DEF LevelUntold, Waiting, InCurr, InNext, Curr, Coming, Untold
  <2> QED
    BY <1>1, <2>2, <2>3 DEF ToldInv
<1>7. CASE Finish
  <2>1. pc' = "idle" /\ UNCHANGED <<visited, told, graph>>
    BY <1>7 DEF Finish
  <2> QED
    BY <1>1, <1>2, <2>1 DEF ToldInv, OnceEach, Untold, Nodes, LevelUntold
<1>8. CASE CloseLevel
  <2>1. UNCHANGED <<visited, told, graph, kind>> /\ pc = "scan"
    BY <1>8 DEF CloseLevel
  <2>2. OnceEach'
    BY <1>2, <2>1 DEF OnceEach, Untold, Nodes
  <2>3. CASE pc' = "idle"
    BY <1>1, <2>2, <2>3 DEF ToldInv, LevelUntold
  <2>4. CASE pc' # "idle"
    <3>1. curr_frontier' = next_frontier /\ next_frontier' = << >>
      BY <1>8, <2>4 DEF CloseLevel
    <3>2. InNext' = {} /\ InCurr' = InNext /\ \A j \in InNext : Curr(j)' = Coming(j)
      BY <3>1 DEF InCurr, InNext, Curr, Coming
    <3>3. LevelUntold'
      BY <1>2, <2>1, <3>2 DEF LevelUntold, Untold
    <3> QED
      BY <1>1, <2>2, <3>3 DEF ToldInv
  <2> QED
    BY <2>3, <2>4
<1> QED
  BY <1>3, <1>4, <1>5, <1>6, <1>7, <1>8 DEF Caller

(* Positions only ever stop waiting.                                       *)
LEMMA WaitingShrinks ==
  ASSUME Shape, Apart, NEW w \in Workers, Worker(w)
  PROVE  /\ \A i \in InCurr : Waiting(i)' => Waiting(i)
         /\ VisitNode(w) => \A i \in InCurr : Waiting(i)' => i # work[w].at
<1>1. /\ pc = "scan" /\ UNCHANGED <<pc, curr_frontier, granularity>>
      /\ \A v \in Workers \ {w} : work'[v] = work[v]
      /\ TakeChunk(w) \/ Moves(w)
  BY WorkerFrame
<1>2. /\ granularity \in Nat \ {0} /\ Len(curr_frontier) \in Nat
      /\ \A p \in todo : p \in Nat
      /\ \A v \in Workers : work[v].at \in Nat /\ work[v].last \in Nat
  BY ParBfsAssumption, LenProperties, WorkerNodes DEF Shape, Frontier, Chunks
<1>3. Shape' /\ \A v \in Workers : work'[v].at \in Nat /\ work'[v].last \in Nat
  <2>1. Shape'
    BY WorkerShape
  <2> QED
    BY <2>1 DEF Shape, Work
(* Others wait for what they waited for.                                   *)
<1>4. ASSUME NEW i \in InCurr, Waiting(i)'
      PROVE  \/ Waiting(i)
             \/ Busy(w)' /\ work'[w].at < i /\ i <= work'[w].last
             \/ work'[w].step = "node" /\ i = work'[w].at
  <2>1. CASE \E p \in todo' : p <= i /\ i <= p + granularity' - 1
    <3>1. todo' \subseteq todo
      BY <1>1 DEF TakeChunk, Moves
    <3> QED
      BY <1>1, <2>1, <3>1 DEF Waiting
  <2>2. CASE \E v \in Workers \ {w} :
               \/ Busy(v)' /\ work'[v].at < i /\ i <= work'[v].last
               \/ work'[v].step = "node" /\ i = work'[v].at
    BY <1>1, <2>2 DEF Waiting, Busy
  <2> QED
    BY <1>1, <1>4, <2>1, <2>2 DEF Waiting
<1>5. CASE TakeChunk(w)
  <2>1. PICK p \in todo :
          work' = [work EXCEPT ![w] =
            [at |-> p, succs |-> << >>, step |-> "node",
             last |-> IF p + granularity - 1 > Len(curr_frontier)
                      THEN Len(curr_frontier) ELSE p + granularity - 1]]
    BY <1>5 DEF TakeChunk
  <2>2. work'[w].at = p /\ work'[w].last <= p + granularity - 1
    <3>1. work'[w] = [at |-> p, succs |-> << >>, step |-> "node",
                      last |-> IF p + granularity - 1 > Len(curr_frontier)
                               THEN Len(curr_frontier) ELSE p + granularity - 1]
      BY <2>1 DEF Shape
    <3> QED
      BY <1>2, <3>1
  <2>3. \A i \in InCurr : work'[w].at <= i /\ i <= work'[w].last => Waiting(i)
    BY <1>2, <1>3, <2>2 DEF Waiting, InCurr
  <2>4. work'[w].at <= work'[w].last
    BY <1>2, <1>3, <2>1, <2>2 DEF Shape, Busy
  <2>5. ~VisitNode(w)
    BY <1>5 DEF TakeChunk, VisitNode, AtStep
  <2> QED
    BY <1>2, <1>3, <1>4, <2>3, <2>4, <2>5 DEF InCurr
<1>6. CASE Moves(w)
  <2>1. Busy(w) /\ todo' = todo
        /\ (Busy(w)' => work'[w].last = work[w].last /\ work[w].at <= work'[w].at)
        /\ (work'[w].step = "node" => work[w].at < work'[w].at)
    BY <1>2, <1>3, <1>6 DEF Moves
  <2>2. work'[w].step = "node" => Busy(w)' /\ work'[w].at <= work'[w].last
    BY <1>3 DEF Shape, Busy
  <2>3. ASSUME NEW i \in InCurr, Waiting(i)' PROVE Waiting(i)
    <3>1. i \in Nat
      BY <1>2 DEF InCurr
    <3>2. CASE Busy(w)' /\ work'[w].at < i /\ i <= work'[w].last
      BY <1>2, <1>3, <2>1, <3>1, <3>2 DEF Waiting
    <3>3. CASE work'[w].step = "node" /\ i = work'[w].at
      BY <1>2, <1>3, <2>1, <2>2, <3>1, <3>3 DEF Waiting
    <3> QED
      BY <1>4, <2>3, <3>2, <3>3
  <2>4. ASSUME NEW i \in InCurr, Waiting(i)', i = work[w].at PROVE FALSE
    <3>1. work[w].at <= work[w].last
      BY <2>1 DEF Shape
    <3>2. \A p \in todo : ~(p <= i /\ i <= p + granularity - 1)
      <4>1. \A p \in todo : p + granularity - 1 < work[w].at \/ work[w].last < p
        BY <2>1 DEF Apart
      <4> QED
        BY <1>2, <2>4, <3>1, <4>1
    <3>3. \A v \in Workers \ {w} :
            Busy(v) => work[v].last < work[w].at \/ work[w].last < work[v].at
      BY <2>1 DEF Apart
    <3>4. \A v \in Workers \ {w} : Busy(v) => work[v].at <= work[v].last
      BY DEF Shape
    <3>5. \A v \in Workers \ {w} :
            ~(Busy(v) /\ work[v].at <= i /\ i <= work[v].last)
      BY <1>2, <2>4, <3>1, <3>3
    <3>6. \A v \in Workers \ {w} : work[v].step = "node" => i # work[v].at
      BY <1>2, <3>4, <3>5 DEF Busy
    <3>7. \A v \in Workers \ {w} :
            ~(Busy(v) /\ work[v].at < i /\ i <= work[v].last)
      BY <1>2, <2>4, <3>5
    <3>8. ~(Busy(w)' /\ work'[w].at < i) /\ ~(work'[w].step = "node" /\ i = work'[w].at)
      BY <1>2, <1>3, <2>1, <2>4
    <3> QED
      BY <1>1, <2>1, <2>4, <3>2, <3>6, <3>7, <3>8 DEF Waiting, Busy
  <2> QED
    BY <2>3, <2>4
<1> QED
  BY <1>1, <1>5, <1>6

LEMMA WorkerTold ==
  Shape /\ Apart /\ Marked /\ ToldInv /\ (\E w \in Workers : Worker(w)) => ToldInv'
<1> SUFFICES ASSUME Shape, Apart, Marked, ToldInv, NEW w \in Workers, Worker(w)
             PROVE  ToldInv'
  OBVIOUS
<1>1. /\ pc = "scan" /\ UNCHANGED <<pc, curr_frontier, kind, graph>>
      /\ \A v \in Workers \ {w} : work'[v] = work[v]
  BY WorkerFrame
<1>2. /\ OnceEach /\ FoundUntold /\ LevelUntold
      /\ CurrMarked /\ NextMarked /\ FoundMarked
  BY <1>1 DEF ToldInv, Marked
<1>3. \A v \in Workers \ {w} : Succ(v)' = Succ(v) /\ (Unknown(v)' <=> Unknown(v))
  BY <1>1 DEF Succ, Unknown
<1>4. /\ InCurr' = InCurr
      /\ \A i \in InCurr : Curr(i)' = Curr(i) /\ (Waiting(i)' => Waiting(i))
  BY <1>1, WaitingShrinks DEF InCurr, Curr
<1>5. Nodes' = Nodes /\ work[w] \in Work /\ work \in [Workers -> Work]
  BY <1>1 DEF Nodes, Shape
(* A step that tells nothing: what it found or pushed must be untold.      *)
<1>6. ASSUME told' = told, visited \subseteq visited',
             Unknown(w)' => Untold(Succ(w)'),
             kind = "fair" => \A j \in InNext' : Untold(Coming(j)')
      PROVE  ToldInv'
  <2>1. OnceEach'
    BY <1>2, <1>5, <1>6 DEF OnceEach, Untold
  <2>2. FoundUntold'
    BY <1>2, <1>3, <1>6 DEF FoundUntold, Untold
  <2>3. LevelUntold'
    BY <1>1, <1>2, <1>4, <1>6 DEF LevelUntold, Untold
  <2> QED
    BY <2>1, <2>2, <2>3 DEF ToldInv
<1>7. kind = "fair" => \A j \in InNext : Untold(Coming(j))
  BY <1>1, <1>2 DEF LevelUntold
<1>8. ASSUME next_frontier' = next_frontier
      PROVE  InNext' = InNext /\ \A j \in InNext : Coming(j)' = Coming(j)
  BY <1>8 DEF InNext, Coming
<1>9. CASE TakeChunk(w)
  <2>1. ~Unknown(w)' /\ UNCHANGED <<told, visited, next_frontier>>
    BY <1>9 DEF TakeChunk, Shape, Unknown
  <2> QED
    BY <1>6, <1>7, <1>8, <2>1
<1>10. Advanced(w).step = "arcs" /\ Idle.step = "idle"
  BY <1>5 DEF Advanced, Work, Idle
<1>11. CASE VisitNode(w)
  <2> DEFINE r == [work[w] EXCEPT !.succs = Successors(graph, Node(w)),
                                  !.step = "arcs"]
  <2>1. work' = [work EXCEPT ![w] = r] \/ work' = [work EXCEPT ![w] = Idle]
    BY <1>11 DEF VisitNode, Answer
  <2>2. r.step = "arcs"
    BY <1>5 DEF Work
  <2> HIDE DEF r
  <2>3. ~Unknown(w)' /\ UNCHANGED <<visited, next_frontier>>
    BY <1>5, <1>10, <1>11, <2>1, <2>2 DEF Unknown, VisitNode
  <2>4. CASE kind # "fair"
    <3>1. told' = told
      BY <1>11, <2>4 DEF VisitNode
    <3> QED
      BY <1>6, <1>7, <1>8, <2>3, <3>1
  <2>5. CASE kind = "fair"
    <3>1. told' = Tells(Node(w), Pred(w), distance) /\ work[w].step = "node"
      BY <1>11, <2>5 DEF VisitNode, AtStep
    <3>2. work[w].at \in InCurr /\ Node(w) \in Nodes
      BY <3>1, WorkerNodes DEF InCurr, Busy
    <3>3. Node(w) = Curr(work[w].at) /\ Waiting(work[w].at)
      BY <3>1 DEF Node, Curr, Waiting
    <3>4. Untold(Node(w)) /\ Node(w) \in visited
      BY <1>1, <1>2, <2>5, <3>2, <3>3 DEF LevelUntold, CurrMarked
    <3>5. OnceEach' /\ \A u \in Nodes \ {Node(w)} : Untold(u) => Untold(u)'
      BY <1>1, <1>2, <2>3, <3>1, <3>2, <3>4, TellUntold
    <3>6. \A v \in Workers : Unknown(v) => Succ(v) \in Nodes \ {Node(w)}
      <4> SUFFICES ASSUME NEW v \in Workers, Unknown(v)
                   PROVE  Succ(v) \in Nodes /\ Succ(v) # Node(w)
        OBVIOUS
      <4>1. work[v].succs # << >>
        BY DEF Unknown, Shape
      <4> QED
        BY <1>2, <3>2, <3>3, <4>1, WorkerNodes DEF FoundMarked, Fresh
    <3>7. FoundUntold'
      BY <1>2, <1>3, <2>3, <3>5, <3>6 DEF FoundUntold, Untold
    <3>8. \A i \in InCurr : Waiting(i)' => Curr(i) \in Nodes \ {Node(w)}
      <4>1. \A i \in InCurr : Waiting(i)' => i # work[w].at
        BY <1>11, WaitingShrinks
      <4> QED
        BY <1>2, <3>2, <3>3, <4>1, FrontierNodes DEF CurrMarked
    <3>9. \A j \in InNext : Coming(j) \in Nodes \ {Node(w)}
      BY <1>2, <3>2, <3>3, FrontierNodes DEF NextMarked
    <3>10. /\ \A i \in InCurr : Waiting(i)' => Untold(Curr(i))'
           /\ \A j \in InNext : Untold(Coming(j))'
      <4>1. \A i \in InCurr : Waiting(i)' => Untold(Curr(i))
        BY <1>1, <1>2, <1>4, <2>5 DEF LevelUntold
      <4>2. \A u \in Nodes \ {Node(w)} : Untold(u) => told'[u] = << >>
        BY <3>5 DEF Untold
      <4>3. \A i \in InCurr : Waiting(i)' => told'[Curr(i)'] = << >>
        BY <1>4, <3>8, <4>1, <4>2
      <4>4. \A j \in InNext : told'[Coming(j)'] = << >>
        BY <1>7, <1>8, <2>3, <2>5, <3>9, <4>2
      <4> QED
        BY <4>3, <4>4 DEF Untold
    <3>11. LevelUntold'
      BY <1>4, <1>8, <2>3, <3>10 DEF LevelUntold
    <3> QED
      BY <3>5, <3>7, <3>11 DEF ToldInv
  <2> QED
    BY <2>4, <2>5
<1>12. CASE TellKnown(w)
  <2>1. work' = [work EXCEPT ![w] = Advanced(w)] \/ work' = [work EXCEPT ![w] = Idle]
    BY <1>12 DEF TellKnown, Answer
  <2>2. ~Unknown(w)' /\ UNCHANGED <<told, visited, next_frontier>>
    BY <1>5, <1>10, <1>12, <2>1 DEF Unknown, TellKnown
  <2> QED
    BY <1>6, <1>7, <1>8, <2>2
<1>13. CASE NextNode(w)
  <2> DEFINE r == [work[w] EXCEPT !.at = work[w].at + 1, !.step = "node"]
  <2>1. work' = [work EXCEPT ![w] = r] \/ work' = [work EXCEPT ![w] = Idle]
    BY <1>13 DEF NextNode
  <2>2. r.step = "node"
    BY <1>5 DEF Work
  <2> HIDE DEF r
  <2>3. ~Unknown(w)' /\ UNCHANGED <<told, visited, next_frontier>>
    BY <1>5, <1>10, <1>13, <2>1, <2>2 DEF Unknown, NextNode
  <2> QED
    BY <1>6, <1>7, <1>8, <2>3
<1>14. CASE SwapBit(w)
  <2>1. /\ UNCHANGED <<told, next_frontier>> /\ visited \subseteq visited'
        /\ work[w].step = "arcs" /\ work[w].succs # << >>
    BY <1>14 DEF SwapBit, AtStep, Listed
  <2>2. Unknown(w)' => Untold(Succ(w)')
    <3>1. CASE Passes(Succ(w))
      <4>1. work' = [work EXCEPT ![w].step = Found(Succ(w))]
        BY <1>14, <3>1 DEF SwapBit
      <4>2. Succ(w)' = Succ(w) /\ work'[w].step = Found(Succ(w))
        BY <1>5, <4>1 DEF Succ, Work
      <4>3. Unknown(w)' => Succ(w) \notin visited
        BY <4>2 DEF Unknown, Found
      <4> QED
        BY <1>2, <2>1, <4>2, <4>3, WorkerNodes DEF OnceEach
    <3>2. CASE ~Passes(Succ(w))
      <4>1. work' = [work EXCEPT ![w].succs = Tail(@)]
        BY <1>14, <3>2 DEF SwapBit
      <4>2. work'[w].step = "arcs"
        BY <1>5, <2>1, <4>1 DEF Work
      <4> QED
        BY <4>2 DEF Unknown
    <3> QED
      BY <3>1, <3>2
  <2> QED
    BY <1>6, <1>7, <1>8, <2>1, <2>2
<1>15. CASE Discover(w)
  <2>1. work' = [work EXCEPT ![w] = Advanced(w)] \/ work' = [work EXCEPT ![w] = Idle]
    BY <1>15 DEF Discover, Answer
  <2>2. ~Unknown(w)' /\ visited' = visited
    BY <1>5, <1>10, <1>15, <2>1 DEF Unknown, Discover
  <2>3. Unknown(w) /\ work[w].succs # << >> /\ Busy(w)
    BY <1>15 DEF Discover, AtStep, Unknown, Busy, Shape
  <2>4. Succ(w) \in Nodes /\ Untold(Succ(w)) /\ Succ(w) \in visited
    BY <1>2, <2>3, WorkerNodes DEF FoundUntold, FoundMarked
  <2>5. CASE kind = "lowmem"
    <3>1. told' = Tells(Succ(w), Node(w), distance + 1)
      BY <1>15, <2>5 DEF Discover
    <3>2. OnceEach' /\ \A u \in Nodes \ {Succ(w)} : Untold(u) => Untold(u)'
      BY <1>1, <1>2, <2>2, <2>4, <3>1, TellUntold
    <3>3. \A v \in Workers \ {w} : Unknown(v) => Succ(v) \in Nodes \ {Succ(w)}
      <4> SUFFICES ASSUME NEW v \in Workers \ {w}, Unknown(v)
                   PROVE  Succ(v) \in Nodes /\ Succ(v) # Succ(w)
        OBVIOUS
      <4>1. work[v].succs # << >>
        BY DEF Unknown, Shape
      <4> QED
        BY <1>2, <2>3, <4>1, WorkerNodes DEF FoundMarked
    <3>4. FoundUntold'
      BY <1>2, <1>3, <2>2, <3>2, <3>3 DEF FoundUntold, Untold
    <3>5. LevelUntold'
      BY <1>1, <2>5 DEF LevelUntold
    <3> QED
      BY <3>2, <3>4, <3>5 DEF ToldInv
  <2>6. CASE kind # "lowmem"
    <3>1. told' = told
      BY <1>15, <2>6 DEF Discover
    <3>2. CASE next_frontier' = next_frontier
      BY <1>6, <1>7, <1>8, <2>2, <3>1, <3>2
    <3>3. CASE next_frontier' = Append(next_frontier, <<Succ(w), Node(w)>>)
      <4>1. <<Succ(w), Node(w)>> \in Nodes \X Nodes
        BY <2>3, WorkerNodes
      <4>2. /\ Len(next_frontier) \in Nat
            /\ Len(next_frontier') = Len(next_frontier) + 1
            /\ \A j \in InNext : next_frontier'[j] = next_frontier[j]
            /\ next_frontier'[Len(next_frontier) + 1] = <<Succ(w), Node(w)>>
        BY <3>3, <4>1, AppendProperties, LenProperties DEF Shape, Frontier, InNext
      <4>3. \A j \in InNext' : \/ Coming(j)' = Succ(w)
                               \/ j \in InNext /\ Coming(j)' = Coming(j)
        BY <4>2 DEF InNext, Coming
      <4>4. kind = "fair" => \A j \in InNext' : Untold(Coming(j)')
        BY <1>7, <2>4, <4>3
      <4> QED
        BY <1>6, <2>2, <3>1, <4>4
    <3> QED
      BY <1>15, <3>2, <3>3 DEF Discover
  <2> QED
    BY <2>5, <2>6
<1> QED
  BY <1>9, <1>11, <1>12, <1>13, <1>14, <1>15 DEF Worker

-----------------------------------------------------------------------------
ParBfsInv == Shape /\ Apart /\ Marked /\ ToldInv

LEMMA InitParBfsInv == Init => ParBfsInv
<1> SUFFICES ASSUME Init PROVE ParBfsInv
  OBVIOUS
<1>1. Shape /\ \A w \in Workers : work[w].step = "idle"
  BY InitShape DEF Init, Idle
<1>2. Apart
  BY <1>1 DEF Apart, Busy
<1>3. Marked
  BY DEF Init, Marked
<1>4. told = [u \in Nodes |-> << >>] /\ pc = "idle"
  BY DEF Init
<1>5. \A u \in Nodes : told[u] = << >>
  BY <1>4
<1>6. OnceEach
  BY <1>4, <1>5 DEF OnceEach, Untold
<1>7. FoundUntold /\ LevelUntold
  BY <1>1, <1>4 DEF FoundUntold, LevelUntold, Unknown
<1> QED
  BY <1>1, <1>2, <1>3, <1>6, <1>7 DEF ParBfsInv, ToldInv

LEMMA NextParBfsInv == ParBfsInv /\ [Next]_vars => ParBfsInv'
<1> SUFFICES ASSUME ParBfsInv, [Next]_vars PROVE ParBfsInv'
  OBVIOUS
<1>1. Shape' /\ Apart' /\ Marked'
  BY NextShape, NextApart, NextMarkedInv DEF ParBfsInv
<1>2. ToldInv /\ UNCHANGED vars => ToldInv'
  BY DEF vars, mine, ToldInv, OnceEach, FoundUntold, LevelUntold, Waiting, Untold,
     InCurr, InNext, Curr, Coming, Unknown, Succ, Busy, Nodes
<1>3. ToldInv'
  BY <1>2, CallerTold, WorkerTold DEF ParBfsInv, Next
<1> QED
  BY <1>1, <1>3 DEF ParBfsInv

LEMMA OnceFromInv == ParBfsInv => ToldOnce
<1> SUFFICES ASSUME ParBfsInv, NEW u \in Nodes PROVE Len(told[u]) <= 1
  BY DEF ToldOnce
<1>1. CASE told[u] = << >>
  <2>1. Len(<< >>) = 0
    OBVIOUS
  <2> QED
    BY <1>1, <2>1
<1>2. CASE told[u] # << >>
  <2>1. OnceEach /\ ~Untold(u)
    BY <1>2 DEF ParBfsInv, ToldInv, Untold
  <2>2. Len(told[u]) = 1
    BY <2>1 DEF OnceEach
  <2> QED
    BY <2>2
<1> QED
  BY <1>1, <1>2

(* Between two resets no callback is told twice of a node, by whichever    *)
(* worker discovered it (par_low_mem.rs:206, par_fair.rs:199): callers may *)
(* write to the node's cell without synchronisation.                       *)
THEOREM NobodyToldTwice == Spec => []ToldOnce
<1>1. Init => ParBfsInv
  BY InitParBfsInv
<1>2. ParBfsInv /\ [Next]_vars => ParBfsInv'
  BY NextParBfsInv
<1>3. ParBfsInv => ToldOnce
  BY OnceFromInv
<1> QED
  BY <1>1, <1>2, <1>3, PTL DEF Spec

(* Whatever the interleaving, two workers never hold the same position of  *)
(* the frontier, and a chunk is taken once (par_fair.rs:186).              *)
THEOREM ChunksTakenOnce == Spec => []Apart
<1>1. Init => ParBfsInv
  BY InitParBfsInv
<1>2. ParBfsInv /\ [Next]_vars => ParBfsInv'
  BY NextParBfsInv
<1>3. ParBfsInv => Apart
  BY DEF ParBfsInv
<1> QED
  BY <1>1, <1>2, <1>3, PTL DEF Spec

-----------------------------------------------------------------------------
(* What the parallel visits know at each point: the frontier is the level  *)
(* of its distance, the levels above it are told and complete, and of the  *)
(* next one is marked what arcs already followed lead to.                  *)
CurrNodes == {Curr(i) : i \in InCurr}
CurrPred(i) == curr_frontier[i][2]
ComingPred(j) == next_frontier[j][2]
TellsLate == kind = "fair"

LevelsInv ==
  /\ start \subseteq Nodes
  /\ Layered(graph, levels)
  /\ pc # "idle" => levels = Levels(graph, start, old, accept)
  /\ visited \subseteq old \cup UNION {levels[d] : d \in DOMAIN levels}
  /\ \A u \in Nodes : ~Untold(u) => told[u][1].distance \in Nat

RootsInv ==
  pc = "roots" =>
    /\ distance = 0 /\ sizes = << >>
    /\ old \subseteq visited /\ visited \subseteq old \cup CurrNodes
    /\ \A i \in InCurr : Curr(i) \in levels[0] /\ CurrPred(i) = Curr(i)
    /\ ToSet(roots) \subseteq start
    /\ levels[0] \subseteq visited \cup ToSet(roots)
    /\ ~TellsLate => \A i \in InCurr : ~Untold(Curr(i))

UpTo(d) == UNION {levels[e] : e \in 0 .. d}
FrontierInv ==
  pc \in {"level", "scan"} =>
    /\ distance \in DOMAIN levels
    /\ \A e \in 0 .. distance - 1 : levels[e] # {}
    /\ CurrNodes = levels[distance]
    /\ \A i \in InCurr :
         IF distance = 0 THEN CurrPred(i) = Curr(i)
         ELSE CurrPred(i) \in levels[distance - 1] /\ Curr(i) \in graph[CurrPred(i)]
    /\ old \cup UpTo(distance) \subseteq visited
    /\ \A u \in UpTo(distance) :
         Untold(u) => TellsLate /\ u \in levels[distance]
    /\ pc = "level" => visited \subseteq old \cup UpTo(distance)

SizesInv ==
  /\ sizes \in Seq(Nat)
  /\ pc \in {"level", "scan"} =>
       /\ Len(sizes) = IF pc = "scan" THEN distance + 1 ELSE distance
       /\ \A d \in 1 .. Len(sizes) : sizes[d] = Cardinality(levels[d - 1])
  /\ done => pc = "idle" /\ DoneIsComplete

(* The arc from position i to s is still to be followed.                   *)
Ahead(i, s) ==
  \/ Waiting(i)
  \/ \E w \in Workers :
       Busy(w) /\ work[w].at = i /\ s \in ToSet(work[w].succs)
ArrivesNext(s, u) ==
  /\ distance + 1 \in DOMAIN levels
  /\ s \in levels[distance + 1] /\ u \in levels[distance] /\ s \in graph[u]
ScanInv ==
  pc = "scan" =>
    /\ CurrNodes # {}
    /\ \A j \in InNext : ArrivesNext(Coming(j), ComingPred(j))
    /\ \A j \in InNext : ~TellsLate => ~Untold(Coming(j))
    /\ \A w \in Workers :
         Busy(w) => ToSet(work[w].succs) \subseteq graph[Node(w)]
    /\ \A w \in Workers : Unknown(w) => ArrivesNext(Succ(w), Node(w))
    /\ \A w \in Workers : work[w].step = "known" => Succ(w) \in visited
    /\ \A u \in visited :
         \/ u \in old \cup UpTo(distance)
         \/ /\ u \in levels[distance + 1]
            /\ \/ stopped
               \/ \E j \in InNext : u = Coming(j)
               \/ \E w \in Workers : Unknown(w) /\ u = Succ(w)
    /\ ~stopped =>
         \A i \in InCurr :
           /\ ~Waiting(i) /\ TellsLate => ~Untold(Curr(i))
           /\ \A s \in graph[Curr(i)] : Ahead(i, s) \/ ~Passes(s) \/ s \in visited

VisitInv == LevelsInv /\ RootsInv /\ FrontierInv /\ SizesInv /\ ScanInv

-----------------------------------------------------------------------------
(* Whom a step tells.                                                      *)
TellsOnly(x, p, d) ==
  /\ x \in Nodes /\ Untold(x)
  /\ \A u \in Nodes :
       told'[u] = IF u = x THEN <<[pred |-> p, distance |-> d]>> ELSE told[u]

LEMMA TellOne ==
  ASSUME OnceEach, NEW x \in Nodes, NEW p, NEW d, Untold(x), told' = Tells(x, p, d)
  PROVE  TellsOnly(x, p, d)
<1> DEFINE e == [pred |-> p, distance |-> d]
<1>1. told' = [told EXCEPT ![x] = Append(@, e)]
  BY DEF Tells
<1> HIDE DEF e
<1>2. \A u \in Nodes : told'[u] = IF u = x THEN Append(<< >>, e) ELSE told[u]
  BY <1>1 DEF OnceEach, Untold
<1>3. Append(<< >>, e) = <<e>>
  OBVIOUS
<1> QED
  BY <1>2, <1>3 DEF TellsOnly, e

LEMMA WorkerTells ==
  ASSUME ParBfsInv, NEW w \in Workers, Worker(w)
  PROVE  \/ told' = told /\ (VisitNode(w) => ~TellsLate) /\ (Discover(w) => TellsLate)
         \/ VisitNode(w) /\ TellsLate /\ TellsOnly(Node(w), Pred(w), distance)
         \/ Discover(w) /\ ~TellsLate /\ TellsOnly(Succ(w), Node(w), distance + 1)
<1>1. Shape /\ OnceEach /\ FoundUntold /\ LevelUntold /\ pc = "scan"
  BY WorkerFrame DEF ParBfsInv, ToldInv
<1>2. kind \in {"fair", "lowmem"}
  BY <1>1, ParBfsAssumption DEF Shape
<1>3. CASE VisitNode(w)
  <2>1. ~Discover(w)
    BY <1>3 DEF VisitNode, Discover, AtStep
  <2>2. CASE TellsLate
    <3>1. told' = Tells(Node(w), Pred(w), distance)
      BY <1>3, <2>2 DEF VisitNode, TellsLate
    <3>2. Busy(w) /\ work[w].step = "node"
      BY <1>3 DEF VisitNode, AtStep, Busy
    <3>3. Node(w) \in Nodes /\ work[w].at \in InCurr /\ Waiting(work[w].at)
      BY <1>1, <3>2, WorkerNodes DEF InCurr, Waiting
    <3>4. Untold(Node(w))
      BY <1>1, <2>2, <3>3 DEF LevelUntold, TellsLate, Node, Curr
    <3> QED
      BY <1>1, <1>3, <2>2, <3>1, <3>3, <3>4, TellOne
  <2>3. CASE ~TellsLate
    BY <1>3, <2>1, <2>3 DEF VisitNode, TellsLate
  <2> QED
    BY <2>2, <2>3
<1>4. CASE Discover(w)
  <2>1. ~VisitNode(w)
    BY <1>4 DEF VisitNode, Discover, AtStep
  <2>2. CASE ~TellsLate
    <3>1. told' = Tells(Succ(w), Node(w), distance + 1)
      BY <1>2, <1>4, <2>2 DEF Discover, TellsLate
    <3>2. Unknown(w) /\ work[w].succs # << >>
      BY <1>1, <1>4 DEF Discover, AtStep, Unknown, Shape
    <3>3. Succ(w) \in Nodes /\ Untold(Succ(w))
      BY <1>1, <3>2, WorkerNodes DEF FoundUntold
    <3> QED
      BY <1>1, <1>4, <2>2, <3>1, <3>3, TellOne
  <2>3. CASE TellsLate
    BY <1>4, <2>1, <2>3 DEF Discover, TellsLate
  <2> QED
    BY <2>2, <2>3
<1>5. CASE ~VisitNode(w) /\ ~Discover(w)
  BY <1>5 DEF Worker, TakeChunk, SwapBit, TellKnown, NextNode
<1> QED
  BY <1>3, <1>4, <1>5

LEMMA RootTells ==
  ASSUME ParBfsInv, TakeRoot
  PROVE  \/ told' = told /\ (visited' # visited => TellsLate)
         \/ /\ ~TellsLate /\ Head(roots) \notin visited /\ <<Head(roots), 0>> \in accept
            /\ TellsOnly(Head(roots), Head(roots), 0)
<1>1. Shape /\ OnceEach
  BY DEF ParBfsInv, ToldInv
<1>2. kind \in {"fair", "lowmem"}
  BY <1>1, ParBfsAssumption DEF Shape
<1>3. CASE told' = Tells(Head(roots), Head(roots), 0) /\ kind = "lowmem"
           /\ Head(roots) \notin visited /\ <<Head(roots), 0>> \in accept
  <2>1. Head(roots) \in Nodes
    BY <1>1 DEF TakeRoot, Shape
  <2>2. Untold(Head(roots))
    BY <1>1, <1>3, <2>1 DEF OnceEach
  <2> QED
    BY <1>1, <1>3, <2>1, <2>2, TellOne DEF TellsLate
<1> QED
  BY <1>2, <1>3 DEF TakeRoot, TellsLate

(* What the steps of a worker leave alone.                                 *)
LEMMA WorkerKeeps ==
  ASSUME NEW w \in Workers, Worker(w)
  PROVE  /\ UNCHANGED <<kind, granularity, graph, levels, accept, start, old, visits,
                        pc, roots, curr_frontier, distance, sizes, done>>
         /\ visited \subseteq visited' /\ (~SwapBit(w) => visited' = visited)
         /\ stopped => stopped'
         /\ ~Discover(w) => next_frontier' = next_frontier
<1>1. UNCHANGED callers
  BY DEF Worker, TakeChunk, VisitNode, SwapBit, TellKnown, Discover, NextNode
<1>2. visited \subseteq visited' /\ (~SwapBit(w) => visited' = visited)
  BY DEF Worker, TakeChunk, VisitNode, SwapBit, TellKnown, Discover, NextNode, Listed
<1>3. ~Discover(w) => next_frontier' = next_frontier
  BY DEF Worker, TakeChunk, VisitNode, SwapBit, TellKnown, Discover, NextNode
<1>4. stopped => stopped'
  <2>1. ASSUME NEW r, Answer(w, r), stopped PROVE stopped'
    BY <2>1, Zenon DEF Answer
  <2>2. \/ UNCHANGED stopped
        \/ \E r : Answer(w, r)
    BY Zenon DEF Worker, TakeChunk, VisitNode, SwapBit, TellKnown, Discover, NextNode
  <2> QED
    BY <2>1, <2>2, Zenon
<1> QED
  BY <1>1, <1>2, <1>3, <1>4 DEF callers, mine, visitVars

(* What an arc leads to that passes and is not marked is one level below.  *)
LEMMA NewIsNext ==
  ASSUME Shape, LevelsInv, FrontierInv, ScanInv, pc = "scan",
         NEW u \in levels[distance], NEW s \in graph[u], Passes(s), s \notin visited
  PROVE  ArrivesNext(s, u)
<1>1. IsDigraph(graph) /\ graph \in Graphs
  BY ParBfsAssumption DEF Shape
<1>2. LevelByLevel(graph, start, old, accept, levels)
  BY <1>1, LevelsDef DEF LevelsInv, Nodes
<1>3. distance \in DOMAIN levels /\ (\A e \in 0 .. distance : levels[e] # {})
      /\ distance \in Nat
  <2>1. distance \in DOMAIN levels /\ levels[distance] # {}
        /\ \A e \in 0 .. distance - 1 : levels[e] # {}
    BY DEF FrontierInv
  <2>2. distance \in Nat
    BY <1>1, <1>2, <2>1, FS_CardinalityType DEF LevelByLevel, IsDigraph
  <2> QED
    BY <2>1, <2>2
<1>4. distance + 1 \in DOMAIN levels
  BY <1>1, <1>3, LevelBelow DEF LevelsInv
<1>5. s \in Image(graph, levels[distance])
  BY DEF Image
<1>6. s \notin old \cup Before(levels, distance + 1)
  <2>1. old \cup UpTo(distance) \subseteq visited
    BY DEF FrontierInv
  <2>2. UpTo(distance) = Before(levels, distance + 1)
    BY <1>3 DEF UpTo, Before
  <2> QED
    BY <2>1, <2>2
<1>7. levels[distance + 1] =
        {x \in Image(graph, levels[(distance + 1) - 1]) \ (old \cup Before(levels, distance + 1)) :
           <<x, distance + 1>> \in accept}
  BY <1>2, <1>3, <1>4 DEF LevelByLevel
<1>8. (distance + 1) - 1 = distance
  BY <1>3
<1> QED
  BY <1>4, <1>5, <1>6, <1>7, <1>8 DEF ArrivesNext, Passes

LEMMA LevelNodes ==
  ASSUME Shape, LevelsInv
  PROVE  /\ IsDigraph(graph)
         /\ Cardinality(Nodes) \in Nat /\ DOMAIN levels = 0 .. Cardinality(Nodes)
         /\ \A d \in DOMAIN levels : levels[d] \subseteq Nodes
         /\ pc \in {"level", "scan"} /\ FrontierInv => distance \in Nat
         /\ Nodes \subseteq Nat
<1>1. IsDigraph(graph)
  BY ParBfsAssumption DEF Shape
<1>2. Cardinality(Nodes) \in Nat
  BY <1>1, FS_CardinalityType DEF IsDigraph, Nodes
<1>3. DOMAIN levels = 0 .. Cardinality(Nodes)
      /\ \A d \in DOMAIN levels : levels[d] \subseteq Nodes
  BY DEF LevelsInv, Layered, Nodes
<1>4. Nodes \subseteq Nat
  BY <1>1, <1>2 DEF IsDigraph, Nodes
<1> QED
  BY <1>1, <1>2, <1>3, <1>4 DEF FrontierInv

(* The arc a worker is at leads from a node of the frontier.               *)
LEMMA WorkerArc ==
  ASSUME Shape, FrontierInv, ScanInv, pc = "scan", NEW w \in Workers, Busy(w)
  PROVE  /\ work[w].at \in InCurr /\ Node(w) = Curr(work[w].at)
         /\ Node(w) \in levels[distance]
         /\ work[w].succs # << >> => Succ(w) \in graph[Node(w)]
<1>1. work[w].at \in InCurr /\ work[w].succs \in Seq(Nodes)
  BY WorkerNodes DEF InCurr
<1>2. Node(w) = Curr(work[w].at)
  BY DEF Node, Curr
<1>3. Node(w) \in levels[distance]
  BY <1>1, <1>2 DEF FrontierInv, CurrNodes
<1>4. work[w].succs # << >> => Succ(w) \in ToSet(work[w].succs)
  <2> SUFFICES ASSUME work[w].succs # << >> PROVE Succ(w) \in ToSet(work[w].succs)
    OBVIOUS
  <2>1. 1 \in DOMAIN work[w].succs
    BY <1>1, EmptySeq, LenProperties
  <2> QED
    BY <2>1 DEF Succ, ToSet
<1>5. ToSet(work[w].succs) \subseteq graph[Node(w)]
  BY DEF ScanInv
<1> QED
  BY <1>1, <1>2, <1>3, <1>4, <1>5

LEMMA SwapMarks ==
  ASSUME Shape, LevelsInv, FrontierInv, ScanInv, NEW w \in Workers, SwapBit(w)
  PROVE  \/ visited' = visited
         \/ /\ visited' = visited \cup {Succ(w)} /\ Succ(w) \notin visited
            /\ Passes(Succ(w)) /\ ArrivesNext(Succ(w), Node(w))
<1>1. pc = "scan" /\ Busy(w) /\ work[w].succs # << >>
  BY DEF SwapBit, AtStep, Busy
<1>2. Node(w) \in levels[distance] /\ Succ(w) \in graph[Node(w)]
  BY <1>1, WorkerArc
<1> QED
  BY <1>1, <1>2, NewIsNext DEF SwapBit, Listed

LEMMA WorkerLevels ==
  ASSUME ParBfsInv, VisitInv, NEW w \in Workers, Worker(w)
  PROVE  LevelsInv'
<1>1. Shape /\ LevelsInv /\ FrontierInv /\ ScanInv /\ pc = "scan"
  BY WorkerFrame DEF ParBfsInv, VisitInv
<1>2. UNCHANGED <<graph, levels, start, old, accept, pc>> /\ Nodes' = Nodes
  BY WorkerKeeps DEF Nodes
<1>3. distance \in Nat
  BY <1>1, LevelNodes
<1>4. \A u \in Nodes : told'[u] # << >> => told'[u][1].distance \in Nat
  <2>1. \A u \in Nodes : told[u] # << >> => told[u][1].distance \in Nat
    BY <1>1 DEF LevelsInv, Untold
  <2>2. ASSUME NEW x, NEW p, NEW d \in Nat, TellsOnly(x, p, d)
        PROVE  \A u \in Nodes : told'[u] # << >> => told'[u][1].distance \in Nat
    BY <2>1, <2>2 DEF TellsOnly
  <2>3. told' = told \/ TellsOnly(Node(w), Pred(w), distance)
        \/ TellsOnly(Succ(w), Node(w), distance + 1)
    BY WorkerTells
  <2>4. distance + 1 \in Nat
    BY <1>3
  <2> QED
    BY <1>3, <2>1, <2>2, <2>3, <2>4
<1>5. visited' \subseteq old \cup UNION {levels[d] : d \in DOMAIN levels}
  <2>1. visited \subseteq old \cup UNION {levels[d] : d \in DOMAIN levels}
    BY <1>1 DEF LevelsInv
  <2>2. CASE SwapBit(w)
    <3>1. visited' = visited
          \/ (visited' = visited \cup {Succ(w)} /\ ArrivesNext(Succ(w), Node(w)))
      BY <1>1, <2>2, SwapMarks
    <3>2. ArrivesNext(Succ(w), Node(w)) =>
            Succ(w) \in UNION {levels[d] : d \in DOMAIN levels}
      BY DEF ArrivesNext
    <3> QED
      BY <2>1, <3>1, <3>2
  <2>3. CASE ~SwapBit(w)
    BY <2>1, <2>3, WorkerKeeps
  <2> QED
    BY <2>2, <2>3
<1> QED
  BY <1>1, <1>2, <1>4, <1>5 DEF LevelsInv, Untold

LEMMA CallerLevels ==
  ASSUME ParBfsInv, VisitInv, Caller
  PROVE  LevelsInv'
<1>1. Shape /\ LevelsInv /\ RootsInv /\ OnceEach
  BY DEF ParBfsInv, VisitInv, ToldInv
<1>2. IsDigraph(graph) /\ DOMAIN levels = 0 .. Cardinality(Nodes) /\ Cardinality(Nodes) \in Nat
  BY <1>1, LevelNodes
<1>3. graph' = graph /\ Nodes' = Nodes
  BY DEF Caller, StartVisit, Reset, TakeRoot, CloseRoots, OpenLevel, Finish, CloseLevel,
     Nodes
<1>4. CASE StartVisit
  <2>1. PICK rs \in RootLists :
          start' = ToSet(rs) /\ levels' = Levels(graph, ToSet(rs), visited, accept)
    BY <1>4 DEF StartVisit
  <2>2. UNCHANGED <<accept, visited, told>> /\ old' = visited
    BY <1>4 DEF StartVisit
  <2>3. ToSet(rs) \subseteq Nodes
    <3>1. rs \in Seq(Nodes)
      BY <1>1, ParBfsAssumption DEF Shape, Nodes
    <3> QED
      BY <3>1 DEF ToSet
  <2>4. Layered(graph, levels')
    BY <1>2, <2>1, <2>3, LevelsLayered DEF Nodes
  <2> QED
    BY <1>1, <1>3, <2>1, <2>2, <2>3, <2>4 DEF LevelsInv, Untold
<1>5. CASE Reset
  <2>1. visited' = {} /\ UNCHANGED <<levels, start, old, pc>> /\ pc = "idle"
        /\ told' = [u \in Nodes |-> << >>]
    BY <1>5 DEF Reset, visitVars, mine
  <2> QED
    BY <1>1, <1>3, <2>1 DEF LevelsInv, Untold
<1>6. CASE TakeRoot
  <2>1. UNCHANGED <<levels, start, old, accept>> /\ pc = "roots" /\ roots # << >>
    BY <1>6 DEF TakeRoot, visitVars
  <2> DEFINE r == Head(roots)
  <2>2. visited' = visited
        \/ (visited' = visited \cup {r} /\ r \notin visited /\ <<r, 0>> \in accept)
    BY <1>6 DEF TakeRoot
  <2>3. r \in start
    <3>1. roots \in Seq(Nodes)
      BY <1>1 DEF Shape
    <3>2. r \in ToSet(roots)
      <4>1. 1 \in DOMAIN roots /\ r = roots[1]
        BY <2>1, <3>1, EmptySeq, LenProperties
      <4> QED
        BY <4>1 DEF ToSet
    <3> QED
      BY <1>1, <2>1, <3>2 DEF RootsInv
  <2>4. r \notin visited /\ <<r, 0>> \in accept => r \in levels[0] /\ 0 \in DOMAIN levels
    <3>1. LevelByLevel(graph, start, old, accept, levels)
      BY <1>1, <1>2, <2>1, LevelsDef DEF LevelsInv, Nodes
    <3>2. old \subseteq visited
      BY <1>1, <2>1 DEF RootsInv
    <3> QED
      BY <1>2, <2>3, <3>1, <3>2 DEF LevelByLevel
  <2>5. visited' \subseteq old \cup UNION {levels[d] : d \in DOMAIN levels}
    <3>1. visited \subseteq old \cup UNION {levels[d] : d \in DOMAIN levels}
      BY <1>1 DEF LevelsInv
    <3> HIDE DEF r
    <3> QED
      BY <2>2, <2>4, <3>1
  <2>6. \A u \in Nodes : told'[u] # << >> => told'[u][1].distance \in Nat
    <3>1. \A u \in Nodes : told[u] # << >> => told[u][1].distance \in Nat
      BY <1>1 DEF LevelsInv, Untold
    <3>2. told' = told \/ TellsOnly(r, r, 0)
      BY <1>6, RootTells
    <3> QED
      BY <3>1, <3>2 DEF TellsOnly
  <2>7. pc' # "idle" => pc # "idle"
    BY <2>1
  <2> QED
    BY <1>1, <1>3, <2>1, <2>5, <2>6, <2>7 DEF LevelsInv, Untold
<1>7. CASE CloseRoots \/ OpenLevel \/ Finish \/ CloseLevel
  <2>1. UNCHANGED <<levels, start, old, accept, visited, told>> /\ pc # "idle"
    BY <1>7 DEF CloseRoots, OpenLevel, Finish, CloseLevel, visitVars
  <2> QED
    BY <1>1, <1>3, <2>1 DEF LevelsInv, Untold
<1> QED
  BY <1>4, <1>5, <1>6, <1>7 DEF Caller

-----------------------------------------------------------------------------
(* Roots and frontiers.                                                    *)
LEMMA AppendPositions ==
  ASSUME NEW S, NEW s \in Seq(S), NEW e \in S, NEW t, t = Append(s, e)
  PROVE  /\ 1 .. Len(t) = (1 .. Len(s)) \cup {Len(s) + 1}
         /\ \A i \in 1 .. Len(s) : t[i] = s[i]
         /\ t[Len(s) + 1] = e
<1>1. Len(t) = Len(s) + 1 /\ Len(s) \in Nat
      /\ (\A i \in 1 .. Len(s) : t[i] = s[i]) /\ t[Len(s) + 1] = e
  BY AppendProperties, LenProperties
<1> QED
  BY <1>1

(* A root that is taken is a node of the first level.                      *)
LEMMA RootMarks ==
  ASSUME ParBfsInv, VisitInv, TakeRoot, visited' # visited
  PROVE  /\ Head(roots) \in levels[0] /\ Head(roots) \in Nodes
         /\ visited' = visited \cup {Head(roots)}
         /\ curr_frontier' = Append(curr_frontier, <<Head(roots), Head(roots)>>)
<1>1. Shape /\ LevelsInv /\ RootsInv
  BY DEF ParBfsInv, VisitInv
<1>2. pc = "roots" /\ roots # << >> /\ Head(roots) \notin visited
      /\ <<Head(roots), 0>> \in accept /\ visited' = visited \cup {Head(roots)}
      /\ curr_frontier' = Append(curr_frontier, <<Head(roots), Head(roots)>>)
  BY DEF TakeRoot
<1>3. Head(roots) \in start
  BY <1>1, <1>2, ToSetTail DEF RootsInv, Shape
<1>4. LevelByLevel(graph, start, old, accept, levels)
  BY <1>1, <1>2, LevelNodes, LevelsDef DEF LevelsInv, Nodes
<1>5. old \subseteq visited
  BY <1>1, <1>2 DEF RootsInv
<1>6. Head(roots) \in levels[0]
  BY <1>2, <1>3, <1>4, <1>5 DEF LevelByLevel
<1>7. Head(roots) \in Nodes
  BY <1>1, <1>3 DEF LevelsInv
<1> QED
  BY <1>2, <1>6, <1>7

LEMMA CallerRoots ==
  ASSUME ParBfsInv, VisitInv, Caller, pc' = "roots"
  PROVE  RootsInv'
<1>1. Shape /\ LevelsInv /\ RootsInv /\ OnceEach
  BY DEF ParBfsInv, VisitInv, ToldInv
<1>2. CASE StartVisit
  <2>1. PICK rs \in RootLists :
          roots' = rs /\ start' = ToSet(rs)
          /\ levels' = Levels(graph, ToSet(rs), visited, accept)
    BY <1>2 DEF StartVisit
  <2>2. /\ old' = visited /\ visited' = visited /\ distance' = 0 /\ sizes' = << >>
        /\ curr_frontier' = << >>
    BY <1>2 DEF StartVisit
  <2>3. ToSet(rs) \subseteq Nodes
    <3>1. rs \in Seq(Nodes)
      BY <1>1, ParBfsAssumption DEF Shape, Nodes
    <3> QED
      BY <3>1 DEF ToSet
  <2>4. levels'[0] \subseteq ToSet(rs)
    <3>1. LevelByLevel(graph, ToSet(rs), visited, accept, levels')
      BY <1>1, <2>1, <2>3, LevelNodes, LevelsDef DEF Nodes
    <3> QED
      BY <3>1 DEF LevelByLevel
  <2>5. InCurr' = {}
    BY <2>2 DEF InCurr
  <2> QED
    BY <2>1, <2>2, <2>4, <2>5 DEF RootsInv
<1>3. CASE TakeRoot
  <2>1. UNCHANGED <<levels, start, old, distance, sizes, kind>> /\ pc = "roots"
        /\ roots # << >> /\ roots' = Tail(roots)
    BY <1>3 DEF TakeRoot, visitVars
  <2>2. ToSet(roots) = {Head(roots)} \cup ToSet(roots') /\ ToSet(roots) \subseteq start
    BY <1>1, <2>1, ToSetTail DEF Shape, RootsInv
  <2>3. CASE visited' = visited
    <3>1. UNCHANGED <<curr_frontier, told>>
      <4>1. \/ Head(roots) \in visited \/ UNCHANGED <<curr_frontier, told>>
            \/ visited' = visited \cup {Head(roots)} /\ Head(roots) \notin visited
        BY <1>3 DEF TakeRoot
      <4>2. Head(roots) \in visited => UNCHANGED <<curr_frontier, told>>
        BY <1>3 DEF TakeRoot
      <4> QED
        BY <2>3, <4>1, <4>2
    <3>2. levels[0] \subseteq visited \cup ToSet(roots')
      <4>1. Head(roots) \in visited \/ <<Head(roots), 0>> \notin accept
        BY <1>3, <2>1, <2>3 DEF TakeRoot
      <4>2. LevelByLevel(graph, start, old, accept, levels)
        BY <1>1, <2>1, LevelNodes, LevelsDef DEF LevelsInv, Nodes
      <4>3. <<Head(roots), 0>> \notin accept => Head(roots) \notin levels[0]
        BY <4>2 DEF LevelByLevel
      <4> QED
        BY <1>1, <2>1, <2>2, <4>1, <4>3 DEF RootsInv
    <3> QED
      BY <1>1, <2>1, <2>2, <2>3, <3>1, <3>2
      DEF RootsInv, InCurr, Curr, CurrPred, CurrNodes, TellsLate, Untold
  <2>4. CASE visited' # visited
    <3> DEFINE r == Head(roots)
    <3>1. r \in levels[0] /\ r \in Nodes /\ visited' = visited \cup {r}
          /\ curr_frontier' = Append(curr_frontier, <<r, r>>)
      BY <1>3, <2>4, RootMarks
    <3> HIDE DEF r
    <3>2. /\ InCurr' = InCurr \cup {Len(curr_frontier) + 1}
          /\ \A i \in InCurr : curr_frontier'[i] = curr_frontier[i]
          /\ curr_frontier'[Len(curr_frontier) + 1] = <<r, r>>
      BY <1>1, <3>1, AppendPositions DEF Shape, Frontier, InCurr
    <3>3. \A i \in InCurr' : \/ curr_frontier'[i] = <<r, r>>
                             \/ i \in InCurr /\ curr_frontier'[i] = curr_frontier[i]
      BY <3>2
    <3>4. CurrNodes' = CurrNodes \cup {r}
      <4>1. r = curr_frontier'[Len(curr_frontier) + 1][1]
        BY <3>2
      <4> QED
        BY <3>2, <4>1 DEF CurrNodes, Curr
    <3>5. ~TellsLate => \A u \in Nodes : u = r \/ ~Untold(u) => told'[u] # << >>
      <4>1. ~TellsLate => TellsOnly(r, r, 0)
        BY <1>3, <2>4, RootTells DEF r
      <4>2. << >> # <<[pred |-> r, distance |-> 0]>>
        OBVIOUS
      <4> QED
        BY <4>1, <4>2 DEF TellsOnly, Untold
    <3>6. \A i \in InCurr' : /\ curr_frontier'[i][1] \in levels[0]
                             /\ curr_frontier'[i][2] = curr_frontier'[i][1]
      <4>1. \A i \in InCurr : /\ curr_frontier[i][1] \in levels[0]
                              /\ curr_frontier[i][2] = curr_frontier[i][1]
        BY <1>1, <2>1 DEF RootsInv, Curr, CurrPred
      <4>2. <<r, r>>[1] = r /\ <<r, r>>[2] = r
        OBVIOUS
      <4> SUFFICES ASSUME NEW i \in InCurr'
                   PROVE  /\ curr_frontier'[i][1] \in levels[0]
                          /\ curr_frontier'[i][2] = curr_frontier'[i][1]
        OBVIOUS
      <4> QED
        BY <3>1, <3>3, <4>1, <4>2
    <3>7. ~TellsLate => \A i \in InCurr' : told'[curr_frontier'[i][1]] # << >>
      <4>1. ~TellsLate => \A i \in InCurr : Curr(i) \in Nodes /\ ~Untold(Curr(i))
        BY <1>1, <2>1, FrontierNodes DEF RootsInv
      <4>2. ~TellsLate => \A i \in InCurr : told'[Curr(i)] # << >>
        BY <3>5, <4>1 DEF Untold
      <4>3. ~TellsLate => told'[r] # << >>
        BY <3>1, <3>5 DEF Untold
      <4> QED
        BY <3>3, <4>2, <4>3 DEF Curr
    <3>8. old \subseteq visited' /\ visited' \subseteq old \cup CurrNodes'
          /\ levels[0] \subseteq visited' \cup ToSet(roots')
      BY <1>1, <2>1, <2>2, <3>1, <3>4 DEF RootsInv, r
    <3>9. ToSet(roots') \subseteq start /\ distance = 0 /\ sizes = << >>
      BY <1>1, <2>1, <2>2 DEF RootsInv
    <3> QED
      BY <2>1, <3>6, <3>7, <3>8, <3>9 DEF RootsInv, TellsLate, Untold, Curr, CurrPred
  <2> QED
    BY <2>3, <2>4
<1> QED
  BY <1>2, <1>3 DEF Caller, Reset, CloseRoots, OpenLevel, Finish, CloseLevel, mine

LEMMA UpToNext ==
  ASSUME NEW d \in Nat
  PROVE  /\ UpTo(d + 1) = UpTo(d) \cup levels[d + 1]
         /\ levels[d] \subseteq UpTo(d)
         /\ \A e \in 0 .. d : levels[e] \subseteq UpTo(d)
<1>1. 0 .. d + 1 = (0 .. d) \cup {d + 1}
  OBVIOUS
<1> QED
  BY <1>1 DEF UpTo

(* What a level that is over has found.                                    *)
LEMMA LevelComplete ==
  ASSUME ParBfsInv, VisitInv, pc = "scan", LevelOver, ~stopped
  PROVE  /\ distance \in Nat /\ distance + 1 \in DOMAIN levels
         /\ levels[distance + 1] = {Coming(j) : j \in InNext}
         /\ visited \subseteq old \cup UpTo(distance + 1)
         /\ levels[distance + 1] \subseteq visited
         /\ TellsLate => \A u \in levels[distance] : ~Untold(u)
<1>1. Shape /\ LevelsInv /\ FrontierInv /\ ScanInv /\ Marked
  BY DEF ParBfsInv, VisitInv
<1>2. IsDigraph(graph) /\ distance \in Nat
  BY <1>1, LevelNodes
<1>3. LevelByLevel(graph, start, old, accept, levels)
  BY <1>1, <1>2, LevelsDef DEF LevelsInv, Nodes
<1>4. distance \in DOMAIN levels /\ (\A e \in 0 .. distance : levels[e] # {})
      /\ CurrNodes = levels[distance]
  BY <1>1, <1>2 DEF FrontierInv, ScanInv
<1>5. distance + 1 \in DOMAIN levels
  BY <1>1, <1>2, <1>4, LevelBelow DEF LevelsInv
<1>6. todo = {} /\ \A w \in Workers : ~Busy(w) /\ work[w].step = "idle"
  BY DEF LevelOver, AllIdle, Idle, Busy
<1>7. \A i \in InCurr : ~Waiting(i) /\ \A s : ~Ahead(i, s)
  BY <1>6 DEF Waiting, Ahead
<1>8. TellsLate => \A u \in levels[distance] : ~Untold(u)
  BY <1>1, <1>4, <1>7 DEF ScanInv, CurrNodes
<1>9. levels[distance + 1] =
        {x \in Image(graph, levels[distance]) \ (old \cup Before(levels, distance + 1)) :
           <<x, distance + 1>> \in accept}
  <2>1. (distance + 1) - 1 = distance /\ distance + 1 # 0
    BY <1>2
  <2>2. levels[distance + 1] =
          {x \in Image(graph, levels[(distance + 1) - 1]) \ (old \cup Before(levels, distance + 1)) :
             <<x, distance + 1>> \in accept}
    BY <1>2, <1>3, <1>5 DEF LevelByLevel
  <2> QED
    BY <2>1, <2>2
<1>10. UpTo(distance) = Before(levels, distance + 1)
  BY <1>2 DEF UpTo, Before
<1>11. ASSUME NEW s \in levels[distance + 1] PROVE s \in visited
  <2>1. s \in Image(graph, levels[distance]) /\ Passes(s)
    BY <1>9 DEF Passes
  <2>2. PICK u \in levels[distance] : s \in graph[u]
    BY <2>1 DEF Image
  <2>3. PICK i \in InCurr : u = Curr(i)
    BY <1>4 DEF CurrNodes
  <2> QED
    BY <1>1, <1>7, <2>1, <2>2, <2>3 DEF ScanInv
<1>12. \A j \in InNext : Coming(j) \in levels[distance + 1]
  BY <1>1 DEF ScanInv, ArrivesNext
<1>13. ASSUME NEW s \in visited, s \notin old \cup UpTo(distance)
       PROVE  s \in levels[distance + 1] /\ s \in {Coming(j) : j \in InNext}
  <2>1. \A w \in Workers : ~Unknown(w)
    BY <1>6 DEF Unknown
  <2> QED
    BY <1>1, <1>13, <2>1 DEF ScanInv
<1>14. levels[distance + 1] \cap (old \cup UpTo(distance)) = {}
  BY <1>9, <1>10
<1>15. levels[distance + 1] = {Coming(j) : j \in InNext}
  BY <1>11, <1>12, <1>13, <1>14
<1>16. visited \subseteq old \cup UpTo(distance + 1)
  BY <1>2, <1>13, UpToNext
<1> QED
  BY <1>2, <1>5, <1>8, <1>11, <1>15, <1>16

LEMMA CallerFrontier ==
  ASSUME ParBfsInv, VisitInv, Caller, pc' \in {"level", "scan"}
  PROVE  FrontierInv'
<1>1. Shape /\ LevelsInv /\ RootsInv /\ FrontierInv /\ ScanInv
  BY DEF ParBfsInv, VisitInv
<1>2. IsDigraph(graph) /\ DOMAIN levels = 0 .. Cardinality(Nodes) /\ Cardinality(Nodes) \in Nat
  BY <1>1, LevelNodes
<1>3. CASE CloseRoots
  <2>1. pc = "roots" /\ roots = << >> /\ pc' = "level"
        /\ UNCHANGED <<levels, old, visited, curr_frontier, distance, told, graph, kind>>
    BY <1>3 DEF CloseRoots, visitVars
  <2>2. ToSet(roots) = {} /\ distance = 0
    BY <1>1, <2>1 DEF RootsInv, ToSet
  <2>3. levels[0] \cap old = {}
    BY <1>1, <1>2, <2>1, LevelsLayered DEF LevelsInv, Nodes
  <2>4. CurrNodes = levels[0]
    <3>1. CurrNodes \subseteq levels[0]
      BY <1>1, <2>1 DEF RootsInv, CurrNodes
    <3>2. levels[0] \subseteq CurrNodes
      BY <1>1, <2>1, <2>2, <2>3 DEF RootsInv
    <3> QED
      BY <3>1, <3>2
  <2>5. UpTo(0) = levels[0] /\ 0 .. 0 - 1 = {}
    <3>1. 0 .. 0 = {0} /\ 0 .. 0 - 1 = {}
      OBVIOUS
    <3> QED
      BY <3>1 DEF UpTo
  <2>6. old \cup levels[0] \subseteq visited /\ visited \subseteq old \cup levels[0]
    BY <1>1, <2>1, <2>2, <2>4 DEF RootsInv
  <2>7. \A u \in levels[0] : Untold(u) => TellsLate
    <3>1. ~TellsLate => \A i \in InCurr : ~Untold(Curr(i))
      BY <1>1, <2>1 DEF RootsInv
    <3> QED
      BY <2>4, <3>1 DEF CurrNodes
  <2>8. \A i \in InCurr : CurrPred(i) = Curr(i)
    BY <1>1, <2>1 DEF RootsInv
  <2>9. 0 \in DOMAIN levels
    BY <1>2
  <2> QED
    BY <2>1, <2>2, <2>4, <2>5, <2>6, <2>7, <2>8, <2>9
    DEF FrontierInv, CurrNodes, InCurr, Curr, CurrPred, UpTo, Untold, TellsLate
<1>4. CASE OpenLevel
  <2>1. pc = "level" /\ pc' = "scan"
        /\ UNCHANGED <<levels, old, visited, curr_frontier, distance, told, graph, kind>>
    BY <1>4 DEF OpenLevel, visitVars
  <2> QED
    BY <1>1, <2>1 DEF FrontierInv, CurrNodes, InCurr, Curr, CurrPred, UpTo, Untold, TellsLate
<1>5. CASE CloseLevel
  <2>1. pc = "scan" /\ pc' = "level" /\ ~stopped /\ LevelOver /\ distance' = distance + 1
        /\ curr_frontier' = next_frontier
        /\ UNCHANGED <<levels, old, visited, told, graph, kind>>
    BY <1>5 DEF CloseLevel, visitVars
  <2> DEFINE d == distance + 1
  <2>2. /\ distance \in Nat /\ d \in DOMAIN levels
        /\ levels[d] = {Coming(j) : j \in InNext}
        /\ visited \subseteq old \cup UpTo(d) /\ levels[d] \subseteq visited
        /\ TellsLate => \A u \in levels[distance] : ~Untold(u)
    BY <2>1, LevelComplete
  <2>3. InCurr' = InNext /\ d # 0 /\ d - 1 = distance /\ d \in Nat
        /\ 0 .. d - 1 = 0 .. distance
    BY <2>1, <2>2 DEF InCurr, InNext
  <2>4. UpTo(d) = UpTo(distance) \cup levels[d]
    BY <2>2, UpToNext
  <2>5. \A e \in 0 .. distance : levels[e] # {}
    BY <1>1, <2>1, <2>2 DEF FrontierInv, ScanInv
  <2>6. \A j \in InNext :
          next_frontier[j][2] \in levels[distance]
          /\ next_frontier[j][1] \in graph[next_frontier[j][2]]
    BY <1>1, <2>1 DEF ScanInv, ArrivesNext, Coming, ComingPred
  <2>7. old \cup UpTo(d) \subseteq visited
    BY <1>1, <2>1, <2>2, <2>4 DEF FrontierInv
  <2>8. \A u \in UpTo(d) : Untold(u) => TellsLate /\ u \in levels[d]
    <3>1. \A u \in UpTo(distance) : ~Untold(u)
      BY <1>1, <2>1, <2>2 DEF FrontierInv
    <3>2. ~TellsLate => \A j \in InNext : ~Untold(Coming(j))
      BY <1>1, <2>1 DEF ScanInv
    <3> QED
      BY <2>2, <2>4, <3>1, <3>2
  <2>9. levels[d] = {next_frontier[j][1] : j \in InNext}
    BY <2>2 DEF Coming
  <2>10. UpTo(distance)' = UpTo(d) /\ distance' = d /\ levels'[distance'] = levels[d]
    BY <2>1 DEF UpTo
  <2> HIDE DEF d
  <2>11. \A u \in UpTo(distance)' : told'[u] = << >> => kind' = "fair" /\ u \in levels'[distance']
    BY <2>1, <2>8, <2>10 DEF Untold, TellsLate
  <2>12. old' \cup UpTo(distance)' \subseteq visited' /\ visited' \subseteq old' \cup UpTo(distance)'
    BY <2>1, <2>2, <2>7, <2>10
  <2>13. CurrNodes' = levels'[distance']
    BY <2>1, <2>3, <2>9, <2>10 DEF CurrNodes, Curr
  <2>14. distance' \in DOMAIN levels' /\ \A e \in 0 .. distance' - 1 : levels'[e] # {}
    BY <2>1, <2>2, <2>3, <2>5, <2>10
  <2>15. distance' # 0 /\ \A i \in InCurr' :
           /\ curr_frontier'[i][2] \in levels'[distance' - 1]
           /\ curr_frontier'[i][1] \in graph'[curr_frontier'[i][2]]
    BY <2>1, <2>3, <2>6, <2>10
  <2> QED
    BY <2>11, <2>12, <2>13, <2>14, <2>15 DEF FrontierInv, Curr, CurrPred, Untold, TellsLate
<1> QED
  BY <1>3, <1>4, <1>5 DEF Caller, StartVisit, Reset, TakeRoot, Finish, mine

LEMMA WorkerFrontier ==
  ASSUME ParBfsInv, VisitInv, NEW w \in Workers, Worker(w)
  PROVE  FrontierInv'
<1>1. Shape /\ LevelsInv /\ FrontierInv /\ pc = "scan"
  BY WorkerFrame DEF ParBfsInv, VisitInv
<1>2. UNCHANGED <<pc, levels, old, curr_frontier, distance, graph, kind>>
      /\ visited \subseteq visited'
  BY WorkerKeeps
<1>3. UpTo(distance) \subseteq Nodes
  <2>1. DOMAIN levels = 0 .. Cardinality(Nodes) /\ distance \in DOMAIN levels
        /\ Cardinality(Nodes) \in Nat
        /\ \A d \in DOMAIN levels : levels[d] \subseteq Nodes
    BY <1>1, LevelNodes DEF FrontierInv
  <2>2. \A e \in 0 .. distance : e \in DOMAIN levels
    BY <2>1
  <2> QED
    BY <2>1, <2>2 DEF UpTo
<1>4. \A u \in Nodes : told'[u] = << >> => told[u] = << >>
  <2>1. \A x, p, d : TellsOnly(x, p, d) => \A u \in Nodes : told'[u] = << >> => told[u] = << >>
    BY DEF TellsOnly, Untold
  <2> QED
    BY <2>1, WorkerTells
<1>5. \A u \in UpTo(distance) : told'[u] = << >> => TellsLate /\ u \in levels[distance]
  BY <1>1, <1>3, <1>4 DEF FrontierInv, Untold
<1> QED
  BY <1>1, <1>2, <1>5
  DEF FrontierInv, CurrNodes, InCurr, Curr, CurrPred, UpTo, Untold, TellsLate

-----------------------------------------------------------------------------
(* Sizes of levels, and what is true when Done is said.                    *)
LEMMA FrontierSize ==
  ASSUME Shape, CurrMarked
  PROVE  Len(curr_frontier) \in Nat /\ Cardinality(CurrNodes) = Len(curr_frontier)
<1> DEFINE n == Len(curr_frontier)
           f == [i \in 1 .. n |-> Curr(i)]
<1>1. n \in Nat
  BY LenProperties DEF Shape, Frontier
<1>2. IsFiniteSet(1 .. n) /\ Cardinality(1 .. n) = n
  <2> HIDE DEF n, f
  <2> QED
    BY <1>1, CountFromOne
<1>3. \A i, j \in 1 .. n : f[i] = f[j] => i = j
  BY DEF CurrMarked, InCurr
<1>4. f \in Bijection(1 .. n, CurrNodes)
  <2>1. f \in [1 .. n -> CurrNodes]
    BY DEF CurrNodes, InCurr
  <2>2. \A u \in CurrNodes : \E i \in 1 .. n : f[i] = u
    BY DEF CurrNodes, InCurr
  <2> HIDE DEF f
  <2> QED
    BY <1>3, <2>1, <2>2 DEF Bijection, Injection, Surjection, IsInjective
<1>5. ExistsBijection(1 .. n, CurrNodes)
  BY <1>4 DEF ExistsBijection
<1> QED
  BY <1>1, <1>2, <1>5, FS_Bijection

(* Below a level without nodes all levels are empty.                       *)
LEMMA EmptyBelow ==
  ASSUME NEW g, IsDigraph(g), NEW L, Layered(g, L), NEW d \in DOMAIN L, L[d] = {}
  PROVE  \A e \in DOMAIN L : d <= e => L[e] = {}
<1> DEFINE N == Cardinality(DOMAIN g)
           T == {e \in Nat : e <= N /\ d <= e /\ L[e] # {}}
<1>1. N \in Nat /\ DOMAIN L = 0 .. N
      /\ \A e \in 0 .. N : e # 0 => L[e] \subseteq Image(g, L[e - 1])
  BY FS_CardinalityType DEF IsDigraph, Layered
<1> HIDE DEF N
<1> SUFFICES ASSUME T # {} PROVE FALSE
  BY <1>1
<1>2. Min(T) \in T /\ \A e \in T : Min(T) <= e
  BY MinOfNat
<1> DEFINE c == Min(T)
<1>3. c \in Nat /\ c <= N /\ d <= c /\ L[c] # {} /\ c # d
  BY <1>2
<1>4. c - 1 \notin T /\ c - 1 \in Nat /\ d <= c - 1
  <2> HIDE DEF T
  <2>1. \A e \in T : c <= e
    BY <1>2
  <2> HIDE DEF c
  <2> QED
    BY <1>1, <1>3, <2>1
<1> HIDE DEF c
<1>5. L[c - 1] = {}
  BY <1>1, <1>3, <1>4
<1>6. Image(g, L[c - 1]) = {}
  BY <1>5 DEF Image
<1> QED
  BY <1>1, <1>3, <1>4, <1>6

LEMMA NextSizes ==
  ASSUME ParBfsInv, VisitInv, Next
  PROVE  SizesInv'
<1>1. Shape /\ LevelsInv /\ RootsInv /\ FrontierInv /\ SizesInv /\ Marked
  BY DEF ParBfsInv, VisitInv
<1>2. Len(<< >>) = 0 /\ << >> \in Seq(Nat)
  OBVIOUS
<1>3. CASE StartVisit
  BY <1>2, <1>3 DEF StartVisit, SizesInv
<1>4. CASE Reset
  BY <1>1, <1>4 DEF Reset, SizesInv, mine
<1>5. CASE TakeRoot
  <2>1. UNCHANGED <<sizes, done>> /\ pc = "roots" /\ pc' \in {"idle", "roots"}
    BY <1>5 DEF TakeRoot
  <2> QED
    BY <1>1, <2>1 DEF SizesInv
<1>6. CASE CloseRoots
  <2>1. UNCHANGED <<sizes, done, distance>> /\ pc = "roots" /\ pc' \in {"idle", "level"}
    BY <1>6 DEF CloseRoots
  <2>2. sizes = << >> /\ distance = 0 /\ ~done
    BY <1>1, <2>1 DEF RootsInv, SizesInv
  <2> QED
    BY <1>2, <2>1, <2>2 DEF SizesInv
<1>7. CASE OpenLevel
  <2>1. pc = "level" /\ pc' \in {"idle", "scan"} /\ UNCHANGED <<done, distance, levels>>
        /\ sizes' = Append(sizes, Len(curr_frontier))
    BY <1>7 DEF OpenLevel
  <2>2. ~done /\ sizes \in Seq(Nat) /\ Len(sizes) = distance
        /\ \A d \in 1 .. Len(sizes) : sizes[d] = Cardinality(levels[d - 1])
    BY <1>1, <2>1 DEF SizesInv
  <2>3. Len(curr_frontier) \in Nat /\ Len(curr_frontier) = Cardinality(levels[distance])
    BY <1>1, <2>1, FrontierSize DEF Marked, FrontierInv
  <2>4. /\ sizes' \in Seq(Nat) /\ Len(sizes') = distance + 1
        /\ \A d \in 1 .. distance : sizes'[d] = sizes[d]
        /\ sizes'[distance + 1] = Cardinality(levels[distance])
    BY <2>1, <2>2, <2>3, AppendProperties
  <2>5. distance \in Nat
    BY <1>1, <2>1, LevelNodes
  <2>6. \A d \in 1 .. distance + 1 : sizes'[d] = Cardinality(levels[d - 1])
    <3> SUFFICES ASSUME NEW d \in 1 .. distance + 1
                 PROVE  sizes'[d] = Cardinality(levels[d - 1])
      OBVIOUS
    <3>1. CASE d = distance + 1
      <4>1. d - 1 = distance
        BY <2>5, <3>1
      <4>2. levels[d - 1] = levels[distance] /\ sizes'[d] = sizes'[distance + 1]
        BY <3>1, <4>1
      <4> QED
        BY <2>4, <4>2
    <3>2. CASE d # distance + 1
      <4>1. d \in 1 .. distance
        BY <2>5, <3>2
      <4> QED
        BY <2>2, <2>4, <4>1
    <3> QED
      BY <3>1, <3>2
  <2> QED
    BY <2>1, <2>2, <2>4, <2>6 DEF SizesInv
<1>8. CASE Finish
  <2>1. pc = "level" /\ pc' = "idle" /\ UNCHANGED <<levels, told, sizes, distance>>
        /\ curr_frontier = << >>
    BY <1>8 DEF Finish
  <2>2. /\ IsDigraph(graph) /\ DOMAIN levels = 0 .. Cardinality(Nodes)
        /\ Cardinality(Nodes) \in Nat /\ distance \in Nat
    BY <1>1, <2>1, LevelNodes
  <2>3. distance \in DOMAIN levels /\ levels[distance] = {}
        /\ \A u \in UpTo(distance) : Untold(u) => u \in levels[distance]
    <3>1. Len(curr_frontier) = 0
      BY <2>1, <1>2
    <3>2. CurrNodes = {}
      BY <3>1 DEF CurrNodes, InCurr
    <3> QED
      BY <1>1, <2>1, <3>2 DEF FrontierInv
  <2>4. \A d \in DOMAIN levels : distance <= d => levels[d] = {}
    BY <1>1, <2>2, <2>3, EmptyBelow DEF LevelsInv
  <2>5. ASSUME NEW d \in DOMAIN levels, NEW u \in levels[d] PROVE told[u] # << >>
    <3>1. d \in 0 .. distance
      BY <2>2, <2>4, <2>5
    <3>2. u \in UpTo(distance)
      BY <3>1, <2>5 DEF UpTo
    <3> QED
      BY <2>3, <3>2 DEF Untold
  <2>6. sizes \in Seq(Nat) /\ Len(sizes) = distance
        /\ \A d \in 1 .. Len(sizes) : sizes[d] = Cardinality(levels[d - 1])
    BY <1>1, <2>1 DEF SizesInv
  <2>7. ASSUME NEW d \in DOMAIN levels
        PROVE  IF d < Len(sizes) THEN sizes[d + 1] = Cardinality(levels[d])
               ELSE levels[d] = {}
    <3>1. CASE d < distance
      <4>1. d + 1 \in 1 .. Len(sizes) /\ (d + 1) - 1 = d
        BY <2>2, <2>6, <3>1
      <4>2. sizes[d + 1] = Cardinality(levels[(d + 1) - 1])
        BY <2>6, <4>1
      <4>3. levels[(d + 1) - 1] = levels[d]
        BY <4>1
      <4>4. sizes[d + 1] = Cardinality(levels[d])
        BY <4>2, <4>3
      <4> QED
        BY <2>6, <3>1, <4>4
    <3>2. CASE ~(d < distance)
      BY <2>2, <2>4, <2>6, <3>2
    <3> QED
      BY <3>1, <3>2
  <2>8. DoneIsComplete'
    BY <2>1, <2>5, <2>7 DEF DoneIsComplete
  <2> QED
    BY <2>1, <2>6, <2>8 DEF SizesInv
<1>9. CASE CloseLevel
  <2>1. pc = "scan" /\ pc' \in {"idle", "level"} /\ UNCHANGED <<levels, sizes, done>>
        /\ (pc' = "level" => distance' = distance + 1)
    BY <1>9 DEF CloseLevel
  <2> QED
    BY <1>1, <2>1 DEF SizesInv
<1>10. CASE \E w \in Workers : Worker(w)
  <2>1. UNCHANGED <<pc, levels, sizes, done, distance>> /\ pc = "scan"
    BY <1>1, <1>10, WorkerKeeps, WorkerFrame
  <2> QED
    BY <1>1, <2>1 DEF SizesInv
<1> QED
  BY <1>3, <1>4, <1>5, <1>6, <1>7, <1>8, <1>9, <1>10 DEF Next, Caller

-----------------------------------------------------------------------------
(* The record of a worker after each of its steps.                         *)
Stays(w) == work'[w].at = work[w].at /\ work'[w].last = work[w].last

LEMMA AfterVisit ==
  ASSUME Shape, NEW w \in Workers, VisitNode(w)
  PROVE  \/ work'[w].step = "idle" /\ work'[w].succs = << >> /\ stopped'
         \/ /\ Stays(w) /\ work'[w].step = "arcs"
            /\ work'[w].succs = Successors(graph, Node(w))
<1> DEFINE r == [work[w] EXCEPT !.succs = Successors(graph, Node(w)), !.step = "arcs"]
<1>1. work[w] \in Work /\ work \in [Workers -> Work]
  BY DEF Shape
<1>2. r.at = work[w].at /\ r.last = work[w].last /\ r.step = "arcs"
      /\ r.succs = Successors(graph, Node(w))
  BY <1>1 DEF Work
<1>3. \/ work' = [work EXCEPT ![w] = r]
      \/ work' = [work EXCEPT ![w] = Idle] /\ stopped'
  <2>1. Answer(w, r) \/ work' = [work EXCEPT ![w] = r]
    BY DEF VisitNode
  <2> HIDE DEF r
  <2> QED
    BY <2>1, Zenon DEF Answer
<1> HIDE DEF r
<1>4. work'[w] = r \/ (work'[w] = Idle /\ stopped')
  BY <1>1, <1>3
<1> QED
  BY <1>2, <1>4 DEF Idle, Stays

LEMMA AfterSwap ==
  ASSUME Shape, NEW w \in Workers, SwapBit(w)
  PROVE  /\ Stays(w) /\ work[w].succs # << >> /\ Busy(w)
         /\ \/ /\ Passes(Succ(w)) /\ Succ(w) \in visited'
               /\ work'[w].succs = work[w].succs
               /\ work'[w].step = Found(Succ(w))
            \/ /\ ~Passes(Succ(w)) /\ visited' = visited
               /\ work'[w].succs = Tail(work[w].succs) /\ work'[w].step = "arcs"
<1>1. work[w] \in Work /\ work \in [Workers -> Work] /\ work[w].step = "arcs"
      /\ work[w].succs # << >> /\ Busy(w)
  BY DEF Shape, SwapBit, AtStep, Busy
<1>2. CASE Passes(Succ(w))
  <2>1. work' = [work EXCEPT ![w].step = Found(Succ(w))] /\ visited' = Listed(Succ(w))
    BY <1>2 DEF SwapBit
  <2>2. work'[w] = [work[w] EXCEPT !.step = Found(Succ(w))]
    BY <1>1, <2>1
  <2>3. work'[w].at = work[w].at /\ work'[w].last = work[w].last
        /\ work'[w].succs = work[w].succs /\ work'[w].step = Found(Succ(w))
    BY <1>1, <2>2 DEF Work
  <2> QED
    BY <1>1, <1>2, <2>1, <2>3 DEF Stays, Listed
<1>3. CASE ~Passes(Succ(w))
  <2>1. work' = [work EXCEPT ![w].succs = Tail(@)] /\ visited' = visited
    BY <1>3 DEF SwapBit
  <2>2. work'[w] = [work[w] EXCEPT !.succs = Tail(work[w].succs)]
    BY <1>1, <2>1
  <2>3. work'[w].at = work[w].at /\ work'[w].last = work[w].last
        /\ work'[w].succs = Tail(work[w].succs) /\ work'[w].step = "arcs"
    BY <1>1, <2>2 DEF Work
  <2> QED
    BY <1>1, <1>3, <2>1, <2>3 DEF Stays
<1> QED
  BY <1>2, <1>3

LEMMA AfterTell ==
  ASSUME Shape, NEW w \in Workers, TellKnown(w) \/ Discover(w)
  PROVE  /\ work[w].succs # << >> /\ Busy(w)
         /\ \/ /\ work'[w] = Idle /\ work'[w].step = "idle" /\ work'[w].succs = << >>
               /\ stopped'
            \/ /\ Stays(w) /\ work'[w] # Idle /\ work'[w].step = "arcs"
               /\ work'[w].succs = Tail(work[w].succs)
<1>1. work[w] \in Work /\ work \in [Workers -> Work]
      /\ work[w].succs # << >> /\ Busy(w)
  BY DEF Shape, TellKnown, Discover, AtStep, Busy
<1>2. /\ Advanced(w).at = work[w].at /\ Advanced(w).last = work[w].last
      /\ Advanced(w).step = "arcs" /\ Advanced(w).succs = Tail(work[w].succs)
  BY <1>1 DEF Work, Advanced
<1>3. \/ work' = [work EXCEPT ![w] = Advanced(w)]
      \/ work' = [work EXCEPT ![w] = Idle] /\ stopped'
  <2>1. Answer(w, Advanced(w)) \/ work' = [work EXCEPT ![w] = Advanced(w)]
    BY DEF TellKnown, Discover
  <2> QED
    BY <2>1, Zenon DEF Answer
<1>4. work'[w] = Advanced(w) \/ (work'[w] = Idle /\ stopped')
  BY <1>1, <1>3
<1>5. Idle.step = "idle" /\ Idle.succs = << >>
  BY DEF Idle
<1> QED
  BY <1>1, <1>2, <1>4, <1>5 DEF Stays

LEMMA AfterNode ==
  ASSUME Shape, NEW w \in Workers, NextNode(w)
  PROVE  /\ work[w].succs = << >> /\ Busy(w) /\ work'[w].succs = << >>
         /\ IF work[w].at = work[w].last THEN work'[w].step = "idle"
            ELSE /\ work'[w].at = work[w].at + 1 /\ work'[w].last = work[w].last
                 /\ work'[w].step = "node"
<1>1. work[w] \in Work /\ work \in [Workers -> Work]
      /\ work[w].succs = << >> /\ Busy(w)
  BY DEF Shape, NextNode, AtStep, Busy
<1> DEFINE r == [work[w] EXCEPT !.at = work[w].at + 1, !.step = "node"]
<1>2. r.at = work[w].at + 1 /\ r.last = work[w].last /\ r.step = "node"
      /\ r.succs = work[w].succs
  BY <1>1 DEF Work
<1>3. /\ work[w].at = work[w].last => work'[w] = Idle
      /\ work[w].at # work[w].last => work'[w] = r
  BY <1>1 DEF NextNode
<1> HIDE DEF r
<1> QED
  BY <1>1, <1>2, <1>3 DEF Idle

LEMMA AfterTake ==
  ASSUME Shape, NEW w \in Workers, TakeChunk(w)
  PROVE  /\ ~Busy(w) /\ work'[w].succs = << >> /\ work'[w].step = "node"
         /\ \E p \in todo :
              /\ todo' = todo \ {p} /\ work'[w].at = p
              /\ \A i \in InCurr :
                   p <= i /\ i <= p + granularity - 1 => i <= work'[w].last
<1>1. work \in [Workers -> Work] /\ ~Busy(w)
  BY DEF Shape, TakeChunk, AtStep, Busy
<1>2. PICK p \in todo :
        /\ todo' = todo \ {p}
        /\ work' = [work EXCEPT ![w] =
             [at |-> p, succs |-> << >>, step |-> "node",
              last |-> IF p + granularity - 1 > Len(curr_frontier)
                       THEN Len(curr_frontier) ELSE p + granularity - 1]]
  BY DEF TakeChunk
<1>3. work'[w] = [at |-> p, succs |-> << >>, step |-> "node",
                  last |-> IF p + granularity - 1 > Len(curr_frontier)
                           THEN Len(curr_frontier) ELSE p + granularity - 1]
  BY <1>1, <1>2
<1>4. /\ work'[w].at = p /\ work'[w].succs = << >> /\ work'[w].step = "node"
      /\ work'[w].last = IF p + granularity - 1 > Len(curr_frontier)
                         THEN Len(curr_frontier) ELSE p + granularity - 1
  BY <1>3
<1>5. \A i \in InCurr : p <= i /\ i <= p + granularity - 1 => i <= work'[w].last
  <2>1. Len(curr_frontier) \in Nat
    BY LenProperties DEF Shape, Frontier
  <2> QED
    BY <1>4, <2>1 DEF InCurr
<1> QED
  BY <1>1, <1>2, <1>4, <1>5

(* As long as nobody answers Break, a position waits until it is visited,  *)
(* and an arc is ahead until it is followed.                               *)
LEMMA WaitingStays ==
  ASSUME Shape, NEW w \in Workers, Worker(w), ~stopped', NEW i \in InCurr, Waiting(i)
  PROVE  Waiting(i)' \/ (VisitNode(w) /\ i = work[w].at)
<1>1. /\ pc = "scan" /\ UNCHANGED <<pc, curr_frontier, granularity>>
      /\ \A v \in Workers \ {w} : work'[v] = work[v]
  BY WorkerFrame
<1>2. /\ i \in Nat /\ \A v \in Workers : work[v].at \in Nat /\ work[v].last \in Nat
  BY WorkerNodes DEF InCurr
<1>3. CASE \E p \in todo : p <= i /\ i <= p + granularity - 1
  <2>1. PICK p \in todo : p <= i /\ i <= p + granularity - 1
    BY <1>3
  <2>2. CASE p \in todo'
    BY <1>1, <2>1, <2>2 DEF Waiting
  <2>3. CASE p \notin todo'
    <3>1. TakeChunk(w)
      BY <2>1, <2>3 DEF Worker, VisitNode, SwapBit, TellKnown, Discover, NextNode
    <3>2. /\ work'[w].step = "node" /\ work'[w].at = p /\ i <= work'[w].last
      BY <2>1, <2>3, <3>1, AfterTake
    <3>3. p \in Nat
      BY LenProperties DEF Shape, Chunks, Frontier
    <3>4. CASE i = p
      BY <3>2, <3>4 DEF Waiting
    <3>5. CASE i # p
      <4>1. work'[w].at < i /\ i <= work'[w].last /\ work'[w].step # "idle"
        BY <1>2, <2>1, <3>2, <3>3, <3>5
      <4> QED
        BY <4>1 DEF Waiting, Busy
    <3> QED
      BY <3>4, <3>5
  <2> QED
    BY <2>2, <2>3
<1>4. CASE \E v \in Workers \ {w} :
             \/ Busy(v) /\ work[v].at < i /\ i <= work[v].last
             \/ work[v].step = "node" /\ i = work[v].at
  BY <1>1, <1>4 DEF Waiting, Busy
<1>5. CASE work[w].step = "node" /\ i = work[w].at
  BY <1>5 DEF Worker, TakeChunk, SwapBit, TellKnown, Discover, NextNode, AtStep
<1>6. CASE Busy(w) /\ work[w].at < i /\ i <= work[w].last
  <2>1. CASE VisitNode(w)
    <3>1. Stays(w) /\ work'[w].step = "arcs"
      BY <2>1, AfterVisit
    <3> QED
      BY <1>6, <3>1 DEF Stays, Waiting, Busy
  <2>2. CASE SwapBit(w)
    <3>1. Stays(w) /\ work'[w].step # "idle"
      BY <2>2, AfterSwap DEF Found
    <3> QED
      BY <1>6, <3>1 DEF Stays, Waiting, Busy
  <2>3. CASE TellKnown(w) \/ Discover(w)
    <3>1. Stays(w) /\ work'[w].step = "arcs"
      BY <2>3, AfterTell
    <3> QED
      BY <1>6, <3>1 DEF Stays, Waiting, Busy
  <2>4. CASE NextNode(w)
    <3>1. work'[w].at = work[w].at + 1 /\ work'[w].last = work[w].last
          /\ work'[w].step = "node"
      BY <1>2, <1>6, <2>4, AfterNode
    <3>2. i = work'[w].at \/ work'[w].at < i
      BY <1>2, <1>6, <3>1
    <3> QED
      BY <1>6, <3>1, <3>2 DEF Waiting, Busy
  <2>5. ~TakeChunk(w)
    BY <1>6, AfterTake
  <2> QED
    BY <2>1, <2>2, <2>3, <2>4, <2>5 DEF Worker
<1> QED
  BY <1>1, <1>3, <1>4, <1>5, <1>6 DEF Waiting

LEMMA ArcStays ==
  ASSUME Shape, FrontierInv, ScanInv, Marked, NEW w \in Workers, Worker(w), ~stopped',
         Busy(w), NEW s \in ToSet(work[w].succs), ~VisitNode(w)
  PROVE  \/ work'[w].step # "idle" /\ Stays(w) /\ s \in ToSet(work'[w].succs)
         \/ ~Passes(s) \/ s \in visited'
<1>1. pc = "scan" /\ work[w].succs \in Seq(Nodes)
  BY WorkerFrame, WorkerNodes
<1>2. work[w].succs # << >>
  <2>1. ToSet(<< >>) = {}
    BY DEF ToSet
  <2> QED
    BY <2>1
<1>3. s = Succ(w) \/ s \in ToSet(Tail(work[w].succs))
  <2>1. ToSet(work[w].succs) = {Head(work[w].succs)} \cup ToSet(Tail(work[w].succs))
    BY <1>1, <1>2, ToSetTail
  <2>2. Head(work[w].succs) = Succ(w)
    BY <1>1, <1>2 DEF Succ
  <2> QED
    BY <2>1, <2>2
<1>4. CASE SwapBit(w)
  BY <1>3, <1>4, AfterSwap DEF Found
<1>5. CASE TellKnown(w) \/ Discover(w)
  <2>1. Stays(w) /\ work'[w].step = "arcs" /\ work'[w].succs = Tail(work[w].succs)
    BY <1>5, AfterTell
  <2>2. Succ(w) \in visited /\ visited' = visited
    <3>1. TellKnown(w) => Succ(w) \in visited /\ visited' = visited
      BY <1>1 DEF TellKnown, AtStep, ScanInv
    <3>2. Discover(w) => Succ(w) \in visited /\ visited' = visited
      BY <1>1 DEF Discover, AtStep, Marked, FoundMarked, Unknown
    <3> QED
      BY <1>5, <3>1, <3>2
  <2> QED
    BY <1>3, <2>1, <2>2
<1>6. ~TakeChunk(w) /\ ~NextNode(w)
  BY <1>2, AfterTake, AfterNode
<1> QED
  BY <1>4, <1>5, <1>6 DEF Worker

LEMMA AheadStays ==
  ASSUME Shape, FrontierInv, ScanInv, Marked, NEW w \in Workers, Worker(w), ~stopped',
         NEW i \in InCurr, NEW s \in graph[Curr(i)], Ahead(i, s)
  PROVE  Ahead(i, s)' \/ ~Passes(s) \/ s \in visited'
<1>1. /\ pc = "scan" /\ \A v \in Workers \ {w} : work'[v] = work[v]
  BY WorkerFrame
<1>2. ASSUME VisitNode(w), i = work[w].at PROVE Ahead(i, s)'
  <2>1. Busy(w)
    BY <1>2 DEF VisitNode, AtStep, Busy
  <2>2. Node(w) \in DOMAIN graph /\ Node(w) = Curr(i)
    BY <1>2, <2>1, WorkerNodes DEF Nodes, Node, Curr
  <2>3. ToSet(Successors(graph, Node(w))) = graph[Node(w)]
    BY <2>2, GraphLists DEF Shape
  <2>4. work'[w].at = i /\ work'[w].step = "arcs"
        /\ work'[w].succs = Successors(graph, Node(w))
    BY <1>2, AfterVisit DEF Stays
  <2>5. work'[w].step # "idle" /\ work'[w].at = i /\ s \in ToSet(work'[w].succs)
    BY <2>2, <2>3, <2>4
  <2> QED
    BY <2>5 DEF Ahead, Busy
<1>3. CASE Waiting(i)
  <2>1. Waiting(i)' \/ (VisitNode(w) /\ i = work[w].at)
    BY <1>3, WaitingStays
  <2> QED
    BY <1>2, <2>1 DEF Ahead
<1>4. CASE \E v \in Workers \ {w} :
             Busy(v) /\ work[v].at = i /\ s \in ToSet(work[v].succs)
  BY <1>1, <1>4 DEF Ahead, Busy
<1>5. CASE Busy(w) /\ work[w].at = i /\ s \in ToSet(work[w].succs)
  <2>1. CASE VisitNode(w)
    BY <1>2, <1>5, <2>1
  <2>2. CASE ~VisitNode(w)
    <3>1. \/ work'[w].step # "idle" /\ Stays(w) /\ s \in ToSet(work'[w].succs)
          \/ ~Passes(s) \/ s \in visited'
      BY <1>5, <2>2, ArcStays
    <3> QED
      BY <1>5, <3>1 DEF Ahead, Busy, Stays
  <2> QED
    BY <2>1, <2>2
<1> QED
  BY <1>3, <1>4, <1>5 DEF Ahead

-----------------------------------------------------------------------------
(* A level is opened, and workers follow its arcs.                         *)
LEMMA ChunkCovers ==
  ASSUME Shape, NEW i \in InCurr
  PROVE  \E p \in Chunks : p <= i /\ i <= p + granularity - 1
<1>1. granularity \in Nat \ {0} /\ Len(curr_frontier) \in Nat /\ i \in Nat \ {0}
  BY ParBfsAssumption, LenProperties DEF Shape, Frontier, InCurr
<1> DEFINE q == (i - 1) \div granularity
           p == granularity * q + 1
<1>2. /\ q \in Nat /\ (i - 1) % granularity \in 0 .. granularity - 1
      /\ i - 1 = granularity * q + ((i - 1) % granularity)
  <2>1. \A a \in Nat : /\ a % granularity \in 0 .. granularity - 1
                       /\ a \div granularity \in Nat
                       /\ a = granularity * (a \div granularity) + (a % granularity)
    BY <1>1, ModDef
  <2>2. i - 1 \in Nat
    BY <1>1
  <2> QED
    BY <2>1, <2>2
<1> HIDE DEF q
<1>3. granularity * q \in Nat
  BY <1>1, <1>2
<1>4. (granularity * q + 0) % granularity = 0
  BY <1>1, <1>2, ModShift
<1>5. p - 1 = granularity * q + 0 /\ 1 <= p /\ p <= i /\ i <= p + granularity - 1
  <2> DEFINE m == granularity * q
  <2>1. m \in Nat
    BY <1>3
  <2> HIDE DEF m
  <2>2. p = m + 1
    BY DEF m
  <2> HIDE DEF p
  <2>3. i - 1 = m + ((i - 1) % granularity)
    BY <1>2 DEF m
  <2>4. p - 1 = m + 0 /\ 1 <= p /\ p <= i /\ i <= p + granularity - 1
    BY <1>1, <1>2, <2>1, <2>2, <2>3
  <2> QED
    BY <2>4 DEF m
<1>6. p \in 1 .. Len(curr_frontier)
  BY <1>1, <1>3, <1>5 DEF InCurr
<1>7. p \in Chunks
  BY <1>4, <1>5, <1>6 DEF Chunks
<1> QED
  BY <1>5, <1>7

LEMMA OpenScan ==
  ASSUME ParBfsInv, VisitInv, OpenLevel, pc' = "scan"
  PROVE  ScanInv'
<1>1. Shape /\ LevelsInv /\ FrontierInv
  BY DEF ParBfsInv, VisitInv
<1>2. /\ pc = "level" /\ todo' = Chunks /\ curr_frontier # << >>
      /\ UNCHANGED <<levels, old, visited, curr_frontier, next_frontier, distance, work,
                     granularity>>
  BY DEF OpenLevel, visitVars
<1>3. next_frontier' = << >> /\ InNext' = {}
  BY <1>1, <1>2 DEF Shape, InNext
<1>4. \A w \in Workers : work'[w].step = "idle"
  BY <1>1, <1>2 DEF Shape, AllIdle, Idle
<1>5. CurrNodes # {}
  <2>1. 1 \in InCurr
    BY <1>1, <1>2, EmptySeq, LenProperties DEF Shape, Frontier, InCurr
  <2> QED
    BY <2>1 DEF CurrNodes
<1>6. \A i \in InCurr : \E p \in todo' : p <= i /\ i <= p + granularity - 1
  BY <1>1, <1>2, ChunkCovers
<1>7. \A i \in InCurr' : Waiting(i)'
  BY <1>2, <1>6 DEF Waiting, InCurr
<1>8. visited \subseteq old \cup UpTo(distance)
  BY <1>1, <1>2 DEF FrontierInv
<1>9. visited' \subseteq old' \cup UpTo(distance)'
  BY <1>2, <1>8 DEF UpTo
<1>10. CurrNodes' # {}
  BY <1>2, <1>5 DEF CurrNodes, InCurr, Curr
<1>11. \A i \in InCurr' : \A s : Ahead(i, s)'
  BY <1>7 DEF Ahead
<1> QED
  BY <1>3, <1>4, <1>7, <1>9, <1>10, <1>11 DEF ScanInv, Busy, Unknown

(* What a worker finds unknown is one level below, and what it has found   *)
(* known is marked.                                                        *)
LEMMA WorkerFinds ==
  ASSUME ParBfsInv, VisitInv, NEW w \in Workers, Worker(w)
  PROVE  /\ \A v \in Workers : Busy(v)' => ToSet(work'[v].succs) \subseteq graph[Node(v)']
         /\ \A v \in Workers : Unknown(v)' => ArrivesNext(Succ(v)', Node(v)')
         /\ \A v \in Workers : work'[v].step = "known" => Succ(v)' \in visited'
<1>1. Shape /\ LevelsInv /\ FrontierInv /\ ScanInv /\ pc = "scan"
  BY WorkerFrame DEF ParBfsInv, VisitInv
<1>2. /\ \A v \in Workers \ {w} : work'[v] = work[v]
      /\ visited \subseteq visited' /\ curr_frontier' = curr_frontier
  BY <1>1, WorkerFrame, WorkerKeeps
<1>3. ASSUME NEW v \in Workers, v # w
      PROVE  /\ Busy(v)' => ToSet(work'[v].succs) \subseteq graph[Node(v)']
             /\ Unknown(v)' => ArrivesNext(Succ(v)', Node(v)')
             /\ work'[v].step = "known" => Succ(v)' \in visited'
  <2>1. work'[v] = work[v] /\ Node(v)' = Node(v) /\ Succ(v)' = Succ(v)
    BY <1>2, <1>3 DEF Node, Succ
  <2> QED
    BY <1>1, <1>2, <2>1 DEF ScanInv, Busy, Unknown
<1>4. ToSet(<< >>) = {}
  BY DEF ToSet
<1>5. Busy(w) => ToSet(work[w].succs) \subseteq graph[Node(w)]
  BY <1>1 DEF ScanInv
<1>6. Stays(w) => Node(w)' = Node(w)
  BY <1>2 DEF Stays, Node
<1>7. work[w].succs # << >> => ToSet(Tail(work[w].succs)) \subseteq ToSet(work[w].succs)
  BY <1>1, WorkerNodes, ToSetTail
<1>8. CASE VisitNode(w)
  <2>1. Busy(w)
    BY <1>8 DEF VisitNode, AtStep, Busy
  <2>2. ToSet(Successors(graph, Node(w))) = graph[Node(w)]
    BY <1>1, <2>1, WorkerNodes, GraphLists DEF Shape, Nodes
  <2>3. work'[w].step \in {"idle", "arcs"}
        /\ (work'[w].step = "arcs" =>
              Node(w)' = Node(w) /\ work'[w].succs = Successors(graph, Node(w)))
    BY <1>1, <1>6, <1>8, AfterVisit
  <2> QED
    BY <1>3, <2>2, <2>3 DEF Busy, Unknown
<1>9. CASE SwapBit(w)
  <2>1. Stays(w) /\ work[w].succs # << >> /\ Busy(w)
    BY <1>1, <1>9, AfterSwap
  <2>2. CASE Passes(Succ(w))
    <3>1. /\ Succ(w) \in visited' /\ work'[w].succs = work[w].succs
          /\ work'[w].step = Found(Succ(w))
      BY <1>1, <1>9, <2>2, AfterSwap
    <3>2. Succ(w)' = Succ(w) /\ Node(w)' = Node(w)
      BY <1>6, <2>1, <3>1 DEF Succ
    <3>3. Found(Succ(w)) = "unknown" => ArrivesNext(Succ(w), Node(w))
      <4>1. Node(w) \in levels[distance] /\ Succ(w) \in graph[Node(w)]
        BY <1>1, <2>1, WorkerArc
      <4> QED
        BY <1>1, <2>2, <4>1, NewIsNext DEF Found
    <3> QED
      BY <1>3, <1>5, <2>1, <3>1, <3>2, <3>3 DEF Unknown
  <2>3. CASE ~Passes(Succ(w))
    <3>1. work'[w].succs = Tail(work[w].succs) /\ work'[w].step = "arcs"
      BY <1>1, <1>9, <2>3, AfterSwap
    <3> QED
      BY <1>3, <1>5, <1>6, <1>7, <2>1, <3>1 DEF Unknown
  <2> QED
    BY <2>2, <2>3
<1>10. CASE TellKnown(w) \/ Discover(w)
  <2>1. work[w].succs # << >> /\ Busy(w) /\ work'[w].step \in {"idle", "arcs"}
        /\ (work'[w].step = "arcs" => Stays(w) /\ work'[w].succs = Tail(work[w].succs))
    BY <1>1, <1>10, AfterTell
  <2> QED
    BY <1>3, <1>5, <1>6, <1>7, <2>1 DEF Unknown, Busy
<1>11. CASE NextNode(w) \/ TakeChunk(w)
  <2>1. work'[w].succs = << >> /\ work'[w].step \in {"idle", "node"}
    BY <1>1, <1>11, AfterNode, AfterTake
  <2> QED
    BY <1>3, <1>4, <2>1 DEF Unknown
<1> QED
  BY <1>8, <1>9, <1>10, <1>11 DEF Worker

(* What is pushed to the next frontier has been found, and told of where   *)
(* nodes are told of when they are found.                                  *)
LEMMA WorkerPushes ==
  ASSUME ParBfsInv, VisitInv, NEW w \in Workers, Worker(w)
  PROVE  /\ \A j \in InNext : j \in InNext' /\ next_frontier'[j] = next_frontier[j]
         /\ \A j \in InNext' :
              \/ j \in InNext
              \/ Discover(w) /\ next_frontier'[j] = <<Succ(w), Node(w)>>
         /\ Discover(w) =>
              stopped' \/ \E j \in InNext' : next_frontier'[j] = <<Succ(w), Node(w)>>
<1>1. Shape
  BY DEF ParBfsInv
<1>2. CASE ~Discover(w)
  BY <1>2, WorkerKeeps DEF InNext
<1>3. CASE Discover(w)
  <2> DEFINE e == <<Succ(w), Node(w)>>
  <2>1. e \in Nodes \X Nodes
    BY <1>1, <1>3, AfterTell, WorkerNodes
  <2>2. \/ work'[w] = Idle /\ stopped' /\ next_frontier' = next_frontier
        \/ work'[w] # Idle /\ next_frontier' = Append(next_frontier, e)
    <3>1. (work'[w] = Idle /\ stopped') \/ work'[w] # Idle
      BY <1>1, <1>3, AfterTell
    <3> QED
      BY <1>3, <3>1 DEF Discover
  <2> HIDE DEF e
  <2>3. CASE next_frontier' = next_frontier /\ stopped'
    BY <2>3 DEF InNext
  <2>4. CASE next_frontier' = Append(next_frontier, e)
    <3>1. /\ InNext' = InNext \cup {Len(next_frontier) + 1}
          /\ \A j \in InNext : next_frontier'[j] = next_frontier[j]
          /\ next_frontier'[Len(next_frontier) + 1] = e
      BY <1>1, <2>1, <2>4, AppendPositions DEF Shape, Frontier, InNext
    <3> QED
      BY <1>3, <3>1 DEF e
  <2> QED
    BY <2>2, <2>3, <2>4
<1> QED
  BY <1>2, <1>3

LEMMA WorkerScan ==
  ASSUME ParBfsInv, VisitInv, NEW w \in Workers, Worker(w)
  PROVE  ScanInv'
<1>1. Shape /\ LevelsInv /\ FrontierInv /\ ScanInv /\ Marked /\ pc = "scan"
  BY WorkerFrame DEF ParBfsInv, VisitInv
<1>2. /\ \A v \in Workers \ {w} : work'[v] = work[v]
      /\ visited \subseteq visited' /\ (stopped => stopped')
      /\ UNCHANGED <<levels, old, curr_frontier, distance, graph, accept, kind>>
  BY <1>1, WorkerFrame, WorkerKeeps
<1>3. \A s, u : ArrivesNext(s, u)' <=> ArrivesNext(s, u)
  BY <1>2 DEF ArrivesNext
<1>4. InCurr' = InCurr /\ CurrNodes' = CurrNodes
  BY <1>2 DEF InCurr, CurrNodes, Curr
<1>5. Discover(w) => Unknown(w)
  BY DEF Discover, AtStep, Unknown
<1>6. \A j \in InNext : ArrivesNext(next_frontier[j][1], next_frontier[j][2])
  BY <1>1 DEF ScanInv, Coming, ComingPred
<1>7. \A j \in InNext' : ArrivesNext(next_frontier'[j][1], next_frontier'[j][2])
  <2>1. Discover(w) => ArrivesNext(Succ(w), Node(w))
    BY <1>1, <1>5 DEF ScanInv
  <2> QED
    BY <1>6, <2>1, WorkerPushes
<1>8. \A u \in Nodes : told[u] # << >> => told'[u] # << >>
  <2>1. \A x, p, d : TellsOnly(x, p, d) => \A u \in Nodes : told[u] # << >> => told'[u] # << >>
    BY DEF TellsOnly, Untold
  <2> QED
    BY <2>1, WorkerTells
<1>9. ~TellsLate => \A j \in InNext' : told'[next_frontier'[j][1]] # << >>
  <2>1. ~TellsLate => \A j \in InNext :
          next_frontier[j][1] \in Nodes /\ told[next_frontier[j][1]] # << >>
    BY <1>1, FrontierNodes DEF ScanInv, Coming, Untold
  <2>2. ~TellsLate /\ Discover(w) => told'[Succ(w)] # << >>
    <3>1. ~TellsLate /\ Discover(w) => TellsOnly(Succ(w), Node(w), distance + 1)
      BY WorkerTells
    <3>2. <<[pred |-> Node(w), distance |-> distance + 1]>> # << >>
      OBVIOUS
    <3> QED
      BY <3>1, <3>2 DEF TellsOnly
  <2> QED
    BY <1>8, <2>1, <2>2, WorkerPushes
<1>10. \A u \in visited' :
         \/ u \in old \cup UpTo(distance)
         \/ /\ u \in levels[distance + 1]
            /\ \/ stopped'
               \/ \E j \in InNext' : u = next_frontier'[j][1]
               \/ \E v \in Workers : work'[v].step = "unknown" /\ u = work'[v].succs[1]
  <2> SUFFICES ASSUME NEW u \in visited', u \notin old \cup UpTo(distance), ~stopped'
               PROVE  /\ u \in levels[distance + 1]
                      /\ \/ \E j \in InNext' : u = next_frontier'[j][1]
                         \/ \E v \in Workers : work'[v].step = "unknown" /\ u = work'[v].succs[1]
    <3>1. \A u \in visited' : u \in old \cup UpTo(distance) \/ u \in levels[distance + 1]
      <4>1. \A u \in visited : u \in old \cup UpTo(distance) \/ u \in levels[distance + 1]
        BY <1>1 DEF ScanInv
      <4>2. visited' = visited \/ (visited' = visited \cup {Succ(w)} /\ ArrivesNext(Succ(w), Node(w)))
        BY <1>1, SwapMarks, WorkerKeeps
      <4> QED
        BY <4>1, <4>2 DEF ArrivesNext
    <3> QED
      BY <3>1
  <2>1. CASE u \in visited
    <3>1. /\ u \in levels[distance + 1]
          /\ \/ \E j \in InNext : u = next_frontier[j][1]
             \/ \E v \in Workers : Unknown(v) /\ u = Succ(v)
      BY <1>1, <1>2, <2>1 DEF ScanInv, Coming
    <3>2. CASE \E j \in InNext : u = next_frontier[j][1]
      BY <3>1, <3>2, WorkerPushes
    <3>3. CASE \E v \in Workers \ {w} : Unknown(v) /\ u = Succ(v)
      BY <1>2, <3>1, <3>3 DEF Unknown, Succ
    <3>4. CASE Unknown(w) /\ u = Succ(w)
      <4>1. Discover(w)
        BY <3>4 DEF Worker, TakeChunk, VisitNode, SwapBit, TellKnown, NextNode, AtStep, Unknown
      <4>2. PICK j \in InNext' : next_frontier'[j] = <<Succ(w), Node(w)>>
        BY <4>1, WorkerPushes
      <4> QED
        BY <3>1, <3>4, <4>2
    <3> QED
      BY <3>1, <3>2, <3>3, <3>4
  <2>2. CASE u \notin visited
    <3>1. SwapBit(w)
      BY <2>2, WorkerKeeps
    <3>2. u = Succ(w) /\ Succ(w) \notin visited /\ Passes(Succ(w))
          /\ ArrivesNext(Succ(w), Node(w))
      BY <1>1, <2>2, <3>1, SwapMarks
    <3>3. work'[w].step = "unknown" /\ work'[w].succs[1] = Succ(w)
      BY <1>1, <3>1, <3>2, AfterSwap DEF Found, Succ
    <3> QED
      BY <3>2, <3>3 DEF ArrivesNext
  <2> QED
    BY <2>1, <2>2
<1>11. ASSUME ~stopped', NEW i \in InCurr
       PROVE  /\ ~Waiting(i)' /\ TellsLate => told'[Curr(i)] # << >>
              /\ \A s \in graph[Curr(i)] : Ahead(i, s)' \/ ~Passes(s) \/ s \in visited'
  <2>1. /\ ~Waiting(i) /\ TellsLate => told[Curr(i)] # << >>
        /\ \A s \in graph[Curr(i)] : Ahead(i, s) \/ ~Passes(s) \/ s \in visited
    BY <1>1, <1>2, <1>11 DEF ScanInv, Untold
  <2>2. Curr(i) \in Nodes
    BY <1>1, FrontierNodes
  <2>3. ASSUME ~Waiting(i)', TellsLate PROVE told'[Curr(i)] # << >>
    <3>1. CASE ~Waiting(i)
      BY <1>8, <2>1, <2>2, <2>3, <3>1
    <3>2. CASE Waiting(i)
      <4>1. VisitNode(w) /\ i = work[w].at
        BY <1>1, <1>11, <2>3, <3>2, WaitingStays
      <4>2. ~Discover(w)
        BY <4>1 DEF VisitNode, Discover, AtStep
      <4>3. TellsOnly(Curr(i), Pred(w), distance)
        BY <2>3, <4>1, <4>2, WorkerTells DEF Node, Curr
      <4>4. <<[pred |-> Pred(w), distance |-> distance]>> # << >>
        OBVIOUS
      <4> QED
        BY <2>2, <4>3, <4>4 DEF TellsOnly
    <3> QED
      BY <3>1, <3>2
  <2>4. ASSUME NEW s \in graph[Curr(i)] PROVE Ahead(i, s)' \/ ~Passes(s) \/ s \in visited'
    BY <1>1, <1>2, <1>11, <2>1, <2>4, AheadStays
  <2> QED
    BY <2>3, <2>4
<1>12. UpTo(distance)' = UpTo(distance) /\ (TellsLate <=> TellsLate')
  BY <1>2 DEF UpTo, TellsLate
<1>13. \A j \in InNext' : ArrivesNext(Coming(j), ComingPred(j))'
  BY <1>2, <1>7 DEF Coming, ComingPred, ArrivesNext
<1>14. ~TellsLate' => \A j \in InNext' : ~Untold(Coming(j))'
  BY <1>9, <1>12 DEF Coming, Untold
<1>15. /\ \A v \in Workers : Busy(v)' => ToSet(work'[v].succs) \subseteq graph'[Node(v)']
       /\ \A v \in Workers : Unknown(v)' => ArrivesNext(Succ(v), Node(v))'
       /\ \A v \in Workers : work'[v].step = "known" => Succ(v)' \in visited'
  <2>1. /\ \A v \in Workers : Busy(v)' => ToSet(work'[v].succs) \subseteq graph[Node(v)']
        /\ \A v \in Workers : Unknown(v)' => ArrivesNext(Succ(v)', Node(v)')
        /\ \A v \in Workers : work'[v].step = "known" => Succ(v)' \in visited'
    BY WorkerFinds
  <2> QED
    BY <1>2, <2>1 DEF ArrivesNext
<1>16. \A i \in InCurr' : (\A s \in graph'[Curr(i)'] : Ahead(i, s)' \/ ~Passes(s)' \/ s \in visited')
                          \/ stopped'
  BY <1>2, <1>4, <1>11 DEF Curr, Passes
<1>17. \A i \in InCurr' : (~Waiting(i)' /\ TellsLate' => ~Untold(Curr(i))') \/ stopped'
  BY <1>2, <1>4, <1>11, <1>12 DEF Curr, Untold
<1>18. \A u \in visited' :
         \/ u \in old' \cup UpTo(distance)'
         \/ /\ u \in levels'[distance' + 1]
            /\ \/ stopped'
               \/ \E j \in InNext' : u = Coming(j)'
               \/ \E v \in Workers : Unknown(v)' /\ u = Succ(v)'
  BY <1>2, <1>10, <1>12 DEF Coming, Unknown, Succ
<1>19. CurrNodes' # {}
  BY <1>1, <1>4 DEF ScanInv
<1> QED
  BY <1>13, <1>14, <1>15, <1>16, <1>17, <1>18, <1>19 DEF ScanInv

-----------------------------------------------------------------------------
LEMMA InitVisitInv == Init => VisitInv
<1> SUFFICES ASSUME Init PROVE VisitInv
  OBVIOUS
<1>1. IsDigraph(graph)
  BY ParBfsAssumption DEF Init
<1>2. levels = Levels(graph, {}, {}, {})
  BY DEF Init
<1>3. Layered(graph, levels)
  BY <1>1, <1>2, LevelsLayered
<1>4. pc = "idle" /\ start = {} /\ visited = {} /\ sizes = << >> /\ done = FALSE
      /\ told = [u \in Nodes |-> << >>]
  BY DEF Init
<1>5. LevelsInv
  BY <1>3, <1>4 DEF LevelsInv, Untold
<1>6. RootsInv /\ FrontierInv /\ ScanInv
  BY <1>4 DEF RootsInv, FrontierInv, ScanInv
<1>7. SizesInv
  <2>1. sizes \in Seq(Nat)
    BY <1>4
  <2> QED
    BY <1>4, <2>1 DEF SizesInv
<1> QED
  BY <1>5, <1>6, <1>7 DEF VisitInv

LEMMA UnchangedScan ==
  ASSUME ScanInv, UNCHANGED vars
  PROVE  ScanInv'
<1>1. UNCHANGED <<levels, told, kind, graph, accept, visited, pc, curr_frontier, next_frontier,
                  distance, todo, work, stopped, old, granularity>>
  BY DEF vars, visitVars, mine
<1>2. InCurr' = InCurr /\ InNext' = InNext /\ CurrNodes' = CurrNodes
      /\ UpTo(distance)' = UpTo(distance) /\ TellsLate' = TellsLate
  BY <1>1 DEF InCurr, InNext, CurrNodes, Curr, UpTo, TellsLate
<1>3. ASSUME NEW i
      PROVE  /\ Curr(i)' = Curr(i) /\ Coming(i)' = Coming(i)
             /\ ComingPred(i)' = ComingPred(i) /\ Passes(i)' = Passes(i)
             /\ Untold(i)' = Untold(i)
  BY <1>1 DEF Curr, Coming, ComingPred, Passes, Untold
<1>4. ASSUME NEW w
      PROVE  /\ Busy(w)' = Busy(w) /\ Unknown(w)' = Unknown(w)
             /\ Node(w)' = Node(w) /\ Succ(w)' = Succ(w)
  BY <1>1 DEF Busy, Unknown, Node, Succ
<1>5. \A i : Waiting(i)' = Waiting(i)
  BY <1>1, <1>4 DEF Waiting
<1>6. \A s, u : ArrivesNext(s, u)' = ArrivesNext(s, u) /\ Ahead(s, u)' = Ahead(s, u)
  BY <1>1, <1>4, <1>5 DEF ArrivesNext, Ahead
<1> QED
  BY <1>1, <1>2, <1>3, <1>4, <1>5, <1>6 DEF ScanInv

LEMMA NextVisitInv == ParBfsInv /\ VisitInv /\ [Next]_vars => VisitInv'
<1> SUFFICES ASSUME ParBfsInv, VisitInv, [Next]_vars PROVE VisitInv'
  OBVIOUS
<1>1. CASE Caller
  <2>1. LevelsInv' /\ SizesInv'
    BY <1>1, CallerLevels, NextSizes DEF Next
  <2>2. RootsInv'
    BY <1>1, CallerRoots DEF RootsInv
  <2>3. FrontierInv'
    BY <1>1, CallerFrontier DEF FrontierInv
  <2>4. ScanInv'
    <3>1. pc' = "scan" => OpenLevel
      BY <1>1 DEF Caller, StartVisit, Reset, TakeRoot, CloseRoots, OpenLevel, Finish,
                  CloseLevel, mine
    <3> QED
      BY <3>1, OpenScan DEF ScanInv
  <2> QED
    BY <2>1, <2>2, <2>3, <2>4 DEF VisitInv
<1>2. ASSUME NEW w \in Workers, Worker(w) PROVE VisitInv'
  <2>1. LevelsInv' /\ FrontierInv' /\ ScanInv' /\ SizesInv'
    BY <1>2, WorkerLevels, WorkerFrontier, WorkerScan, NextSizes DEF Next
  <2>2. pc' = "scan"
    BY <1>2, WorkerFrame, WorkerKeeps DEF ParBfsInv
  <2>3. RootsInv'
    BY <2>2 DEF RootsInv
  <2> QED
    BY <2>1, <2>3 DEF VisitInv
<1>3. CASE UNCHANGED vars
  <2>1. LevelsInv'
    BY <1>3 DEF VisitInv, LevelsInv, vars, visitVars, mine, Nodes, Untold
  <2>2. RootsInv'
    BY <1>3 DEF VisitInv, RootsInv, vars, visitVars, mine, CurrNodes, CurrPred, Curr, InCurr,
                TellsLate, Untold
  <2>3. FrontierInv'
    BY <1>3 DEF VisitInv, FrontierInv, vars, visitVars, mine, CurrNodes, CurrPred, Curr,
                InCurr, TellsLate, Untold, UpTo
  <2>4. SizesInv'
    BY <1>3 DEF VisitInv, SizesInv, DoneIsComplete, vars, mine
  <2>5. ScanInv'
    BY <1>3, UnchangedScan DEF VisitInv
  <2> QED
    BY <2>1, <2>2, <2>3, <2>4, <2>5 DEF VisitInv
<1> QED
  BY <1>1, <1>2, <1>3 DEF Next

LEMMA AlwaysVisitInv == Spec => [](ParBfsInv /\ VisitInv)
<1>1. Init => ParBfsInv /\ VisitInv
  BY InitParBfsInv, InitVisitInv
<1>2. ParBfsInv /\ VisitInv /\ [Next]_vars => (ParBfsInv /\ VisitInv)'
  BY NextParBfsInv, NextVisitInv
<1> QED
  BY <1>1, <1>2, PTL DEF Spec

(* Done is said when all that can be reached has been told, and the sizes  *)
(* announced were those of the levels, whatever the threads' interleaving. *)
THEOREM DoneIsTrue == Spec => []DoneIsComplete
<1>1. VisitInv => DoneIsComplete
  <2>1. CASE done
    BY <2>1 DEF VisitInv, SizesInv
  <2>2. CASE ~done
    BY <2>2 DEF DoneIsComplete
  <2> QED
    BY <2>1, <2>2
<1> QED
  BY <1>1, AlwaysVisitInv, PTL

(* Only nodes that the filter accepts at their distance are ever marked.   *)
THEOREM OnlyAcceptedMarked == Spec => []MarksOnlyAccepted
<1>1. VisitInv => MarksOnlyAccepted
  BY DEF VisitInv, LevelsInv, MarksOnlyAccepted
<1> QED
  BY <1>1, AlwaysVisitInv, PTL

-----------------------------------------------------------------------------
(* The steps seen from the callback: what LevelVisit allows it to be told. *)
ToldNow ==
  [u \in Nodes |-> IF told[u] = << >> THEN [pred |-> -1, distance |-> -1] ELSE told[u][1]]

DistancesTold == \A u \in Nodes : ~Untold(u) => told[u][1].distance \in Nat

LEMMA VisitTold ==
  ASSUME DistancesTold
  PROVE  Visit!Told = {u \in Nodes : ~Untold(u)}
<1>1. \A u \in Nodes : ~Untold(u) => told[u][1] # [pred |-> -1, distance |-> -1]
  <2> SUFFICES ASSUME NEW u \in Nodes, ~Untold(u),
                      told[u][1] = [pred |-> -1, distance |-> -1]
               PROVE  FALSE
    OBVIOUS
  <2>1. told[u][1].distance \in Nat
    BY DEF DistancesTold
  <2>2. told[u][1].distance = -1
    OBVIOUS
  <2> QED
    BY <2>1, <2>2
<1> QED
  BY <1>1 DEF Visit!Told, Visit!NotTold, Nodes, Untold

LEMMA TellImplements ==
  ASSUME DistancesTold, UNCHANGED <<graph, levels>>,
         NEW d \in DOMAIN levels, NEW x \in levels[d], NEW p \in Nodes, TellsOnly(x, p, d),
         \A e \in 0 .. d - 1 : \A u \in levels[e] : u \in Nodes /\ ~Untold(u),
         IF d = 0 THEN p = x ELSE p \in levels[d - 1] /\ x \in graph[p]
  PROVE  Visit!Next
<1>1. x \in Nodes /\ Untold(x)
  BY DEF TellsOnly
<1>2. Visit!Told = {u \in Nodes : ~Untold(u)}
  BY VisitTold
<1>3. p \in Visit!Up(x, d)
  BY DEF Visit!Up
<1>4. ToldNow' = [ToldNow EXCEPT ![x] = [pred |-> p, distance |-> d]]
  <2>1. Nodes' = Nodes
    BY DEF Nodes
  <2> DEFINE entry == [pred |-> p, distance |-> d]
             none == [pred |-> -1, distance |-> -1]
  <2>2. \A u \in Nodes : told'[u] = IF u = x THEN <<entry>> ELSE told[u]
    BY DEF TellsOnly
  <2> HIDE DEF entry, none
  <2>3. <<entry>> # << >> /\ <<entry>>[1] = entry
    OBVIOUS
  <2>4. ToldNow = [u \in Nodes |-> IF told[u] = << >> THEN none ELSE told[u][1]]
    BY DEF ToldNow, none
  <2>5. ToldNow' = [u \in Nodes |-> IF told'[u] = << >> THEN none ELSE told'[u][1]]
    BY <2>1 DEF ToldNow, none
  <2>6. ToldNow' = [ToldNow EXCEPT ![x] = entry]
    BY <1>1, <2>2, <2>3, <2>4, <2>5
  <2> QED
    BY <2>6 DEF entry
<1>5. Visit!Tell(x, d, p)
  BY <1>1, <1>2, <1>3, <1>4 DEF Visit!Tell, ToldNow
<1> QED
  BY <1>5 DEF Visit!Next, Nodes

LEMMA WorkerImplements ==
  ASSUME ParBfsInv, VisitInv, NEW w \in Workers, Worker(w), told' # told
  PROVE  Visit!Next
<1>1. Shape /\ LevelsInv /\ FrontierInv /\ ScanInv /\ pc = "scan"
  BY WorkerFrame DEF ParBfsInv, VisitInv
<1>2. DOMAIN levels = 0 .. Cardinality(Nodes) /\ Cardinality(Nodes) \in Nat
      /\ (\A d \in DOMAIN levels : levels[d] \subseteq Nodes) /\ distance \in Nat
  BY <1>1, LevelNodes
<1>3. UNCHANGED <<graph, levels>>
  BY WorkerKeeps
<1>4. distance \in DOMAIN levels /\ CurrNodes = levels[distance]
      /\ \A u \in UpTo(distance) : Untold(u) => TellsLate /\ u \in levels[distance]
  BY <1>1 DEF FrontierInv
<1>5. \A e \in 0 .. distance : levels[e] \subseteq UpTo(distance) /\ e \in DOMAIN levels
  <2>1. \A e \in 0 .. distance : levels[e] \subseteq UpTo(distance)
    BY <1>2, UpToNext
  <2>2. \A e \in 0 .. distance : e \in DOMAIN levels
    BY <1>2, <1>4
  <2> QED
    BY <2>1, <2>2
<1>6. CASE VisitNode(w) /\ TellsLate /\ TellsOnly(Node(w), Pred(w), distance)
  <2>1. Busy(w)
    BY <1>6 DEF VisitNode, AtStep, Busy
  <2>2. work[w].at \in InCurr /\ Node(w) = Curr(work[w].at) /\ Node(w) \in levels[distance]
    BY <1>1, <2>1, WorkerArc
  <2>3. IF distance = 0 THEN Pred(w) = Node(w)
        ELSE Pred(w) \in levels[distance - 1] /\ Node(w) \in graph[Pred(w)]
    BY <1>1, <2>2 DEF FrontierInv, CurrPred, Pred
  <2>4. Pred(w) \in Nodes
    BY <1>2, <1>4, <2>2, <2>3
  <2>5. \A e \in 0 .. distance - 1 : \A u \in levels[e] : u \in Nodes /\ ~Untold(u)
    <3> SUFFICES ASSUME NEW e \in 0 .. distance - 1, NEW u \in levels[e]
                 PROVE  u \in Nodes /\ ~Untold(u)
      OBVIOUS
    <3>1. e \in 0 .. distance /\ e # distance
      BY <1>2
    <3>2. u \in UpTo(distance) /\ u \in Nodes /\ e \in DOMAIN levels
      BY <1>2, <1>5, <3>1
    <3>3. levels[e] \cap levels[distance] = {}
      BY <1>1, <1>4, <3>1, <3>2 DEF LevelsInv, Layered
    <3> QED
      BY <1>4, <3>2, <3>3
  <2> QED
    BY <1>1, <1>3, <1>4, <1>6, <2>2, <2>3, <2>4, <2>5, TellImplements
    DEF LevelsInv, DistancesTold
<1>7. CASE Discover(w) /\ ~TellsLate /\ TellsOnly(Succ(w), Node(w), distance + 1)
  <2>1. Unknown(w) /\ Busy(w)
    BY <1>7 DEF Discover, AtStep, Unknown, Busy
  <2>2. ArrivesNext(Succ(w), Node(w))
    BY <1>1, <2>1 DEF ScanInv
  <2>3. (distance + 1) - 1 = distance /\ distance + 1 # 0
    BY <1>2
  <2>4. Node(w) \in Nodes
    BY <1>2, <1>4, <2>2 DEF ArrivesNext
  <2>5. \A e \in 0 .. distance : \A u \in levels[e] : u \in Nodes /\ ~Untold(u)
    BY <1>2, <1>4, <1>5, <1>7
  <2> QED
    BY <1>1, <1>3, <1>7, <2>2, <2>3, <2>4, <2>5, TellImplements
    DEF ArrivesNext, LevelsInv, DistancesTold
<1> QED
  BY <1>6, <1>7, WorkerTells

LEMMA RootImplements ==
  ASSUME ParBfsInv, VisitInv, TakeRoot, told' # told
  PROVE  Visit!Next
<1>1. Shape /\ LevelsInv
  BY DEF ParBfsInv, VisitInv
<1> DEFINE r == Head(roots)
<1>2. TellsOnly(r, r, 0) /\ r \notin visited
  BY RootTells
<1>3. visited' = visited \cup {r}
  BY DEF TakeRoot
<1>4. r \in levels[0] /\ r \in Nodes
  BY <1>2, <1>3, RootMarks
<1>5. 0 \in DOMAIN levels
  BY <1>1, LevelNodes
<1>6. UNCHANGED <<graph, levels>>
  BY DEF TakeRoot
<1>7. \A e \in 0 .. 0 - 1 : FALSE
  OBVIOUS
<1> QED
  BY <1>1, <1>2, <1>4, <1>5, <1>6, <1>7, TellImplements DEF LevelsInv, DistancesTold

LEMMA BeginImplements ==
  ASSUME Layered(graph, levels), Layered(graph, levels'), UNCHANGED graph,
         told' = told \/ told' = [u \in Nodes |-> << >>]
  PROVE  Visit!Next
<1>1. Nodes' = Nodes
  BY DEF Nodes
<1>2. ToldNow' = ToldNow \/ ToldNow' = [u \in Nodes |-> [pred |-> -1, distance |-> -1]]
  BY <1>1 DEF ToldNow
<1>3. /\ levels' \in [DOMAIN levels -> SUBSET DOMAIN graph]
      /\ \A d, e \in DOMAIN levels : d # e => levels'[d] \cap levels'[e] = {}
      /\ \A d \in DOMAIN levels \ {0} : levels'[d] \subseteq Image(graph, levels'[d - 1])
  BY DEF Layered
<1>4. Visit!Begin
  BY <1>2, <1>3 DEF Visit!Begin, Visit!NotTold, Visit!Image, Image, ToldNow, Nodes
<1> QED
  BY <1>4 DEF Visit!Next

LEMMA InitImplements ==
  ASSUME graph \in Graphs, levels = Levels(graph, {}, {}, {}), told = [u \in Nodes |-> << >>]
  PROVE  Visit!Init
<1>1. IsDigraph(graph)
  BY ParBfsAssumption
<1>2. levels = [d \in 0 .. Cardinality(DOMAIN graph) |-> {}]
  BY <1>1, NoLevels
<1>3. told = [u \in Nodes |-> << >>]
  OBVIOUS
<1>4. [u \in Nodes |-> IF told[u] = << >> THEN [pred |-> -1, distance |-> -1] ELSE told[u][1]]
      = [u \in DOMAIN graph |-> Visit!NotTold]
  BY <1>3 DEF Visit!NotTold, Nodes
<1>5. Visit!IsDigraph(graph) /\ Visit!Cardinality(DOMAIN graph) = Cardinality(DOMAIN graph)
  BY <1>1 DEF Visit!IsDigraph, IsDigraph, Visit!Cardinality, Cardinality, Visit!IsFiniteSet,
              IsFiniteSet
<1> QED
  BY <1>2, <1>4, <1>5 DEF Visit!Init

LEMMA NextImplements == ParBfsInv /\ VisitInv /\ VisitInv' /\ [Next]_vars => [Visit!Next]_(Visit!vars)
<1> SUFFICES ASSUME ParBfsInv, VisitInv, VisitInv', [Next]_vars
             PROVE  [Visit!Next]_(Visit!vars)
  OBVIOUS
<1>1. LevelsInv /\ LevelsInv'
  BY DEF VisitInv
<1>2. CASE UNCHANGED <<graph, levels, told>>
  BY <1>2 DEF Visit!vars, Nodes
<1>3. CASE StartVisit \/ Reset
  <2>1. UNCHANGED graph /\ (told' = told \/ told' = [u \in Nodes |-> << >>])
    BY <1>3 DEF StartVisit, Reset
  <2> QED
    BY <1>1, <2>1, BeginImplements DEF LevelsInv
<1>4. CASE TakeRoot
  <2>1. UNCHANGED <<graph, levels>>
    BY <1>4 DEF TakeRoot
  <2> QED
    BY <1>2, <1>4, <2>1, RootImplements
<1>5. CASE CloseRoots \/ OpenLevel \/ Finish \/ CloseLevel
  BY <1>2, <1>5 DEF CloseRoots, OpenLevel, Finish, CloseLevel
<1>6. ASSUME NEW w \in Workers, Worker(w) PROVE [Visit!Next]_(Visit!vars)
  <2>1. UNCHANGED <<graph, levels>>
    BY <1>6, WorkerKeeps
  <2> QED
    BY <1>2, <1>6, <2>1, WorkerImplements
<1>7. CASE UNCHANGED vars
  BY <1>2, <1>7 DEF vars
<1> QED
  BY <1>3, <1>4, <1>5, <1>6, <1>7 DEF Next, Caller

(* However the threads share a level: the callback is told nodes with      *)
(* their exact distances and a predecessor one level up, level by level,   *)
(* over any number of visits, interrupted or not, and resets.              *)
THEOREM VisitImplementsLevels == Spec => LevelVisitSpec
<1>1. Init => Visit!Init
  BY InitImplements DEF Init
<1>2. (ParBfsInv /\ VisitInv) /\ (ParBfsInv /\ VisitInv)' /\ [Next]_vars
        => [Visit!Next]_(Visit!vars)
  BY NextImplements
<1> QED
  BY <1>1, <1>2, AlwaysVisitInv, PTL DEF Spec, LevelVisitSpec, Visit!Spec

-----------------------------------------------------------------------------
(* In a symmetric graph what is reached reaches back.                      *)
LEMMA ReachesBack ==
  ASSUME NEW g, IsDigraph(g), Symmetric(g), NEW r \in DOMAIN g, NEW u \in Reached(g, {r})
  PROVE  r \in Reached(g, {u}) /\ Reached(g, {u}) = Reached(g, {r})
<1> DEFINE C == {w \in DOMAIN g : r \in Reached(g, {w})}
<1>1. /\ r \in Reached(g, {r})
      /\ \A D \in SUBSET DOMAIN g :
           r \in D /\ (\A v \in D : g[v] \subseteq D) => Reached(g, {r}) \subseteq D
  BY Reaching
<1>2. ASSUME NEW w \in C, NEW s \in g[w] PROVE s \in C
  <2>1. s \in DOMAIN g /\ w \in g[s]
    BY <1>2 DEF IsDigraph, Symmetric
  <2>2. w \in Reached(g, {s})
    BY <2>1, Reaching
  <2>3. Reached(g, {w}) \subseteq Reached(g, {s})
    BY <2>1, <2>2, ReachesFurther
  <2> QED
    BY <2>1, <2>3
<1>3. r \in C /\ C \in SUBSET DOMAIN g /\ \A w \in C : g[w] \subseteq C
  BY <1>1, <1>2
<1>4. u \in C
  BY <1>1, <1>3
<1>5. u \in DOMAIN g /\ Reached(g, {u}) \subseteq Reached(g, {r})
  BY ReachesFurther
<1>6. Reached(g, {r}) \subseteq Reached(g, {u})
  BY <1>4, <1>5, ReachesFurther
<1> QED
  BY <1>4, <1>5, <1>6

(* The cells of the nodes of S, which no arc leaves, are numbered below n, *)
(* one number per component, none left out.                                *)
Numbered(g, S, c, n) ==
  /\ S \subseteq DOMAIN g
  /\ \A u \in S : g[u] \subseteq S
  /\ \A u \in S : c[u] \in 0 .. n - 1
  /\ \A u, v \in S : c[u] = c[v] <=> v \in Reached(g, {u})
  /\ \A i \in 0 .. n - 1 : \E u \in S : c[u] = i

(* What is numbered stays so while only other cells are written.           *)
LEMMA NumberedStays ==
  ASSUME NEW g, NEW S, NEW c, NEW d, NEW n, Numbered(g, S, c, n), \A u \in S : d[u] = c[u]
  PROVE  Numbered(g, S, d, n)
BY DEF Numbered

(* One component more.                                                     *)
LEMMA NumberedGrows ==
  ASSUME NEW g, IsDigraph(g), Symmetric(g), NEW S, NEW c, NEW n \in Nat,
         Numbered(g, S, c, n), NEW r \in DOMAIN g \ S,
         \A u \in Reached(g, {r}) : c[u] = n
  PROVE  /\ Numbered(g, S \cup Reached(g, {r}), c, n + 1)
         /\ S \cap Reached(g, {r}) = {}
<1> DEFINE R == Reached(g, {r})
<1>1. r \in R /\ R \subseteq DOMAIN g /\ \A u \in R : g[u] \subseteq R
  BY Reaching
<1>2. \A u \in R : Reached(g, {u}) = R
  BY ReachesBack
<1>3. /\ S \subseteq DOMAIN g /\ (\A u \in S : g[u] \subseteq S)
      /\ (\A u \in S : c[u] \in 0 .. n - 1)
      /\ (\A u, v \in S : c[u] = c[v] <=> v \in Reached(g, {u}))
      /\ (\A i \in 0 .. n - 1 : \E u \in S : c[u] = i)
  BY DEF Numbered
<1>4. ASSUME NEW u \in S PROVE u \in Reached(g, {u}) /\ Reached(g, {u}) \subseteq S
  BY <1>3, Reaching
<1>5. S \cap R = {}
  <2> SUFFICES ASSUME NEW u \in S, u \in R PROVE FALSE
    OBVIOUS
  <2>1. r \in Reached(g, {u})
    BY <1>1, <1>2
  <2> QED
    BY <1>4, <2>1
<1> HIDE DEF R
<1>6. \A u \in S \cup R : c[u] \in 0 .. (n + 1) - 1
  <2>1. \A u \in R : c[u] = n
    BY DEF R
  <2> QED
    BY <1>3, <2>1
<1>7. \A u \in S \cup R : g[u] \subseteq S \cup R
  BY <1>1, <1>3
<1>8. ASSUME NEW u \in S \cup R, NEW v \in S \cup R
      PROVE  c[u] = c[v] <=> v \in Reached(g, {u})
  <2>1. CASE u \in S /\ v \in S
    BY <1>3, <2>1
  <2>2. CASE u \in S /\ v \in R
    <3>1. c[u] \in 0 .. n - 1 /\ c[v] = n
      BY <1>3, <2>2 DEF R
    <3>2. v \notin Reached(g, {u})
      BY <1>4, <1>5, <2>2
    <3> QED
      BY <3>1, <3>2
  <2>3. CASE u \in R /\ v \in S
    <3>1. c[v] \in 0 .. n - 1 /\ c[u] = n
      BY <1>3, <2>3 DEF R
    <3>2. v \notin Reached(g, {u})
      BY <1>2, <1>5, <2>3
    <3> QED
      BY <3>1, <3>2
  <2>4. CASE u \in R /\ v \in R
    <3>1. c[v] = n /\ c[u] = n
      BY <2>4 DEF R
    <3> QED
      BY <1>2, <2>4, <3>1
  <2> QED
    BY <2>1, <2>2, <2>3, <2>4
<1>9. ASSUME NEW i \in 0 .. (n + 1) - 1 PROVE \E u \in S \cup R : c[u] = i
  <2>1. CASE i = n
    <3>1. c[r] = n
      BY <1>1 DEF R
    <3> QED
      BY <1>1, <2>1, <3>1
  <2>2. CASE i # n
    <3>1. i \in 0 .. n - 1
      BY <2>2
    <3> QED
      BY <1>3, <3>1
  <2> QED
    BY <2>1, <2>2
<1>10. S \cup R \subseteq DOMAIN g
  BY <1>1, <1>3
<1> QED
  BY <1>5, <1>6, <1>7, <1>8, <1>9, <1>10 DEF Numbered, R

(* The filter a lets all nodes of g in, at all distances.                  *)
EntersAll(g, a) == (DOMAIN g) \X (0 .. Cardinality(DOMAIN g)) \subseteq a

(* A visit that enters every node and has emptied a level has met what is  *)
(* reached from its root.                                                  *)
LEMMA VisitMeets ==
  ASSUME NEW g, IsDigraph(g), Symmetric(g),
         NEW o \in SUBSET DOMAIN g, \A u \in o : g[u] \subseteq o,
         NEW r \in DOMAIN g \ o,
         NEW a, EntersAll(g, a),
         NEW L, LevelByLevel(g, {r}, o, a, L), Layered(g, L), NEW d \in DOMAIN L, L[d] = {}
  PROVE  \A x : x \in Reached(g, {r}) <=> \E e \in DOMAIN L : x \in L[e]
<1> DEFINE N == Cardinality(DOMAIN g)
           M == UNION {L[e] : e \in DOMAIN L}
<1>1. N \in Nat
  BY FS_CardinalityType DEF IsDigraph
<1>2. /\ DOMAIN L = 0 .. N /\ \A e \in DOMAIN L : L[e] \subseteq DOMAIN g
      /\ \A e \in DOMAIN L \ {0} : L[e] \subseteq Image(g, L[e - 1])
      /\ \A e \in DOMAIN L \ {0} :
           L[e] = {x \in Image(g, L[e - 1]) \ (o \cup Before(L, e)) : <<x, e>> \in a}
      /\ L[0] = {x \in {r} \ o : <<x, 0>> \in a}
  BY DEF Layered, LevelByLevel
<1>3. L[0] = {r}
  <2>1. 0 \in 0 .. N
    BY <1>1
  <2>2. <<r, 0>> \in a
    BY <2>1 DEF EntersAll
  <2> QED
    BY <1>2, <2>2
<1>4. \A e \in DOMAIN L : L[e] \cap o = {}
  <2>1. L[0] \cap o = {}
    BY <1>2
  <2>2. \A e \in DOMAIN L \ {0} : L[e] \cap o = {}
    BY <1>2
  <2> QED
    BY <2>1, <2>2
<1>5. M \subseteq DOMAIN g /\ M \cap o = {} /\ r \in M
  <2>1. 0 \in DOMAIN L
    <3>1. DOMAIN L = 0 .. N
      BY <1>2
    <3> HIDE DEF N
    <3> QED
      BY <1>1, <3>1
  <2>2. r \in L[0]
    BY <1>3
  <2>3. r \in M
    BY <2>1, <2>2, Zenon
  <2>4. M \subseteq DOMAIN g /\ M \cap o = {}
    <3>1. ASSUME NEW x \in M PROVE x \in DOMAIN g /\ x \notin o
      <4>1. PICK e \in DOMAIN L : x \in L[e]
        OBVIOUS
      <4>2. L[e] \subseteq DOMAIN g /\ L[e] \cap o = {}
        BY <1>4, <1>2
      <4> QED
        BY <4>1, <4>2
    <3> QED
      BY <3>1
  <2> QED
    BY <2>3, <2>4
<1>6. \A e \in DOMAIN L : d <= e => L[e] = {}
  BY EmptyBelow
<1>7. ASSUME NEW u \in M, NEW s \in g[u] PROVE s \in M
  <2>1. PICK e \in DOMAIN L : u \in L[e]
    OBVIOUS
  <2>2. e \in 0 .. N /\ e + 1 \in 0 .. N /\ (e + 1) - 1 = e /\ e + 1 # 0
    <3>1. ~(d <= e)
      BY <1>6, <2>1
    <3>2. e \in 0 .. N /\ d \in 0 .. N
      BY <1>2
    <3> HIDE DEF N
    <3> QED
      BY <1>1, <3>1, <3>2
  <2>3. u \in DOMAIN g /\ s \in DOMAIN g /\ u \in g[s]
    BY <1>5, <1>7 DEF IsDigraph, Symmetric
  <2>4. s \notin o
    BY <1>5, <2>3
  <2>5. s \in Image(g, L[(e + 1) - 1])
    BY <1>7, <2>1, <2>2 DEF Image
  <2>6. <<s, e + 1>> \in a
    BY <2>2, <2>3 DEF EntersAll
  <2> DEFINE f == e + 1
  <2>7. s \in Before(L, f) \/ s \in L[f]
    <3>1. /\ f \in DOMAIN L \ {0} /\ s \in Image(g, L[f - 1])
          /\ <<s, f>> \in a /\ s \notin o
      BY <1>2, <2>2, <2>4, <2>5, <2>6
    <3> HIDE DEF f
    <3>2. L[f] = {x \in Image(g, L[f - 1]) \ (o \cup Before(L, f)) : <<x, f>> \in a}
      BY <1>2, <3>1
    <3> QED
      BY <3>1, <3>2
  <2>8. CASE s \in Before(L, e + 1)
    <3>1. PICK c \in 0 .. (e + 1) - 1 : s \in L[c]
      BY <2>8 DEF Before
    <3>2. c \in DOMAIN L
      BY <1>1, <1>2, <2>2, <3>1
    <3> QED
      BY <3>1, <3>2
  <2>9. CASE s \in L[e + 1]
    BY <1>2, <2>2, <2>9
  <2> QED
    BY <2>7, <2>8, <2>9
<1> DEFINE R == Reached(g, {r})
<1>8. r \in R /\ R \subseteq DOMAIN g /\ (\A u \in R : g[u] \subseteq R) /\ R \subseteq M
  <2>1. r \in R /\ R \subseteq DOMAIN g /\ (\A u \in R : g[u] \subseteq R)
    BY Reaching
  <2>2. \A C \in SUBSET DOMAIN g :
          r \in C /\ (\A v \in C : g[v] \subseteq C) => R \subseteq C
    BY Reaching
  <2>3. M \in SUBSET DOMAIN g /\ r \in M /\ \A v \in M : g[v] \subseteq M
    BY <1>5, <1>7
  <2> HIDE DEF M, R
  <2> QED
    BY <2>1, <2>2, <2>3
<1>9. \A e \in DOMAIN L : L[e] \subseteq R
  <2> DEFINE T == {e \in DOMAIN L : ~(L[e] \subseteq R)}
  <2> SUFFICES ASSUME T # {} PROVE FALSE
    OBVIOUS
  <2>1. T \subseteq Nat
    BY <1>1, <1>2
  <2>2. Min(T) \in T /\ \A e \in T : Min(T) <= e
    BY <2>1, MinOfNat
  <2> DEFINE m == Min(T)
  <2> HIDE DEF R
  <2>3. m \in DOMAIN L /\ ~(L[m] \subseteq R) /\ \A e \in T : m <= e
    BY <2>2
  <2> HIDE DEF m
  <2>4. m # 0 /\ m - 1 \in DOMAIN L /\ ~(m <= m - 1)
    <3>1. m \in 0 .. N /\ m # 0
      BY <1>2, <1>3, <1>8, <2>3
    <3> HIDE DEF N
    <3> QED
      BY <1>1, <1>2, <3>1
  <2>5. L[m - 1] \subseteq R
    BY <2>3, <2>4
  <2>6. Image(g, L[m - 1]) \subseteq R
    BY <1>8, <2>5 DEF Image
  <2>7. L[m] \subseteq Image(g, L[m - 1])
    BY <1>2, <2>3, <2>4
  <2> QED
    BY <2>3, <2>6, <2>7
<1> QED
  BY <1>8, <1>9

(* How symm_par uses the visits: no filter, a callback that always         *)
(* continues, on symmetric graphs.                                         *)
EnterEveryNode ==
  /\ MayStop = FALSE
  /\ \A g \in Graphs : Symmetric(g)
  /\ \A g \in Graphs, f \in Filters : EntersAll(g, f)

(* The nodes of earlier visits are numbered, those this visit has told are *)
(* all given the number to come, and its root was told by an earlier visit *)
(* when it is not entered.                                                 *)
CellsInv ==
  /\ accept \in Filters
  /\ DOMAIN component = Nodes
  /\ number_of_components \in Nat
  /\ visits \in 0 .. Cardinality(Nodes)
BetweenVisits ==
  pc = "idle" =>
    /\ Numbered(graph, visited, component, number_of_components)
    /\ 0 .. visits - 1 \subseteq visited
DuringVisit ==
  pc # "idle" =>
    /\ ~stopped /\ ~done
    /\ visits >= 1 /\ start = {visits - 1}
    /\ Numbered(graph, old, component, number_of_components)
    /\ 0 .. visits - 2 \subseteq old
    /\ \A u \in Nodes \ old : ~Untold(u) => component[u] = number_of_components
    /\ pc # "roots" => visits - 1 \notin old
SymmInv == CellsInv /\ BetweenVisits /\ DuringVisit

LEMMA SymmSteps ==
  /\ SymmInit => Init
  /\ [SymmNext]_symmVars => [Next]_vars
<1>1. Visiting => Next
  BY DEF Visiting, Next, Caller
<1>2. NextNodeVisit => Next
  BY DEF NextNodeVisit, Next, Caller
<1>3. UNCHANGED symmVars => UNCHANGED vars
  BY DEF symmVars
<1> QED
  BY <1>1, <1>2, <1>3 DEF SymmInit, SymmNext

(* The cells a step writes.                                                *)
LEMMA NothingTold ==
  ASSUME ParBfsInv, Callback, told' = told, UNCHANGED <<graph, done>>, CellsInv
  PROVE  /\ DOMAIN component' = Nodes /\ \A u \in Nodes : component'[u] = component[u]
         /\ number_of_components' = number_of_components
<1>1. \A u \in Nodes : ~(Len(told[u]) > Len(told[u]))
  <2> SUFFICES ASSUME NEW u \in Nodes PROVE ~(Len(told[u]) > Len(told[u]))
    OBVIOUS
  <2>1. Len(told[u]) \in Nat
    <3>1. Len(<< >>) = 0
      OBVIOUS
    <3> QED
      BY <3>1 DEF ParBfsInv, ToldInv, OnceEach, Untold
  <2> QED
    BY <2>1
<1>2. component' = [u \in Nodes |-> IF Len(told'[u]) > Len(told[u])
                                   THEN number_of_components ELSE component[u]]
  BY DEF Callback
<1>3. number_of_components' = number_of_components
  BY DEF Callback, SaysDone
<1> QED
  BY <1>1, <1>2, <1>3

LEMMA OneTold ==
  ASSUME ParBfsInv, Callback, NEW x, NEW p, NEW d, TellsOnly(x, p, d),
         UNCHANGED <<graph, done>>
  PROVE  /\ DOMAIN component' = Nodes
         /\ \A u \in Nodes : component'[u] = IF u = x THEN number_of_components
                                             ELSE component[u]
         /\ number_of_components' = number_of_components
<1> DEFINE e == [pred |-> p, distance |-> d]
<1>1. /\ x \in Nodes /\ told[x] = << >>
      /\ \A u \in Nodes : told'[u] = IF u = x THEN <<e>> ELSE told[u]
  BY DEF TellsOnly, Untold
<1> HIDE DEF e
<1>2. Len(<<e>>) = 1 /\ Len(<< >>) = 0
  OBVIOUS
<1>3. \A u \in Nodes : Len(told[u]) \in Nat
  BY <1>2 DEF ParBfsInv, ToldInv, OnceEach, Untold
<1>4. \A u \in Nodes : Len(told'[u]) > Len(told[u]) <=> u = x
  <2> SUFFICES ASSUME NEW u \in Nodes PROVE Len(told'[u]) > Len(told[u]) <=> u = x
    OBVIOUS
  <2>1. CASE u = x
    <3>1. Len(told'[u]) = 1 /\ Len(told[u]) = 0
      BY <1>1, <1>2, <2>1
    <3> QED
      BY <2>1, <3>1
  <2>2. CASE u # x
    <3>1. told'[u] = told[u] /\ Len(told[u]) \in Nat
      BY <1>1, <1>3, <2>2
    <3> QED
      BY <2>2, <3>1
  <2> QED
    BY <2>1, <2>2
<1>5. component' = [u \in Nodes |-> IF Len(told'[u]) > Len(told[u])
                                   THEN number_of_components ELSE component[u]]
  BY DEF Callback
<1>6. number_of_components' = number_of_components
  BY DEF Callback, SaysDone
<1> QED
  BY <1>4, <1>5, <1>6

(* A step within a visit that tells at most one node, not of earlier       *)
(* visits.                                                                 *)
LEMMA WithinVisit ==
  ASSUME ParBfsInv, SymmInv, Callback, pc # "idle", pc' # "idle", ~stopped',
         UNCHANGED <<graph, accept, done, visits, start, old>>,
         \/ told' = told
         \/ \E x, p, d : TellsOnly(x, p, d) /\ x \notin old,
         pc' # "roots" => pc # "roots" \/ visits - 1 \notin old
  PROVE  SymmInv'
<1>1. Nodes' = Nodes
  BY DEF Nodes
<1>2. /\ CellsInv
      /\ ~stopped /\ ~done /\ visits >= 1 /\ start = {visits - 1}
      /\ Numbered(graph, old, component, number_of_components)
      /\ 0 .. visits - 2 \subseteq old
      /\ \A u \in Nodes \ old : ~Untold(u) => component[u] = number_of_components
      /\ pc # "roots" => visits - 1 \notin old
  BY DEF SymmInv, DuringVisit
<1>3. /\ DOMAIN component' = Nodes /\ number_of_components' = number_of_components
      /\ \A u \in old : component'[u] = component[u]
      /\ \A u \in Nodes \ old : told'[u] # << >> => component'[u] = number_of_components
  <2>0. old \subseteq Nodes
    BY <1>2 DEF Numbered, Nodes
  <2>1. CASE told' = told
    BY <1>2, <2>0, <2>1, NothingTold DEF Untold
  <2>2. ASSUME NEW x, NEW p, NEW d, TellsOnly(x, p, d), x \notin old
        PROVE  /\ DOMAIN component' = Nodes /\ number_of_components' = number_of_components
               /\ \A u \in old : component'[u] = component[u]
               /\ \A u \in Nodes \ old :
                    told'[u] # << >> => component'[u] = number_of_components
    <3>1. /\ DOMAIN component' = Nodes /\ number_of_components' = number_of_components
          /\ \A u \in Nodes : component'[u] = IF u = x THEN number_of_components
                                              ELSE component[u]
      BY <2>2, OneTold
    <3>2. \A u \in Nodes \ {x} : told'[u] = told[u]
      BY <2>2 DEF TellsOnly
    <3> QED
      BY <1>2, <2>0, <2>2, <3>1, <3>2 DEF Untold
  <2> QED
    BY <2>1, <2>2
<1>4. Numbered(graph, old, component', number_of_components)
  BY <1>2, <1>3, NumberedStays
<1>5. CellsInv'
  BY <1>1, <1>2, <1>3 DEF CellsInv
<1>6. DuringVisit'
  BY <1>1, <1>2, <1>3, <1>4 DEF DuringVisit, Untold
<1>7. BetweenVisits'
  BY DEF BetweenVisits
<1> QED
  BY <1>5, <1>6, <1>7 DEF SymmInv

LEMMA StartSymm ==
  ASSUME ParBfsInv, VisitInv, SymmInv, NextNodeVisit
  PROVE  SymmInv'
<1>1. /\ pc = "idle" /\ pc' = "roots" /\ ~stopped' /\ ~done' /\ visits' = visits + 1
      /\ old' = visited /\ start' = ToSet(<<visits>>) /\ visits < Cardinality(Nodes)
      /\ UNCHANGED <<graph, accept, told, visited, component, number_of_components>>
  BY DEF NextNodeVisit, StartVisit
<1>2. Nodes' = Nodes
  BY <1>1 DEF Nodes
<1>3. CellsInv /\ Numbered(graph, visited, component, number_of_components)
      /\ 0 .. visits - 1 \subseteq visited
  BY <1>1 DEF SymmInv, BetweenVisits
<1>4. Cardinality(Nodes) \in Nat /\ visits \in Nat
  BY <1>3, LevelNodes DEF ParBfsInv, VisitInv, CellsInv
<1>5. CellsInv'
  BY <1>1, <1>2, <1>3, <1>4 DEF CellsInv
<1>6. start' = {visits}
  <2>1. ToSet(<<visits>>) = {visits}
    BY DEF ToSet
  <2> QED
    BY <1>1, <2>1
<1>7. \A u \in Nodes \ visited : Untold(u)
  BY DEF ParBfsInv, ToldInv, OnceEach
<1>8. visits' - 1 = visits /\ visits' - 2 = visits - 1 /\ visits' >= 1
  BY <1>1, <1>4
<1>9. DuringVisit'
  BY <1>1, <1>2, <1>3, <1>6, <1>7, <1>8 DEF DuringVisit, Untold
<1>10. BetweenVisits'
  BY <1>1 DEF BetweenVisits
<1> QED
  BY <1>5, <1>9, <1>10 DEF SymmInv

LEMMA WorkerSymm ==
  ASSUME EnterEveryNode, ParBfsInv, VisitInv, SymmInv,
         NEW w \in Workers, Worker(w), Callback
  PROVE  SymmInv'
<1>1. /\ Shape /\ LevelsInv /\ FrontierInv /\ ScanInv /\ pc = "scan"
      /\ IsDigraph(graph)
  BY WorkerFrame, LevelNodes DEF ParBfsInv, VisitInv
<1>2. UNCHANGED <<graph, accept, done, visits, start, old, pc>>
  BY WorkerKeeps
<1>3. ~stopped /\ visits - 1 \notin old
  BY <1>1 DEF SymmInv, DuringVisit
<1>4. ~stopped'
  <2>1. Answers = {FALSE}
    BY DEF EnterEveryNode, Answers
  <2>2. ASSUME NEW r, Answer(w, r) PROVE ~stopped'
    BY <1>3, <2>1, <2>2 DEF Answer
  <2>3. UNCHANGED stopped \/ \E r : Answer(w, r)
    BY Zenon DEF Worker, TakeChunk, VisitNode, SwapBit, TellKnown, Discover, NextNode
  <2> QED
    BY <1>3, <2>2, <2>3
<1>5. told' = told \/ \E x, p, d : TellsOnly(x, p, d) /\ x \notin old
  <2>1. levels = Levels(graph, start, old, accept) /\ start \subseteq Nodes
    BY <1>1 DEF LevelsInv
  <2>2. \A d \in DOMAIN levels : levels[d] \cap old = {}
    BY <1>1, <2>1, LevelsLayered DEF Nodes
  <2>3. ASSUME VisitNode(w), TellsOnly(Node(w), Pred(w), distance)
        PROVE  Node(w) \notin old
    <3>1. Busy(w)
      BY <2>3 DEF VisitNode, AtStep, Busy
    <3>2. Node(w) \in levels[distance] /\ distance \in DOMAIN levels
      BY <1>1, <3>1, WorkerArc DEF FrontierInv
    <3> QED
      BY <2>2, <3>2
  <2>4. ASSUME Discover(w), TellsOnly(Succ(w), Node(w), distance + 1)
        PROVE  Succ(w) \notin old
    <3>1. Unknown(w)
      BY <2>4 DEF Discover, AtStep, Unknown
    <3>2. Succ(w) \in levels[distance + 1] /\ distance + 1 \in DOMAIN levels
      BY <1>1, <3>1 DEF ScanInv, ArrivesNext
    <3> QED
      BY <2>2, <3>2
  <2> QED
    BY <2>3, <2>4, WorkerTells
<1> QED
  BY <1>1, <1>2, <1>3, <1>4, <1>5, WithinVisit

LEMMA RootSymm ==
  ASSUME EnterEveryNode, ParBfsInv, VisitInv, SymmInv, TakeRoot, Callback
  PROVE  SymmInv'
<1>1. pc = "roots" /\ UNCHANGED <<graph, accept, done, visits, start, old, stopped>>
  BY DEF TakeRoot, visitVars
<1>2. pc' = "roots"
  BY <1>1 DEF EnterEveryNode, TakeRoot, Answers
<1>3. ~stopped'
  BY <1>1 DEF SymmInv, DuringVisit
<1>4. old \subseteq visited
  BY <1>1 DEF VisitInv, RootsInv
<1>5. told' = told \/ \E x, p, d : TellsOnly(x, p, d) /\ x \notin old
  BY <1>4, RootTells
<1> QED
  BY <1>1, <1>2, <1>3, <1>5, WithinVisit

(* When the roots are taken the visit returns only if an earlier one has   *)
(* met its root.                                                           *)
LEMMA CloseRootsSymm ==
  ASSUME EnterEveryNode, ParBfsInv, VisitInv, SymmInv, CloseRoots, Callback
  PROVE  SymmInv'
<1>1. /\ pc = "roots" /\ roots = << >>
      /\ UNCHANGED <<graph, accept, done, visits, start, old, stopped, told, visited>>
      /\ pc' = IF curr_frontier = << >> THEN "idle" ELSE "level"
  BY DEF CloseRoots, visitVars, EnterEveryNode, Answers
<1>2. /\ Shape /\ LevelsInv /\ RootsInv /\ CellsInv /\ IsDigraph(graph)
      /\ old \subseteq visited /\ visited \subseteq old \cup CurrNodes
      /\ (\A i \in InCurr : Curr(i) \in levels[0])
      /\ levels[0] \subseteq visited \cup ToSet(roots)
  BY <1>1, LevelNodes DEF ParBfsInv, VisitInv, RootsInv, SymmInv
<1>3. /\ ~stopped /\ ~done /\ visits >= 1 /\ start = {visits - 1}
      /\ Numbered(graph, old, component, number_of_components)
      /\ 0 .. visits - 2 \subseteq old
  BY <1>1 DEF SymmInv, DuringVisit
<1>4. levels[0] = {r \in {visits - 1} \ old : <<r, 0>> \in accept}
  <2>1. levels = Levels(graph, start, old, accept) /\ start \subseteq Nodes
    BY <1>1, <1>2 DEF LevelsInv
  <2>2. LevelByLevel(graph, start, old, accept, levels)
    BY <1>2, <2>1, LevelsDef DEF Nodes
  <2> QED
    BY <1>3, <2>2 DEF LevelByLevel
<1>5. Cardinality(Nodes) \in Nat /\ visits \in Nat /\ Nodes = 0 .. Cardinality(Nodes) - 1
  BY <1>2, LevelNodes DEF CellsInv, IsDigraph, Nodes
<1>6. <<visits - 1, 0>> \in accept
  <2>1. visits - 1 \in Nodes /\ 0 \in 0 .. Cardinality(Nodes)
    BY <1>2, <1>3, <1>5 DEF CellsInv
  <2>2. Nodes \X (0 .. Cardinality(Nodes)) \subseteq accept
    BY <1>2 DEF EnterEveryNode, EntersAll, CellsInv, Shape, Nodes
  <2> QED
    BY <2>1, <2>2
<1>7. CASE curr_frontier = << >>
  <2>1. CurrNodes = {} /\ ToSet(roots) = {}
    <3>1. Len(<< >>) = 0 /\ DOMAIN << >> = {}
      OBVIOUS
    <3> QED
      BY <1>1, <1>7, <3>1 DEF CurrNodes, InCurr, ToSet
  <2>2. visited = old /\ levels[0] \subseteq old
    BY <1>2, <2>1
  <2>3. visits - 1 \in old
    BY <1>4, <1>6, <2>2
  <2>4. 0 .. visits - 1 \subseteq visited
    <3>1. 0 .. visits - 1 = (0 .. visits - 2) \cup {visits - 1}
      BY <1>3, <1>5
    <3> QED
      BY <1>3, <2>2, <2>3, <3>1
  <2>5. /\ DOMAIN component' = Nodes /\ \A u \in Nodes : component'[u] = component[u]
        /\ number_of_components' = number_of_components
    BY <1>1, <1>2, NothingTold
  <2>6. old \subseteq Nodes
    BY <1>3 DEF Numbered, Nodes
  <2>7. Numbered(graph, old, component', number_of_components)
    BY <1>3, <2>5, <2>6, NumberedStays
  <2>8. BetweenVisits'
    BY <1>1, <2>2, <2>4, <2>5, <2>7 DEF BetweenVisits
  <2>9. CellsInv'
    BY <1>1, <1>2, <2>5 DEF CellsInv, Nodes
  <2>10. DuringVisit'
    BY <1>1, <1>7 DEF DuringVisit
  <2> QED
    BY <2>8, <2>9, <2>10 DEF SymmInv
<1>8. CASE curr_frontier # << >>
  <2>1. 1 \in InCurr
    BY <1>2, <1>8, EmptySeq, LenProperties DEF Shape, Frontier, InCurr
  <2>2. visits - 1 \notin old
    BY <1>2, <1>4, <2>1
  <2> QED
    BY <1>1, <1>3, <1>8, <2>2, WithinVisit
<1> QED
  BY <1>7, <1>8

LEMMA LevelSymm ==
  ASSUME EnterEveryNode, ParBfsInv, VisitInv, SymmInv, OpenLevel \/ CloseLevel, Callback
  PROVE  SymmInv'
<1>1. /\ pc \in {"level", "scan"}
      /\ UNCHANGED <<graph, accept, done, visits, start, old, told, stopped>>
  BY DEF OpenLevel, CloseLevel, visitVars
<1>2. ~stopped
  BY <1>1 DEF SymmInv, DuringVisit
<1>3. pc' \in {"level", "scan"}
  BY <1>2 DEF OpenLevel, CloseLevel, EnterEveryNode, Answers
<1> QED
  BY <1>1, <1>2, <1>3, WithinVisit

(* When a visit is done it has numbered the component of its root.         *)
LEMMA FinishSymm ==
  ASSUME EnterEveryNode, ParBfsInv, VisitInv, VisitInv', SymmInv, Finish, Callback
  PROVE  SymmInv'
<1>1. /\ pc = "level" /\ curr_frontier = << >> /\ pc' = "idle" /\ done'
      /\ UNCHANGED <<graph, accept, visits, start, old, told, visited, levels>>
  BY DEF Finish, visitVars
<1>2. /\ Shape /\ LevelsInv /\ FrontierInv /\ CellsInv /\ IsDigraph(graph)
      /\ ToldInv
  BY LevelNodes DEF ParBfsInv, VisitInv, SymmInv
<1>3. /\ ~done /\ visits >= 1 /\ start = {visits - 1} /\ visits - 1 \notin old
      /\ Numbered(graph, old, component, number_of_components)
      /\ 0 .. visits - 2 \subseteq old
      /\ \A u \in Nodes \ old : ~Untold(u) => component[u] = number_of_components
  BY <1>1 DEF SymmInv, DuringVisit
<1>4. Cardinality(Nodes) \in Nat /\ visits \in Nat /\ Nodes = 0 .. Cardinality(Nodes) - 1
      /\ number_of_components \in Nat
  BY <1>2, LevelNodes DEF CellsInv, IsDigraph, Nodes
<1> DEFINE r == visits - 1
           M == UNION {levels[d] : d \in DOMAIN levels}
<1>5. r \in DOMAIN graph \ old /\ 0 .. visits - 1 = (0 .. visits - 2) \cup {r}
  BY <1>2, <1>3, <1>4 DEF CellsInv, Nodes
<1>6. distance \in DOMAIN levels /\ levels[distance] = {}
      /\ old \cup UpTo(distance) \subseteq visited
      /\ visited \subseteq old \cup UpTo(distance)
  <2>1. CurrNodes = {}
    <3>1. Len(<< >>) = 0
      OBVIOUS
    <3> QED
      BY <1>1, <3>1 DEF CurrNodes, InCurr
  <2> QED
    BY <1>1, <1>2, <2>1 DEF FrontierInv
<1> HIDE DEF r
<1>7. M = Reached(graph, {r})
  <2>1. EntersAll(graph, accept) /\ Symmetric(graph)
    BY <1>2 DEF EnterEveryNode, CellsInv, Shape
  <2>2. LevelByLevel(graph, {r}, old, accept, levels) /\ Layered(graph, levels)
    <3>1. start \subseteq DOMAIN graph /\ levels = Levels(graph, start, old, accept)
          /\ Layered(graph, levels)
      BY <1>1, <1>2 DEF LevelsInv, Nodes
    <3>2. LevelByLevel(graph, start, old, accept, levels)
      BY <1>2, <3>1, LevelsDef
    <3> QED
      BY <1>3, <3>1, <3>2 DEF r
  <2>3. old \in SUBSET DOMAIN graph /\ \A u \in old : graph[u] \subseteq old
    BY <1>3 DEF Numbered
  <2>4. distance \in DOMAIN levels /\ levels[distance] = {}
        /\ r \in DOMAIN graph \ old /\ IsDigraph(graph)
    BY <1>2, <1>5, <1>6
  <2>5. \A x : x \in Reached(graph, {r}) <=> \E d \in DOMAIN levels : x \in levels[d]
    BY <2>1, <2>2, <2>3, <2>4, VisitMeets
  <2> QED
    BY <2>5
<1>8. M \subseteq Nodes /\ M \cap old = {}
  <2>1. levels = Levels(graph, start, old, accept) /\ start \subseteq Nodes
    BY <1>1, <1>2 DEF LevelsInv
  <2>2. \A d \in DOMAIN levels : levels[d] \cap old = {} /\ levels[d] \subseteq Nodes
    BY <1>2, <2>1, LevelsLayered, LevelNodes DEF Nodes
  <2>3. ASSUME NEW u \in M PROVE u \in Nodes /\ u \notin old
    <3>1. PICK d \in DOMAIN levels : u \in levels[d]
      OBVIOUS
    <3> QED
      BY <2>2, <3>1
  <2> QED
    BY <2>3
<1>9. \A u \in M : ~Untold(u)
  <2>1. \A d \in DOMAIN levels : \A u \in levels[d] : told[u] # << >>
    BY <1>1 DEF VisitInv, SizesInv, DoneIsComplete
  <2>2. ASSUME NEW u \in M PROVE told[u] # << >>
    <3>1. PICK d \in DOMAIN levels : u \in levels[d]
      OBVIOUS
    <3> QED
      BY <2>1, <3>1
  <2> QED
    BY <2>2 DEF Untold
<1>10. visited = old \cup M
  <2>1. visited \subseteq old \cup M
    BY <1>2 DEF LevelsInv
  <2>2. ASSUME NEW u \in M PROVE u \in visited
    BY <1>2, <1>8, <1>9 DEF ToldInv, OnceEach
  <2> QED
    BY <1>6, <2>1, <2>2
<1> HIDE DEF M
<1>11. DOMAIN component' = Nodes /\ (\A u \in Nodes : component'[u] = component[u])
       /\ number_of_components' = number_of_components + 1
  <2>1. \A u \in Nodes : ~(Len(told[u]) > Len(told[u]))
    <3> SUFFICES ASSUME NEW u \in Nodes PROVE ~(Len(told[u]) > Len(told[u]))
      OBVIOUS
    <3>1. Len(told[u]) \in Nat
      <4>1. Len(<< >>) = 0
        OBVIOUS
      <4> QED
        BY <1>2, <4>1 DEF ToldInv, OnceEach, Untold
    <3> QED
      BY <3>1
  <2>2. component' = [u \in Nodes |-> IF Len(told'[u]) > Len(told[u])
                                     THEN number_of_components ELSE component[u]]
    BY DEF Callback
  <2>3. number_of_components' = number_of_components + 1
    BY <1>1, <1>3 DEF Callback, SaysDone
  <2> QED
    BY <1>1, <2>1, <2>2, <2>3
<1>12. Numbered(graph, visited, component, number_of_components + 1)
  <2>1. \A u \in M : component[u] = number_of_components
    BY <1>3, <1>8, <1>9
  <2>2. Symmetric(graph)
    BY <1>2 DEF EnterEveryNode, Shape
  <2> QED
    BY <1>2, <1>3, <1>4, <1>5, <1>7, <1>10, <2>1, <2>2, NumberedGrows
<1>13. Numbered(graph, visited, component', number_of_components + 1)
  <2>1. visited \subseteq Nodes
    BY <1>12 DEF Numbered, Nodes
  <2> QED
    BY <1>11, <1>12, <2>1, NumberedStays
<1>14. 0 .. visits - 1 \subseteq visited
  <2>1. r \in M
    BY <1>2, <1>5, <1>7, Reaching
  <2> QED
    BY <1>3, <1>5, <1>10, <2>1
<1>15. BetweenVisits'
  BY <1>1, <1>11, <1>13, <1>14 DEF BetweenVisits
<1>16. CellsInv'
  BY <1>1, <1>2, <1>4, <1>11 DEF CellsInv, Nodes
<1>17. DuringVisit'
  BY <1>1 DEF DuringVisit
<1> QED
  BY <1>15, <1>16, <1>17 DEF SymmInv

-----------------------------------------------------------------------------
LEMMA InitSymm == SymmInit => SymmInv
<1> SUFFICES ASSUME SymmInit PROVE SymmInv
  OBVIOUS
<1>1. /\ graph \in Graphs /\ accept \in Filters /\ visits = 0 /\ visited = {} /\ pc = "idle"
      /\ component = [u \in Nodes |-> Unwritten] /\ number_of_components = 0
  BY DEF SymmInit, Init
<1>2. Cardinality(Nodes) \in Nat
  BY <1>1, ParBfsAssumption, FS_CardinalityType DEF IsDigraph, Nodes
<1>3. Numbered(graph, {}, component, 0)
  BY DEF Numbered
<1> QED
  BY <1>1, <1>2, <1>3 DEF SymmInv, CellsInv, BetweenVisits, DuringVisit

LEMMA NextSymm ==
  ASSUME EnterEveryNode
  PROVE  /\ ParBfsInv /\ VisitInv /\ VisitInv' /\ SymmInv /\ [SymmNext]_symmVars
         => SymmInv'
<1> SUFFICES ASSUME ParBfsInv, VisitInv, VisitInv', SymmInv, [SymmNext]_symmVars
             PROVE  SymmInv'
  OBVIOUS
<1>1. CASE NextNodeVisit
  BY <1>1, StartSymm
<1>2. CASE Visiting
  <2>1. Callback
    BY <1>2 DEF Visiting
  <2>2. CASE \E w \in Workers : Worker(w)
    BY <2>1, <2>2, WorkerSymm
  <2>3. CASE TakeRoot
    BY <2>1, <2>3, RootSymm
  <2>4. CASE CloseRoots
    BY <2>1, <2>4, CloseRootsSymm
  <2>5. CASE OpenLevel \/ CloseLevel
    BY <2>1, <2>5, LevelSymm
  <2>6. CASE Finish
    BY <2>1, <2>6, FinishSymm
  <2> QED
    BY <1>2, <2>2, <2>3, <2>4, <2>5, <2>6 DEF Visiting
<1>3. CASE UNCHANGED symmVars
  BY <1>3 DEF symmVars, vars, visitVars, mine, SymmInv, CellsInv, BetweenVisits,
              DuringVisit, Nodes, Untold
<1> QED
  BY <1>1, <1>2, <1>3 DEF SymmNext

LEMMA SymmIsExact == ParBfsInv /\ SymmInv => ComponentsExact
<1> SUFFICES ASSUME ParBfsInv, SymmInv, Finished PROVE ComponentsExact
  BY DEF ComponentsExact
<1>1. /\ pc = "idle" /\ visits = Cardinality(Nodes) /\ IsDigraph(graph)
      /\ DOMAIN component = Nodes
      /\ Numbered(graph, visited, component, number_of_components)
      /\ 0 .. visits - 1 \subseteq visited
  BY ParBfsAssumption DEF Finished, ParBfsInv, Shape, SymmInv, CellsInv, BetweenVisits
<1>2. visited = Nodes
  BY <1>1 DEF Numbered, IsDigraph, Nodes
<1>3. \A u, v \in Nodes : component[u] = component[v] <=> v \in Reached(graph, {u})
  BY <1>1, <1>2 DEF Numbered
<1>4. Range(component) = 0 .. number_of_components - 1
  BY <1>1, <1>2 DEF Numbered, Range
<1> QED
  BY <1>3, <1>4 DEF ComponentsExact

(* symm_par numbers the connected components, and densely, on every        *)
(* symmetric graph, with any number of threads, in chunks of any size and  *)
(* however the threads share the levels: no cell is left unwritten when    *)
(* they are assumed to be initialised (symm_par.rs:70).                    *)
THEOREM ParallelComponentsExact ==
  ASSUME EnterEveryNode
  PROVE  SymmSpec => []ComponentsExact
<1>1. SymmInit => ParBfsInv /\ VisitInv /\ SymmInv
  BY SymmSteps, InitParBfsInv, InitVisitInv, InitSymm
<1>2. (ParBfsInv /\ VisitInv /\ SymmInv) /\ [SymmNext]_symmVars
        => (ParBfsInv /\ VisitInv /\ SymmInv)'
  BY SymmSteps, NextParBfsInv, NextVisitInv, NextSymm
<1>3. ParBfsInv /\ SymmInv => ComponentsExact
  BY SymmIsExact
<1> QED
  BY <1>1, <1>2, <1>3, PTL DEF SymmSpec


----------------------------------------------------------------------------
(* A queue that lists the set F, each member once; and one with a          *)
(* separator between the sets F and B.                                     *)
OneLevel(q, F) ==
  /\ q \in Seq(F)
  /\ \A x \in F : \E i \in 1 .. Len(q) : q[i] = x
  /\ \A i, j \in 1 .. Len(q) : q[i] = q[j] => i = j
SeparatedAt(q, k, F, B) ==
  /\ \A i \in 1 .. Len(q) :
       IF i = k THEN q[i] = -1 ELSE IF i < k THEN q[i] \in F ELSE q[i] \in B
  /\ \A x \in F : \E i \in 1 .. Len(q) : i < k /\ q[i] = x
  /\ \A x \in B : \E i \in 1 .. Len(q) : k < i /\ q[i] = x
TwoLevels(q, F, B) ==
  /\ q \in Seq(F \cup B \cup {-1})
  /\ \E k \in 1 .. Len(q) : SeparatedAt(q, k, F, B)
  /\ \A i, j \in 1 .. Len(q) : q[i] = q[j] => i = j

LEMMA OneLevelBegins == OneLevel(<< >>, {})
<1>1. << >> \in Seq({}) /\ Len(<< >>) = 0
  OBVIOUS
<1> QED
  BY <1>1 DEF OneLevel

LEMMA OneLevelGrows ==
  ASSUME NEW q, NEW F, OneLevel(q, F), NEW x, x \notin F
  PROVE  OneLevel(Append(q, x), F \cup {x})
<1> DEFINE G == F \cup {x}
           t == Append(q, x)
           n == Len(q)
<1>1. q \in Seq(F) /\ q \in Seq(G)
  BY SeqMonotonic DEF OneLevel
<1>2. t \in Seq(G) /\ Len(t) = n + 1 /\ n \in Nat
      /\ (\A i \in 1 .. n : t[i] = q[i] /\ q[i] \in F) /\ t[n + 1] = x
  BY <1>1, AppendProperties, LenProperties, ElementOfSeq
<1> HIDE DEF t, n
<1>3. \A y \in G : \E i \in 1 .. Len(t) : t[i] = y
  <2>1. \A y \in F : \E i \in 1 .. n : q[i] = y
    BY DEF OneLevel, n
  <2>2. \A i \in 1 .. n : i \in 1 .. Len(t) /\ t[i] = q[i]
    BY <1>2
  <2>3. n + 1 \in 1 .. Len(t) /\ t[n + 1] = x
    BY <1>2
  <2> QED
    BY <2>1, <2>2, <2>3
<1>4. \A i, j \in 1 .. n : q[i] = q[j] => i = j
  BY DEF OneLevel, n
<1>5. \A i, j \in 1 .. Len(t) : t[i] = t[j] => i = j
  BY <1>2, <1>4
<1> QED
  BY <1>2, <1>3, <1>5 DEF OneLevel, t

LEMMA OneLevelSize ==
  ASSUME NEW q, NEW F, OneLevel(q, F)
  PROVE  Len(q) \in Nat /\ Cardinality(F) = Len(q) /\ (q = << >> <=> F = {})
<1> DEFINE n == Len(q)
           f == [i \in 1 .. n |-> q[i]]
<1>1. n \in Nat /\ \A i \in 1 .. n : q[i] \in F
  BY LenProperties, ElementOfSeq DEF OneLevel
<1>2. IsFiniteSet(1 .. n) /\ Cardinality(1 .. n) = n
  BY <1>1, CountFromOne
<1>3. f \in Bijection(1 .. n, F)
  <2>1. f \in [1 .. n -> F]
    BY <1>1
  <2>2. /\ \A u \in F : \E i \in 1 .. n : f[i] = u
        /\ \A i, j \in 1 .. n : f[i] = f[j] => i = j
    BY DEF OneLevel
  <2> HIDE DEF f
  <2> QED
    BY <2>1, <2>2 DEF Bijection, Injection, Surjection, IsInjective
<1>4. Cardinality(F) = n
  BY <1>2, <1>3, FS_Bijection DEF ExistsBijection
<1>5. q = << >> <=> F = {}
  <2>1. q = << >> => n = 0
    BY EmptySeq
  <2>2. q # << >> => n \in Nat \ {0}
    BY EmptySeq DEF OneLevel
  <2>3. n = 0 => F = {}
    BY DEF OneLevel
  <2>4. n \in Nat \ {0} => F # {}
    BY <1>1
  <2> QED
    BY <2>1, <2>2, <2>3, <2>4
<1> QED
  BY <1>1, <1>4, <1>5

(* A separator after a level.                                              *)
LEMMA SeparatorAfter ==
  ASSUME NEW q, NEW F, OneLevel(q, F), F \subseteq Nat
  PROVE  TwoLevels(Append(q, -1), F, {})
<1> DEFINE G == F \cup {-1}
           t == Append(q, -1)
           n == Len(q)
<1>1. OneLevel(t, G)
  BY OneLevelGrows
<1>2. q \in Seq(F) /\ q \in Seq(G)
  BY SeqMonotonic DEF OneLevel
<1>3. t \in Seq(G) /\ Len(t) = n + 1 /\ n \in Nat
      /\ (\A i \in 1 .. n : t[i] = q[i] /\ q[i] \in F) /\ t[n + 1] = -1
  BY <1>2, AppendProperties, LenProperties, ElementOfSeq
<1>4. \A y \in F : \E i \in 1 .. n : q[i] = y
  BY DEF OneLevel
<1> HIDE DEF t, n
<1>5. SeparatedAt(t, n + 1, F, {})
  <2>1. \A i \in 1 .. Len(t) : i = n + 1 \/ (i < n + 1 /\ t[i] \in F)
    BY <1>3
  <2>2. \A i \in 1 .. n : i \in 1 .. Len(t) /\ i < n + 1 /\ t[i] = q[i]
    BY <1>3
  <2> QED
    BY <1>3, <1>4, <2>1, <2>2 DEF SeparatedAt
<1>6. n + 1 \in 1 .. Len(t) /\ t \in Seq(F \cup {} \cup {-1})
  BY <1>3
<1>7. \A i, j \in 1 .. Len(t) : t[i] = t[j] => i = j
  BY <1>1 DEF OneLevel
<1> QED
  BY <1>5, <1>6, <1>7 DEF TwoLevels, t

(* One node more behind the separator.                                     *)
LEMMA BackGrows ==
  ASSUME NEW q, NEW F, NEW B, TwoLevels(q, F, B), NEW x \in Nat, x \notin F \cup B
  PROVE  TwoLevels(Append(q, x), F, B \cup {x})
<1> DEFINE G == F \cup (B \cup {x}) \cup {-1}
           t == Append(q, x)
           n == Len(q)
<1>1. q \in Seq(F \cup B \cup {-1}) /\ q \in Seq(G) /\ x \in G
  BY SeqMonotonic DEF TwoLevels
<1>2. t \in Seq(G) /\ Len(t) = n + 1 /\ n \in Nat
      /\ (\A i \in 1 .. n : t[i] = q[i] /\ q[i] \in F \cup B \cup {-1}) /\ t[n + 1] = x
  BY <1>1, AppendProperties, LenProperties, ElementOfSeq
<1>3. PICK k \in 1 .. n : SeparatedAt(q, k, F, B)
  BY DEF TwoLevels
<1>4. \A i, j \in 1 .. n : q[i] = q[j] => i = j
  BY DEF TwoLevels
<1> HIDE DEF t, n
<1>5. \A i \in 1 .. n : i \in 1 .. Len(t)
  BY <1>2
<1>6. SeparatedAt(t, k, F, B \cup {x})
  <2>1. /\ \A i \in 1 .. n :
             IF i = k THEN q[i] = -1 ELSE IF i < k THEN q[i] \in F ELSE q[i] \in B
        /\ \A y \in F : \E i \in 1 .. n : i < k /\ q[i] = y
        /\ \A y \in B : \E i \in 1 .. n : k < i /\ q[i] = y
    BY <1>3 DEF SeparatedAt, n
  <2>2. \A y \in F : \E i \in 1 .. Len(t) : i < k /\ t[i] = y
    BY <1>2, <1>5, <2>1
  <2>3. \A y \in B : \E i \in 1 .. Len(t) : k < i /\ t[i] = y
    BY <1>2, <1>5, <2>1
  <2>4. n + 1 \in 1 .. Len(t) /\ k < n + 1 /\ t[n + 1] = x
    BY <1>2, <1>3
  <2>5. \A i \in 1 .. Len(t) :
          IF i = k THEN t[i] = -1 ELSE IF i < k THEN t[i] \in F ELSE t[i] \in B \cup {x}
    <3> SUFFICES ASSUME NEW i \in 1 .. Len(t)
                 PROVE  IF i = k THEN t[i] = -1
                        ELSE IF i < k THEN t[i] \in F ELSE t[i] \in B \cup {x}
      OBVIOUS
    <3>1. i \in 1 .. n \/ i = n + 1
      BY <1>2
    <3> QED
      BY <1>2, <2>1, <2>4, <3>1
  <2> QED
    BY <2>2, <2>3, <2>4, <2>5 DEF SeparatedAt
<1>7. \A i, j \in 1 .. Len(t) : t[i] = t[j] => i = j
  <2>1. \A i \in 1 .. n : t[i] # x
    BY <1>2
  <2>2. \A i \in 1 .. Len(t) : i \in 1 .. n \/ i = n + 1
    BY <1>2
  <2> QED
    BY <1>2, <1>4, <2>1, <2>2
<1>8. k \in 1 .. Len(t)
  BY <1>3, <1>5
<1> QED
  BY <1>2, <1>6, <1>7, <1>8 DEF TwoLevels, t


----------------------------------------------------------------------------
LEMMA TailPositions ==
  ASSUME NEW S, NEW q \in Seq(S), q # << >>
  PROVE  /\ Len(q) \in Nat \ {0} /\ Head(q) = q[1] /\ Head(q) \in S
         /\ Tail(q) \in Seq(S) /\ Len(Tail(q)) = Len(q) - 1
         /\ \A i \in 1 .. Len(q) - 1 : Tail(q)[i] = q[i + 1]
         /\ \A i \in 2 .. Len(q) : q[i] = Tail(q)[i - 1]
<1>1. Len(q) \in Nat \ {0} /\ Head(q) = q[1]
  BY EmptySeq
<1>2. /\ Head(q) \in S /\ Tail(q) \in Seq(S) /\ Len(Tail(q)) = Len(q) - 1
      /\ \A i \in 1 .. Len(Tail(q)) : Tail(q)[i] = q[i + 1]
  BY HeadTailProperties
<1>3. ASSUME NEW i \in 2 .. Len(q) PROVE q[i] = Tail(q)[i - 1]
  <2>1. i - 1 \in 1 .. Len(q) - 1 /\ i - 1 + 1 = i
    BY <1>1
  <2> QED
    BY <1>2, <2>1
<1> QED
  BY <1>1, <1>2, <1>3

(* A node popped was in front of the separator.                            *)
LEMMA FrontShrinks ==
  ASSUME NEW q, NEW F, NEW B, TwoLevels(q, F, B), F \cup B \subseteq Nat, Head(q) # -1
  PROVE  Head(q) \in F /\ Head(q) \notin B /\ TwoLevels(Tail(q), F \ {Head(q)}, B)
<1> DEFINE h == Head(q)
           t == Tail(q)
           n == Len(q)
           G == (F \ {h}) \cup B \cup {-1}
<1>1. PICK k \in 1 .. n : SeparatedAt(q, k, F, B)
  BY DEF TwoLevels
<1>2. q # << >>
  BY <1>1, EmptySeq
<1>3. q \in Seq(F \cup B \cup {-1})
  BY DEF TwoLevels
<1>4. /\ n \in Nat \ {0} /\ h = q[1]
      /\ t \in Seq(F \cup B \cup {-1}) /\ Len(t) = n - 1
      /\ \A i \in 1 .. n - 1 : t[i] = q[i + 1]
      /\ \A i \in 2 .. n : q[i] = t[i - 1]
  BY <1>2, <1>3, TailPositions
<1>5. \A i, j \in 1 .. n : q[i] = q[j] => i = j
  BY DEF TwoLevels
<1>6. /\ \A i \in 1 .. n :
           IF i = k THEN q[i] = -1 ELSE IF i < k THEN q[i] \in F ELSE q[i] \in B
      /\ \A y \in F : \E i \in 1 .. n : i < k /\ q[i] = y
      /\ \A y \in B : \E i \in 1 .. n : k < i /\ q[i] = y
  BY <1>1 DEF SeparatedAt
<1>7. h # -1
  OBVIOUS
<1> HIDE DEF h, t, n
<1>8. k \in 2 .. n /\ k - 1 \in 1 .. Len(t) /\ h \in F
  BY <1>1, <1>4, <1>6, <1>7
<1>9. h \notin B
  <2> SUFFICES ASSUME h \in B PROVE FALSE
    OBVIOUS
  <2>1. PICK i \in 1 .. n : k < i /\ q[i] = h
    BY <1>6
  <2>2. i = 1
    BY <1>4, <1>5, <2>1
  <2> QED
    BY <1>1, <2>1, <2>2
<1>10. \A i \in 1 .. Len(t) : i + 1 \in 1 .. n /\ t[i] = q[i + 1] /\ t[i] # h
  BY <1>4, <1>5
<1>11. t \in Seq(G)
  <2>1. \A i \in 1 .. Len(t) : t[i] \in F \cup B \cup {-1}
    BY <1>4, ElementOfSeq
  <2>2. \A i \in 1 .. Len(t) : t[i] \in G
    BY <1>10, <2>1
  <2>3. t \in [1 .. Len(t) -> F \cup B \cup {-1}] /\ Len(t) \in Nat
    BY <1>4, LenProperties
  <2>4. t \in [1 .. Len(t) -> G]
    BY <2>2, <2>3
  <2> QED
    BY <2>3, <2>4
<1>12. SeparatedAt(t, k - 1, F \ {h}, B)
  <2>1. \A i \in 1 .. Len(t) :
          IF i = k - 1 THEN t[i] = -1
          ELSE IF i < k - 1 THEN t[i] \in F \ {h} ELSE t[i] \in B
    <3> SUFFICES ASSUME NEW i \in 1 .. Len(t)
                 PROVE  IF i = k - 1 THEN t[i] = -1
                        ELSE IF i < k - 1 THEN t[i] \in F \ {h} ELSE t[i] \in B
      OBVIOUS
    <3>1. i + 1 \in 1 .. n /\ t[i] = q[i + 1] /\ t[i] # h
      BY <1>10
    <3>2. IF i + 1 = k THEN q[i + 1] = -1
          ELSE IF i + 1 < k THEN q[i + 1] \in F ELSE q[i + 1] \in B
      BY <1>6, <3>1
    <3>3. (i + 1 = k <=> i = k - 1) /\ (i + 1 < k <=> i < k - 1)
      BY <1>8
    <3> QED
      BY <3>1, <3>2, <3>3
  <2>2. ASSUME NEW y \in F \ {h} PROVE \E i \in 1 .. Len(t) : i < k - 1 /\ t[i] = y
    <3>1. PICK i \in 1 .. n : i < k /\ q[i] = y
      BY <1>6
    <3>2. i # 1
      BY <1>4, <3>1
    <3>3. i \in 2 .. n /\ i - 1 \in 1 .. Len(t) /\ i - 1 < k - 1
      BY <1>4, <1>8, <3>1, <3>2
    <3> QED
      BY <1>4, <3>1, <3>3
  <2>3. ASSUME NEW y \in B PROVE \E i \in 1 .. Len(t) : k - 1 < i /\ t[i] = y
    <3>1. PICK i \in 1 .. n : k < i /\ q[i] = y
      BY <1>6
    <3>2. i \in 2 .. n /\ i - 1 \in 1 .. Len(t) /\ k - 1 < i - 1
      BY <1>4, <1>8, <3>1
    <3> QED
      BY <1>4, <3>1, <3>2
  <2> QED
    BY <2>1, <2>2, <2>3 DEF SeparatedAt
<1>13. \A i, j \in 1 .. Len(t) : t[i] = t[j] => i = j
  <2> SUFFICES ASSUME NEW i \in 1 .. Len(t), NEW j \in 1 .. Len(t), t[i] = t[j]
               PROVE  i = j
    OBVIOUS
  <2>1. i + 1 = j + 1
    BY <1>5, <1>10
  <2> QED
    BY <2>1
<1>14. TwoLevels(t, F \ {h}, B)
  BY <1>8, <1>11, <1>12, <1>13 DEF TwoLevels
<1> QED
  BY <1>8, <1>9, <1>14 DEF h, t

(* When the separator is popped the level in front is over, and what is    *)
(* left is the next one.                                                   *)
LEMMA BackAlone ==
  ASSUME NEW q, NEW F, NEW B, TwoLevels(q, F, B), F \cup B \subseteq Nat, Head(q) = -1
  PROVE  F = {} /\ OneLevel(Tail(q), B)
<1> DEFINE t == Tail(q)
           n == Len(q)
<1>1. PICK k \in 1 .. n : SeparatedAt(q, k, F, B)
  BY DEF TwoLevels
<1>2. q # << >>
  BY <1>1, EmptySeq
<1>3. q \in Seq(F \cup B \cup {-1})
  BY DEF TwoLevels
<1>4. /\ n \in Nat \ {0} /\ q[1] = -1
      /\ t \in Seq(F \cup B \cup {-1}) /\ Len(t) = n - 1
      /\ \A i \in 1 .. n - 1 : t[i] = q[i + 1]
      /\ \A i \in 2 .. n : q[i] = t[i - 1]
  BY <1>2, <1>3, TailPositions
<1>5. \A i, j \in 1 .. n : q[i] = q[j] => i = j
  BY DEF TwoLevels
<1>6. /\ \A i \in 1 .. n :
           IF i = k THEN q[i] = -1 ELSE IF i < k THEN q[i] \in F ELSE q[i] \in B
      /\ \A y \in F : \E i \in 1 .. n : i < k /\ q[i] = y
      /\ \A y \in B : \E i \in 1 .. n : k < i /\ q[i] = y
  BY <1>1 DEF SeparatedAt
<1> HIDE DEF t, n
<1>7. k = 1
  BY <1>1, <1>4, <1>5, <1>6
<1>8. F = {}
  BY <1>6, <1>7
<1>9. \A i \in 1 .. Len(t) : i + 1 \in 1 .. n /\ t[i] = q[i + 1] /\ i + 1 # 1
  BY <1>4
<1>10. \A i \in 1 .. Len(t) : t[i] \in B
  <2> SUFFICES ASSUME NEW i \in 1 .. Len(t) PROVE t[i] \in B
    OBVIOUS
  <2>1. i + 1 \in 1 .. n /\ t[i] = q[i + 1] /\ i + 1 # k /\ ~(i + 1 < k)
    BY <1>7, <1>9
  <2> QED
    BY <1>6, <2>1
<1>11. t \in Seq(B)
  <2>1. t \in [1 .. Len(t) -> F \cup B \cup {-1}] /\ Len(t) \in Nat
    BY <1>4, LenProperties
  <2>2. t \in [1 .. Len(t) -> B]
    BY <1>10, <2>1
  <2> QED
    BY <2>1, <2>2
<1>12. ASSUME NEW y \in B PROVE \E i \in 1 .. Len(t) : t[i] = y
  <2>1. PICK i \in 1 .. n : k < i /\ q[i] = y
    BY <1>6
  <2>2. i \in 2 .. n /\ i - 1 \in 1 .. Len(t)
    BY <1>4, <1>7, <2>1
  <2> QED
    BY <1>4, <2>1, <2>2
<1>13. \A i, j \in 1 .. Len(t) : t[i] = t[j] => i = j
  <2> SUFFICES ASSUME NEW i \in 1 .. Len(t), NEW j \in 1 .. Len(t), t[i] = t[j]
               PROVE  i = j
    OBVIOUS
  <2>1. i + 1 = j + 1
    BY <1>5, <1>9
  <2> QED
    BY <2>1
<1> QED
  BY <1>8, <1>11, <1>12, <1>13 DEF OneLevel, t

LEMMA OneSeparatorThere ==
  ASSUME NEW q, NEW F, NEW B, TwoLevels(q, F, B), F \cup B \subseteq Nat
  PROVE  Cardinality({i \in DOMAIN q : q[i] = -1}) = 1 /\ q # << >>
<1>1. PICK k \in 1 .. Len(q) : SeparatedAt(q, k, F, B)
  BY DEF TwoLevels
<1>2. DOMAIN q = 1 .. Len(q)
  BY LenProperties DEF TwoLevels
<1>3. q[k] = -1 /\ \A i, j \in 1 .. Len(q) : q[i] = q[j] => i = j
  BY <1>1 DEF TwoLevels, SeparatedAt
<1>4. {i \in DOMAIN q : q[i] = -1} = {k}
  BY <1>1, <1>2, <1>3
<1>5. q # << >>
  BY <1>1, EmptySeq
<1> QED
  BY <1>4, <1>5, FS_Singleton


----------------------------------------------------------------------------
VARIABLES queue, current, succs, at, yielded
Sqn == INSTANCE SeqBfs

LEMMA SqnOperators ==
  /\ Sqn!Nodes = Nodes
  /\ \A g, s, o, a : Sqn!Levels(g, s, o, a) = Levels(g, s, o, a)
  /\ \A g, u : Sqn!Successors(g, u) = Successors(g, u)
  /\ \A s : Sqn!ToSet(s) = ToSet(s)
  /\ \A s : Sqn!IsInjective(s) = IsInjective(s)
  /\ \A s : Sqn!Cardinality(s) = Cardinality(s)
  /\ \A s : Sqn!Increasing(s) = Increasing(s)
<1>1. Sqn!Nodes = Nodes
  BY DEF Sqn!Nodes, Nodes
<1>2. \A s : Sqn!Cardinality(s) = Cardinality(s)
  BY DEF Sqn!Cardinality, Cardinality
<1>3. \A g, s, o, a : Sqn!Levels(g, s, o, a) = Levels(g, s, o, a)
  BY DEF Sqn!Levels, Levels, Image, Sqn!Image, Cardinality, Sqn!Cardinality
<1>4. \A s : Sqn!Increasing(s) = Increasing(s)
  BY DEF Increasing, Sqn!Increasing, Cardinality, Sqn!Cardinality
<1>5. \A g, u : Sqn!Successors(g, u) = Successors(g, u)
  BY <1>4 DEF Sqn!Successors, Successors
<1>6. \A s : Sqn!ToSet(s) = ToSet(s)
  BY DEF Sqn!ToSet, ToSet
<1>7. \A s : Sqn!IsInjective(s) = IsInjective(s)
  BY DEF Sqn!IsInjective, IsInjective
<1> QED
  BY <1>1, <1>2, <1>3, <1>4, <1>5, <1>6, <1>7

(* What the sequential visit knows.  The levels are those of a visit from  *)
(* the roots of some set S.                                                *)
SeqShape ==
  /\ graph \in Graphs
  /\ roots \in Seq(Nodes) /\ succs \in Seq(Nodes)
  /\ visited \subseteq Nodes
  /\ OnceEach
  /\ Layered(graph, levels)
  /\ \A u \in Nodes : ~Untold(u) => told[u][1].distance \in Nat

LevelsFrom(S) == S \subseteq Nodes /\ levels = Levels(graph, S, old, accept)

(* While roots are taken the queue is the part of the first level marked.  *)
SeqRoots ==
  pc = "roots" =>
    /\ \E S : LevelsFrom(S) /\ ToSet(roots) \subseteq S
    /\ \E F : /\ OneLevel(queue, F)
              /\ F \subseteq levels[0] /\ visited = old \cup F
              /\ \A u \in F : ~Untold(u)
    /\ levels[0] \subseteq visited \cup ToSet(roots)

(* While levels are popped: F is what is left of the level in front of the *)
(* separator, B what has been found of the next one.                       *)
Followed(u, s) ==
  <<s, distance>> \in accept =>
    s \in visited \/ (pc = "arcs" /\ u = current /\ s \in ToSet(succs))
SeqOpen(F, B) ==
  /\ TwoLevels(queue, F, B)
  /\ F \subseteq levels[distance - 1] /\ B \subseteq levels[distance]
  /\ visited = old \cup UpTo(distance - 1) \cup B
  /\ \A u \in B : ~Untold(u)
  /\ pc = "arcs" => /\ current \in levels[distance - 1]
                    /\ ToSet(succs) \subseteq graph[current]
  /\ \A u \in levels[distance - 1] \ F : \A s \in graph[u] : Followed(u, s)
SeqScan ==
  pc \in {"pop", "arcs"} =>
    /\ \E S : LevelsFrom(S)
    /\ distance \in Nat \ {0} /\ distance \in DOMAIN levels
    /\ \A e \in 0 .. distance - 1 : levels[e] # {}
    /\ \A u \in UpTo(distance - 1) : ~Untold(u)
    /\ sizes \in Seq(Nat) /\ Len(sizes) = distance
    /\ \A d \in 1 .. distance : sizes[d] = Cardinality(levels[d - 1])
    /\ \/ \E F, B : SeqOpen(F, B)
       \/ pc = "pop" /\ queue = << >> /\ levels[distance] = {}
SeqDone == done => pc = "idle" /\ Sqn!DoneIsComplete

SeqInv == SeqShape /\ SeqRoots /\ SeqScan /\ SeqDone

LEMMA InitSeq == Sqn!Init => SeqInv
<1> SUFFICES ASSUME Sqn!Init PROVE SeqInv
  OBVIOUS
<1>1. /\ graph \in Graphs /\ visited = {} /\ pc = "idle" /\ roots = << >> /\ succs = << >>
      /\ levels = Levels(graph, {}, {}, {}) /\ told = [u \in Nodes |-> << >>] /\ done = FALSE
  BY SqnOperators DEF Sqn!Init
<1>2. IsDigraph(graph)
  BY <1>1, ParBfsAssumption
<1>3. Layered(graph, levels)
  BY <1>1, <1>2, LevelsLayered
<1>4. \A u \in Nodes : told[u] = << >>
  BY <1>1
<1>5. OnceEach
  BY <1>1, <1>4 DEF OnceEach, Untold
<1>6. << >> \in Seq(Nodes)
  OBVIOUS
<1>7. SeqShape
  BY <1>1, <1>3, <1>4, <1>5, <1>6 DEF SeqShape, Untold
<1> QED
  BY <1>1, <1>7 DEF SeqInv, SeqRoots, SeqScan, SeqDone

LEMMA SeqNodes ==
  ASSUME SeqShape
  PROVE  /\ IsDigraph(graph) /\ Nodes \subseteq Nat
         /\ Cardinality(Nodes) \in Nat /\ DOMAIN levels = 0 .. Cardinality(Nodes)
         /\ \A d \in DOMAIN levels : levels[d] \subseteq Nodes
         /\ \A u \in Nodes : graph[u] \subseteq Nodes
<1>1. IsDigraph(graph)
  BY ParBfsAssumption DEF SeqShape
<1>2. Cardinality(Nodes) \in Nat
  BY <1>1, FS_CardinalityType DEF IsDigraph, Nodes
<1>3. DOMAIN levels = 0 .. Cardinality(Nodes)
      /\ \A d \in DOMAIN levels : levels[d] \subseteq Nodes
  BY DEF SeqShape, Layered, Nodes
<1>4. Nodes \subseteq Nat
  BY <1>1, <1>2 DEF IsDigraph, Nodes
<1>5. \A u \in Nodes : graph[u] \subseteq Nodes
  BY <1>1 DEF IsDigraph, Nodes
<1> QED
  BY <1>1, <1>2, <1>3, <1>4, <1>5


----------------------------------------------------------------------------
(* Telling a node as it is marked.                                         *)
LEMMA SeqTellsOne ==
  ASSUME SeqShape, NEW x \in Nodes, NEW p, NEW d \in Nat, x \notin visited,
         told' = Sqn!Tells(x, p, d), visited' = visited \cup {x},
         UNCHANGED <<graph, levels>>, roots' \in Seq(Nodes), succs' \in Seq(Nodes)
  PROVE  /\ SeqShape' /\ TellsOnly(x, p, d)
         /\ told'[x] # << >> /\ \A u \in Nodes : ~Untold(u) => told'[u] # << >>
<1>1. OnceEach /\ Untold(x) /\ told' = Tells(x, p, d) /\ Nodes' = Nodes
  BY DEF SeqShape, OnceEach, Sqn!Tells, Tells, Nodes
<1>2. TellsOnly(x, p, d)
  BY <1>1, TellOne
<1>3. OnceEach'
  BY <1>1, TellUntold
<1> DEFINE e == [pred |-> p, distance |-> d]
<1>4. e.distance = d
  OBVIOUS
<1>5. \A u \in Nodes : told'[u] = IF u = x THEN <<e>> ELSE told[u]
  BY <1>2 DEF TellsOnly
<1> HIDE DEF e
<1>6. <<e>> # << >> /\ <<e>>[1] = e
  OBVIOUS
<1>7. \A u \in Nodes : told'[u] # << >> => told'[u][1].distance \in Nat
  BY <1>4, <1>5, <1>6 DEF SeqShape, Untold
<1>8. SeqShape'
  BY <1>1, <1>3, <1>7 DEF SeqShape, Untold
<1> QED
  BY <1>2, <1>5, <1>6, <1>8 DEF Untold

(* Steps that leave the levels and what has been told alone.               *)
LEMMA SeqShapeStays ==
  ASSUME SeqShape, UNCHANGED <<graph, levels, told>>, visited \subseteq visited',
         visited' \subseteq Nodes, roots' \in Seq(Nodes), succs' \in Seq(Nodes)
  PROVE  SeqShape'
BY DEF SeqShape, OnceEach, Untold, Nodes

LEMMA SeqShapeForgets ==
  ASSUME SeqShape, UNCHANGED <<graph, levels>>, told' = [u \in Nodes |-> << >>],
         visited' = {}, roots' = roots, succs' = succs
  PROVE  SeqShape'
<1>1. Nodes' = Nodes /\ \A u \in Nodes : told'[u] = << >>
  BY DEF Nodes
<1>2. OnceEach'
  BY <1>1 DEF OnceEach, Untold
<1> QED
  BY <1>1, <1>2 DEF SeqShape, Untold

(* Reset, and the steps of BfsOrder: no visit is under way.                *)
LEMMA SeqQuiet ==
  ASSUME SeqInv,
         \/ Sqn!Reset \/ Sqn!StartOrder \/ Sqn!DropOrder
         \/ Sqn!OrderPanic \/ Sqn!OrderNone \/ Sqn!OrderNext
  PROVE  SeqInv'
<1>1. SeqShape /\ SeqDone
  BY DEF SeqInv
<1>2. CASE Sqn!Reset \/ Sqn!StartOrder
  <2>1. /\ UNCHANGED <<graph, levels, roots, succs>> /\ told' = [u \in Nodes |-> << >>]
        /\ visited' = {} /\ done' = FALSE /\ pc' \in {"idle", "order"}
    BY <1>2, SqnOperators DEF Sqn!Reset, Sqn!StartOrder, Sqn!inputs, Sqn!ghosts
  <2>2. SeqShape'
    BY <1>1, <2>1, SeqShapeForgets
  <2> QED
    BY <2>1, <2>2 DEF SeqInv, SeqRoots, SeqScan, SeqDone
<1>3. CASE Sqn!DropOrder \/ Sqn!OrderPanic \/ Sqn!OrderNone \/ Sqn!OrderNext
  <2>1. /\ UNCHANGED <<graph, levels, roots, succs, told, done>>
        /\ pc = "order" /\ pc' \in {"idle", "order", "panicked"}
    BY <1>3 DEF Sqn!DropOrder, Sqn!OrderPanic, Sqn!OrderNone, Sqn!OrderNext, Sqn!inputs,
                Sqn!ghosts
  <2>2. visited \subseteq visited' /\ visited' \subseteq Nodes
    <3>1. CASE Sqn!OrderNext
      <4>1. PICK u \in Nodes :
              visited' = visited \cup graph[u] \/ visited' = visited \cup {u} \cup graph[u]
        BY <3>1, SqnOperators DEF Sqn!OrderNext
      <4> QED
        BY <1>1, <4>1, SeqNodes DEF SeqShape
    <3>2. CASE ~Sqn!OrderNext
      BY <1>1, <1>3, <3>2 DEF Sqn!DropOrder, Sqn!OrderPanic, Sqn!OrderNone, SeqShape
    <3> QED
      BY <3>1, <3>2
  <2>3. SeqShape'
    BY <1>1, <2>1, <2>2, SeqShapeStays DEF SeqShape
  <2>4. ~done
    BY <1>1, <2>1 DEF SeqDone
  <2> QED
    BY <2>1, <2>3, <2>4 DEF SeqInv, SeqRoots, SeqScan, SeqDone
<1> QED
  BY <1>2, <1>3

LEMMA SeqStart == ASSUME SeqInv, Sqn!StartVisit PROVE SeqInv'
<1>1. SeqShape
  BY DEF SeqInv
<1>2. PICK rs \in RootLists :
        roots' = rs /\ levels' = Levels(graph, ToSet(rs), visited, accept)
  BY SqnOperators DEF Sqn!StartVisit
<1>3. /\ queue' = << >> /\ pc' = "roots" /\ old' = visited /\ done' = FALSE
      /\ UNCHANGED <<graph, accept, visited, succs, told>>
  BY DEF Sqn!StartVisit, Sqn!inputs
<1>4. rs \in Seq(Nodes) /\ ToSet(rs) \subseteq Nodes
  <2>1. rs \in Seq(Nodes)
    BY <1>1, ParBfsAssumption DEF SeqShape, Nodes
  <2> QED
    BY <2>1 DEF ToSet
<1>5. /\ Layered(graph, levels')
      /\ LevelByLevel(graph, ToSet(rs), visited, accept, levels')
  BY <1>1, <1>2, <1>4, SeqNodes, LevelsLayered, LevelsDef DEF Nodes
<1>6. levels'[0] \subseteq ToSet(rs)
  BY <1>5 DEF LevelByLevel
<1>7. Nodes' = Nodes /\ OnceEach'
  BY <1>1, <1>3 DEF Nodes, SeqShape, OnceEach, Untold
<1>8. SeqShape'
  BY <1>1, <1>2, <1>3, <1>4, <1>5, <1>7 DEF SeqShape, Untold
<1>9. LevelsFrom(ToSet(rs))'
  BY <1>2, <1>3, <1>4, <1>7 DEF LevelsFrom
<1>10. OneLevel(queue', {})
  BY <1>3, OneLevelBegins
<1>11. {} \subseteq levels'[0] /\ visited' = old' \cup {} /\ \A u \in {} : told'[u] # << >>
  BY <1>3
<1>12. SeqRoots'
  <2>1. \E S : LevelsFrom(S)' /\ ToSet(roots') \subseteq S
    BY <1>2, <1>9
  <2>2. \E F : /\ OneLevel(queue', F)
               /\ F \subseteq levels'[0] /\ visited' = old' \cup F
               /\ \A u \in F : told'[u] # << >>
    BY <1>10, <1>11
  <2> QED
    BY <1>2, <1>6, <2>1, <2>2 DEF SeqRoots, LevelsFrom, Untold
<1> QED
  BY <1>3, <1>8, <1>12 DEF SeqInv, SeqScan, SeqDone

LEMMA SeqTakeRoot == ASSUME SeqInv, Sqn!TakeRoot PROVE SeqInv'
<1>1. SeqShape /\ SeqRoots /\ SeqDone
  BY DEF SeqInv
<1> DEFINE r == Head(roots)
<1>2. /\ pc = "roots" /\ roots # << >> /\ roots' = Tail(roots) /\ pc' \in {"roots", "idle"}
      /\ UNCHANGED <<graph, accept, levels, old, succs, done>> /\ ~done
  BY <1>1 DEF Sqn!TakeRoot, Sqn!inputs, Sqn!ghosts, Sqn!Unless, SeqDone
<1>3. /\ r \in Nodes /\ Tail(roots) \in Seq(Nodes)
      /\ ToSet(roots) = {r} \cup ToSet(Tail(roots))
  BY <1>1, <1>2, ToSetTail, HeadTailProperties DEF SeqShape
<1>4. PICK S : LevelsFrom(S) /\ ToSet(roots) \subseteq S
  BY <1>1, <1>2 DEF SeqRoots
<1>5. PICK F : /\ OneLevel(queue, F)
               /\ F \subseteq levels[0] /\ visited = old \cup F
               /\ \A u \in F : ~Untold(u)
  BY <1>1, <1>2 DEF SeqRoots
<1>6. LevelByLevel(graph, S, old, accept, levels)
  BY <1>1, <1>4, SeqNodes, LevelsDef DEF LevelsFrom, Nodes
<1>7. r \notin old /\ <<r, 0>> \in accept <=> r \in levels[0]
  BY <1>3, <1>4, <1>6 DEF LevelByLevel
<1>8. levels[0] \subseteq visited \cup ToSet(roots)
  BY <1>1, <1>2 DEF SeqRoots
<1>9. Nodes' = Nodes
  BY <1>2 DEF Nodes
<1>10. LevelsFrom(S)' /\ ToSet(roots') \subseteq S
  BY <1>2, <1>3, <1>4, <1>9 DEF LevelsFrom
<1>11. F \subseteq Nodes
  BY <1>1, <1>5 DEF SeqShape
<1>12. CASE UNCHANGED <<visited, queue, told>>
  <2>1. SeqShape'
    BY <1>1, <1>2, <1>3, <1>12, SeqShapeStays DEF SeqShape
  <2>2. pc' = "roots" => r \in visited \/ <<r, 0>> \notin accept
    <3>1. \/ r \in visited \/ <<r, 0>> \notin accept
          \/ visited' = visited \cup {r} /\ r \notin visited
          \/ pc' = "idle"
      BY DEF Sqn!TakeRoot
    <3> QED
      BY <1>12, <3>1
  <2>3. pc' = "roots" => levels[0] \subseteq visited \cup ToSet(roots')
    BY <1>2, <1>3, <1>7, <1>8, <2>2
  <2>4. SeqRoots'
    BY <1>2, <1>5, <1>10, <1>12, <2>3 DEF SeqRoots, Untold
  <2> QED
    BY <1>2, <2>1, <2>4 DEF SeqInv, SeqScan, SeqDone
<1>13. CASE /\ r \notin visited /\ <<r, 0>> \in accept /\ visited' = visited \cup {r}
            /\ queue' = Append(queue, r) /\ told' = Sqn!Tells(r, r, 0)
  <2>1. r \in levels[0]
    BY <1>5, <1>7, <1>13
  <2>2. /\ SeqShape' /\ told'[r] # << >>
        /\ \A u \in Nodes : ~Untold(u) => told'[u] # << >>
    BY <1>1, <1>2, <1>3, <1>13, SeqTellsOne DEF SeqShape
  <2>3. OneLevel(queue', F \cup {r})
    BY <1>5, <1>13, OneLevelGrows
  <2>4. /\ F \cup {r} \subseteq levels'[0] /\ visited' = old' \cup (F \cup {r})
        /\ \A u \in F \cup {r} : told'[u] # << >>
        /\ levels'[0] \subseteq visited' \cup ToSet(roots')
    BY <1>2, <1>3, <1>5, <1>8, <1>11, <1>13, <2>1, <2>2
  <2>5. SeqRoots'
    <3> HIDE DEF r
    <3>1. \E G : /\ OneLevel(queue', G)
                 /\ G \subseteq levels'[0] /\ visited' = old' \cup G
                 /\ \A u \in G : told'[u] # << >>
      BY <2>3, <2>4
    <3> QED
      BY <1>10, <2>4, <3>1 DEF SeqRoots, Untold
  <2> QED
    BY <1>2, <2>2, <2>5 DEF SeqInv, SeqScan, SeqDone
<1>14. <1>12!1 \/ <1>13!1
  BY DEF Sqn!TakeRoot
<1> QED
  BY <1>12, <1>13, <1>14


----------------------------------------------------------------------------
LEMMA SeqCloseRoots == ASSUME SeqInv, Sqn!CloseRoots PROVE SeqInv'
<1>1. SeqShape /\ SeqRoots /\ SeqDone
  BY DEF SeqInv
<1>2. /\ pc = "roots" /\ roots = << >> /\ ~done
      /\ UNCHANGED <<graph, accept, levels, old, visited, roots, succs, told, done>>
  BY <1>1 DEF Sqn!CloseRoots, Sqn!inputs, Sqn!ghosts, SeqDone
<1>3. SeqShape'
  BY <1>1, <1>2, SeqShapeStays DEF SeqShape
<1>4. CASE pc' = "idle"
  BY <1>2, <1>3, <1>4 DEF SeqInv, SeqRoots, SeqScan, SeqDone
<1>5. CASE pc' # "idle"
  <2>1. /\ queue # << >> /\ pc' = "pop" /\ sizes' = << Len(queue) >>
        /\ queue' = Append(queue, -1) /\ distance' = 1
    BY <1>5 DEF Sqn!CloseRoots, Sqn!Unless, Sqn!None
  <2>2. PICK S : LevelsFrom(S)
    BY <1>1, <1>2 DEF SeqRoots
  <2>3. PICK F : /\ OneLevel(queue, F)
                 /\ F \subseteq levels[0] /\ visited = old \cup F
                 /\ \A u \in F : ~Untold(u)
    BY <1>1, <1>2 DEF SeqRoots
  <2>4. /\ IsDigraph(graph) /\ Nodes \subseteq Nat /\ 0 \in DOMAIN levels
        /\ levels[0] \subseteq Nodes /\ DOMAIN levels = 0 .. Cardinality(Nodes)
    BY <1>1, SeqNodes
  <2>5. levels[0] \cap old = {}
    BY <2>2, <2>4, LevelsLayered DEF LevelsFrom, Nodes
  <2>6. levels[0] = F
    <3>1. ToSet(roots) = {}
      BY <1>2 DEF ToSet
    <3>2. levels[0] \subseteq visited
      BY <1>1, <1>2, <3>1 DEF SeqRoots
    <3> QED
      BY <2>3, <2>5, <3>2
  <2>7. Len(queue) \in Nat /\ Cardinality(F) = Len(queue) /\ F # {}
    BY <2>1, <2>3, OneLevelSize
  <2>8. TwoLevels(queue', F, {})
    BY <2>1, <2>3, <2>4, <2>6, SeparatorAfter
  <2>9. 1 \in DOMAIN levels
    <3>1. \A e \in 0 .. 0 : levels[e] # {}
      BY <2>6, <2>7
    <3>2. 0 + 1 \in DOMAIN levels
      BY <1>1, <2>4, <3>1, LevelBelow DEF SeqShape
    <3> QED
      BY <3>2
  <2>10. 1 - 1 = 0 /\ 0 .. 1 - 1 = {0}
    OBVIOUS
  <2>11. UpTo(0) = levels[0]
    <3>1. 0 .. 0 = {0}
      OBVIOUS
    <3> QED
      BY <3>1 DEF UpTo
  <2>12. /\ sizes' \in Seq(Nat) /\ Len(sizes') = 1
         /\ \A d \in 1 .. 1 : sizes'[d] = Cardinality(levels[d - 1])
    <3>1. sizes' \in Seq(Nat) /\ Len(sizes') = 1 /\ sizes'[1] = Cardinality(levels[0])
      BY <2>1, <2>6, <2>7
    <3> QED
      BY <2>10, <3>1
  <2>13. UpTo(distance - 1)' = UpTo(0) /\ levels'[distance' - 1] = levels[0]
    BY <1>2, <2>1, <2>10 DEF UpTo
  <2>14. SeqOpen(F, {})'
    <3>1. /\ F \subseteq levels'[distance' - 1] /\ {} \subseteq levels'[distance']
          /\ visited' = old' \cup UpTo(distance - 1)' \cup {}
          /\ levels'[distance' - 1] \ F = {} /\ pc' # "arcs"
      BY <1>2, <2>1, <2>3, <2>6, <2>11, <2>13
    <3> QED
      BY <2>8, <3>1 DEF SeqOpen
  <2>15. SeqScan'
    <3>1. LevelsFrom(S)'
      BY <1>2, <2>2 DEF LevelsFrom, Nodes
    <3>2. distance' \in Nat \ {0} /\ distance' \in DOMAIN levels'
      BY <1>2, <2>1, <2>9
    <3>3. \A e \in 0 .. distance' - 1 : levels'[e] # {}
      BY <1>2, <2>1, <2>6, <2>7, <2>10
    <3>4. \A u \in UpTo(distance - 1)' : told'[u] # << >>
      BY <1>2, <2>3, <2>6, <2>11, <2>13 DEF Untold
    <3>5. /\ sizes' \in Seq(Nat) /\ Len(sizes') = distance'
          /\ \A d \in 1 .. distance' : sizes'[d] = Cardinality(levels'[d - 1])
      BY <1>2, <2>1, <2>12
    <3> QED
      BY <2>14, <3>1, <3>2, <3>3, <3>4, <3>5 DEF SeqScan, Untold
  <2> QED
    BY <1>2, <1>3, <2>1, <2>15 DEF SeqInv, SeqRoots, SeqDone
<1> QED
  BY <1>4, <1>5

(* What is known while a level is popped.                                  *)
LEMMA SeqOpenNodes ==
  ASSUME SeqShape, SeqScan, pc \in {"pop", "arcs"}, NEW F, NEW B, SeqOpen(F, B)
  PROVE  /\ F \cup B \subseteq Nat /\ F \cup B \subseteq visited
         /\ levels[distance - 1] \subseteq Nodes /\ levels[distance - 1] \subseteq UpTo(distance - 1)
         /\ levels[distance] =
              {x \in Image(graph, levels[distance - 1]) \ (old \cup UpTo(distance - 1)) :
                 <<x, distance>> \in accept}
         /\ distance - 1 \in DOMAIN levels /\ distance - 1 \in Nat
<1>1. /\ IsDigraph(graph) /\ Nodes \subseteq Nat /\ DOMAIN levels = 0 .. Cardinality(Nodes)
      /\ Cardinality(Nodes) \in Nat /\ \A d \in DOMAIN levels : levels[d] \subseteq Nodes
  BY SeqNodes
<1>2. distance \in Nat \ {0} /\ distance \in DOMAIN levels
  BY DEF SeqScan
<1>3. distance - 1 \in DOMAIN levels /\ distance - 1 \in 0 .. distance - 1
      /\ distance - 1 \in Nat
  BY <1>1, <1>2
<1>4. PICK S : LevelsFrom(S)
  BY DEF SeqScan
<1>5. LevelByLevel(graph, S, old, accept, levels)
  BY <1>1, <1>4, LevelsDef DEF LevelsFrom, Nodes
<1>6. Before(levels, distance) = UpTo(distance - 1)
  BY DEF Before, UpTo
<1>7. levels[distance - 1] \subseteq UpTo(distance - 1)
  BY <1>3 DEF UpTo
<1>8. F \cup B \subseteq Nat /\ F \cup B \subseteq visited
  BY <1>1, <1>2, <1>3, <1>7 DEF SeqOpen
<1>9. levels[distance] =
        {x \in Image(graph, levels[distance - 1]) \ (old \cup Before(levels, distance)) :
           <<x, distance>> \in accept}
  BY <1>2, <1>5 DEF LevelByLevel
<1> QED
  BY <1>1, <1>3, <1>6, <1>7, <1>8, <1>9

(* Steps within a level.                                                   *)
LEMMA SeqWithinLevel ==
  ASSUME SeqInv, pc \in {"pop", "arcs"}, pc' \in {"pop", "arcs"}, SeqShape',
         UNCHANGED <<graph, accept, levels, old, distance, sizes, done>>,
         \A u \in UpTo(distance - 1) : ~Untold(u) => told'[u] # << >>,
         \E F, B : SeqOpen(F, B)'
  PROVE  SeqInv'
<1>1. SeqScan /\ SeqDone
  BY DEF SeqInv
<1>2. PICK S : LevelsFrom(S)
  BY <1>1 DEF SeqScan
<1>3. LevelsFrom(S)'
  BY <1>2 DEF LevelsFrom, Nodes
<1>4. UpTo(distance - 1)' = UpTo(distance - 1)
  BY DEF UpTo
<1>5. SeqScan'
  BY <1>1, <1>3, <1>4 DEF SeqScan, Untold
<1>6. ~done
  BY <1>1 DEF SeqDone
<1> QED
  BY <1>5, <1>6 DEF SeqInv, SeqRoots, SeqDone

LEMMA SeqPopNode == ASSUME SeqInv, Sqn!PopNode PROVE SeqInv'
<1>1. SeqShape /\ SeqScan
  BY DEF SeqInv
<1>2. PICK h : h = Head(queue)
  OBVIOUS
<1>3. /\ pc = "pop" /\ queue # << >> /\ h # -1 /\ current' = h
      /\ succs' = Successors(graph, h) /\ queue' = Tail(queue) /\ pc' = "arcs"
      /\ UNCHANGED <<graph, accept, visited, roots, distance, levels, old, told, sizes, done>>
  BY <1>2, SqnOperators DEF Sqn!PopNode, Sqn!None, Sqn!Popped, Sqn!inputs, Sqn!ghosts
<1>4. PICK F, B : SeqOpen(F, B)
  BY <1>1, <1>3 DEF SeqScan
<1>5. /\ F \cup B \subseteq Nat /\ levels[distance - 1] \subseteq Nodes
  BY <1>1, <1>3, <1>4, SeqOpenNodes
<1>6. h \in F /\ h \notin B /\ TwoLevels(queue', F \ {h}, B)
  BY <1>2, <1>3, <1>4, <1>5, FrontShrinks DEF SeqOpen
<1>7. h \in levels[distance - 1] /\ h \in Nodes
  BY <1>4, <1>5, <1>6 DEF SeqOpen
<1>8. succs' \in Seq(Nodes) /\ ToSet(succs') = graph[h]
  BY <1>1, <1>3, <1>7, GraphLists DEF SeqShape, Nodes
<1>9. SeqShape'
  BY <1>1, <1>3, <1>8, SeqShapeStays DEF SeqShape
<1>10. SeqOpen(F \ {h}, B)'
  <2>1. \A u \in levels[distance - 1] \ F : \A s \in graph[u] :
          <<s, distance>> \in accept => s \in visited
    BY <1>3, <1>4 DEF SeqOpen, Followed
  <2>2. \A u \in levels[distance - 1] \ (F \ {h}) : \A s \in graph[u] :
          <<s, distance>> \in accept => s \in visited \/ (u = h /\ s \in ToSet(succs'))
    BY <1>8, <2>1
  <2>3. UpTo(distance - 1)' = UpTo(distance - 1)
    BY <1>3 DEF UpTo
  <2>4. /\ F \ {h} \subseteq levels[distance - 1] /\ B \subseteq levels[distance]
        /\ visited = old \cup UpTo(distance - 1) \cup B
        /\ \A u \in B : told[u] # << >>
    BY <1>4 DEF SeqOpen, Untold
  <2>5. \A u \in levels'[distance' - 1] \ (F \ {h}) : \A s \in graph'[u] : Followed(u, s)'
    BY <1>3, <2>2 DEF Followed
  <2>6. /\ TwoLevels(queue', F \ {h}, B)
        /\ F \ {h} \subseteq levels'[distance' - 1] /\ B \subseteq levels'[distance']
        /\ visited' = old' \cup UpTo(distance - 1)' \cup B
        /\ \A u \in B : told'[u] # << >>
    BY <1>3, <1>6, <2>3, <2>4
  <2>7. current' \in levels'[distance' - 1] /\ ToSet(succs') \subseteq graph'[current']
    <3>1. graph' = graph /\ levels' = levels /\ distance' = distance /\ current' = h
      BY <1>3
    <3> QED
      BY <1>7, <1>8, <3>1
  <2> QED
    BY <2>5, <2>6, <2>7 DEF SeqOpen, Untold
<1>11. \E G, C : SeqOpen(G, C)'
  BY <1>10
<1>12. \A u \in UpTo(distance - 1) : ~Untold(u) => told'[u] # << >>
  BY <1>3 DEF Untold
<1> QED
  BY <1>3, <1>9, <1>11, <1>12, SeqWithinLevel

LEMMA SeqEndArcs == ASSUME SeqInv, Sqn!EndArcs PROVE SeqInv'
<1>1. SeqShape /\ SeqScan
  BY DEF SeqInv
<1>2. /\ pc = "arcs" /\ succs = << >> /\ pc' = "pop"
      /\ UNCHANGED <<graph, accept, visited, queue, roots, current, succs, distance, levels,
                     old, told, sizes, done>>
  BY DEF Sqn!EndArcs, Sqn!inputs, Sqn!ghosts
<1>3. PICK F, B : SeqOpen(F, B)
  BY <1>1, <1>2 DEF SeqScan
<1>4. ToSet(succs) = {}
  BY <1>2 DEF ToSet
<1>5. SeqOpen(F, B)'
  <2>1. UpTo(distance - 1)' = UpTo(distance - 1)
    BY <1>2 DEF UpTo
  <2> QED
    BY <1>2, <1>3, <1>4, <2>1 DEF SeqOpen, Followed, Untold
<1>6. SeqShape'
  BY <1>1, <1>2, SeqShapeStays DEF SeqShape
<1>7. \E G, C : SeqOpen(G, C)'
  BY <1>5
<1>8. \A u \in UpTo(distance - 1) : ~Untold(u) => told'[u] # << >>
  BY <1>2 DEF Untold
<1> QED
  BY <1>2, <1>6, <1>7, <1>8, SeqWithinLevel


----------------------------------------------------------------------------
(* The separator is popped when the whole next level has been found.       *)
LEMMA LevelFound ==
  ASSUME SeqShape, SeqScan, pc = "pop", NEW F, NEW B, SeqOpen(F, B), Head(queue) = -1
  PROVE  F = {} /\ B = levels[distance] /\ OneLevel(Tail(queue), levels[distance])
<1>1. /\ F \cup B \subseteq Nat
      /\ levels[distance] =
           {x \in Image(graph, levels[distance - 1]) \ (old \cup UpTo(distance - 1)) :
              <<x, distance>> \in accept}
  BY SeqOpenNodes
<1>2. F = {} /\ OneLevel(Tail(queue), B)
  BY <1>1, BackAlone DEF SeqOpen
<1>3. ASSUME NEW x \in levels[distance] PROVE x \in B
  <2>1. /\ x \in Image(graph, levels[distance - 1]) /\ x \notin old \cup UpTo(distance - 1)
        /\ <<x, distance>> \in accept
    BY <1>1
  <2>2. PICK u \in levels[distance - 1] : x \in graph[u]
    BY <2>1 DEF Image
  <2>3. x \in visited
    BY <1>2, <2>1, <2>2 DEF SeqOpen, Followed
  <2> QED
    BY <2>1, <2>3 DEF SeqOpen
<1>4. B = levels[distance]
  BY <1>3 DEF SeqOpen
<1> QED
  BY <1>2, <1>4

LEMMA SeqPopSeparator == ASSUME SeqInv, Sqn!PopSeparator PROVE SeqInv'
<1>1. SeqShape /\ SeqScan /\ SeqDone
  BY DEF SeqInv
<1>2. /\ pc = "pop" /\ queue # << >> /\ Head(queue) = -1 /\ pc' \in {"pop", "idle"}
      /\ UNCHANGED <<graph, accept, visited, roots, succs, levels, old, told, done>>
  BY DEF Sqn!PopSeparator, Sqn!None, Sqn!Unless, Sqn!inputs, Sqn!ghosts
<1>3. SeqShape'
  BY <1>1, <1>2, SeqShapeStays DEF SeqShape
<1>4. ~done
  BY <1>1, <1>2 DEF SeqDone
<1>5. CASE pc' = "idle"
  BY <1>2, <1>3, <1>4, <1>5 DEF SeqInv, SeqRoots, SeqScan, SeqDone
<1>6. CASE pc' # "idle"
  <2>1. PICK F, B : SeqOpen(F, B)
    BY <1>1, <1>2 DEF SeqScan
  <2> DEFINE d == distance
             rest == Tail(queue)
  <2>2. F = {} /\ B = levels[d] /\ OneLevel(rest, levels[d])
    BY <1>1, <1>2, <2>1, LevelFound
  <2>3. /\ d \in Nat \ {0} /\ d \in DOMAIN levels
        /\ (\A e \in 0 .. d - 1 : levels[e] # {}) /\ (\A u \in UpTo(d - 1) : ~Untold(u))
        /\ sizes \in Seq(Nat) /\ Len(sizes) = d
        /\ \A e \in 1 .. d : sizes[e] = Cardinality(levels[e - 1])
    BY <1>1, <1>2 DEF SeqScan
  <2>4. PICK S : LevelsFrom(S)
    BY <1>1, <1>2 DEF SeqScan
  <2>5. LevelsFrom(S)'
    BY <1>2, <2>4 DEF LevelsFrom, Nodes
  <2>6. IsDigraph(graph) /\ levels[d] \subseteq Nat
    BY <1>1, <2>3, SeqNodes
  <2>7. CASE rest = << >>
    <3>1. queue' = << >> /\ UNCHANGED <<pc, sizes, distance>>
      BY <2>7 DEF Sqn!PopSeparator
    <3>2. levels[d] = {}
      BY <2>2, <2>7, OneLevelSize
    <3>3. UpTo(distance - 1)' = UpTo(d - 1)
      BY <1>2, <3>1 DEF UpTo
    <3>4. SeqScan'
      BY <1>2, <2>3, <2>5, <3>1, <3>2, <3>3 DEF SeqScan, Untold
    <3> QED
      BY <1>2, <1>3, <1>4, <3>1, <3>4 DEF SeqInv, SeqRoots, SeqDone
  <2>8. CASE rest # << >>
    <3>1. /\ sizes' = Append(sizes, Len(rest)) /\ distance' = d + 1
          /\ queue' = Append(rest, -1) /\ pc' = "pop"
      BY <1>6, <2>8 DEF Sqn!PopSeparator, Sqn!Separated, Sqn!None, Sqn!Unless
    <3>2. Len(rest) \in Nat /\ Cardinality(levels[d]) = Len(rest) /\ levels[d] # {}
      BY <2>2, <2>8, OneLevelSize
    <3>3. TwoLevels(queue', levels[d], {})
      BY <2>2, <2>6, <3>1, SeparatorAfter
    <3> HIDE DEF rest, d
    <3>4. d \in Nat /\ (d + 1) - 1 = d /\ d + 1 \in Nat \ {0}
          /\ 0 .. (d + 1) - 1 = (0 .. d - 1) \cup {d}
      BY <2>3
    <3>5. \A e \in 0 .. d : levels[e] # {}
      BY <2>3, <3>2, <3>4
    <3>6. d + 1 \in DOMAIN levels
      BY <1>1, <2>3, <2>6, <3>5, LevelBelow DEF SeqShape
    <3>7. UpTo(d) = UpTo(d - 1) \cup levels[d] /\ UpTo(distance - 1)' = UpTo(d)
      <4>1. (d - 1) + 1 = d /\ d - 1 \in Nat
        BY <2>3
      <4>2. UpTo((d - 1) + 1) = UpTo(d - 1) \cup levels[(d - 1) + 1]
        BY <4>1, UpToNext
      <4>3. distance' - 1 = d
        BY <3>1, <3>4
      <4> QED
        BY <1>2, <4>1, <4>2, <4>3 DEF UpTo
    <3>8. \A u \in UpTo(d) : ~Untold(u)
      <4>1. \A u \in levels[d] : ~Untold(u)
        BY <2>1, <2>2 DEF SeqOpen
      <4> QED
        BY <2>3, <3>7, <4>1
    <3>9. /\ sizes' \in Seq(Nat) /\ Len(sizes') = d + 1
          /\ \A e \in 1 .. d : sizes'[e] = sizes[e]
          /\ sizes'[d + 1] = Cardinality(levels[d])
      BY <2>3, <3>1, <3>2, AppendProperties
    <3>10. \A e \in 1 .. d + 1 : sizes'[e] = Cardinality(levels[e - 1])
      <4> SUFFICES ASSUME NEW e \in 1 .. d + 1
                   PROVE  sizes'[e] = Cardinality(levels[e - 1])
        OBVIOUS
      <4>1. CASE e = d + 1
        <5>1. e - 1 = d
          BY <3>4, <4>1
        <5>2. levels[e - 1] = levels[d] /\ sizes'[e] = sizes'[d + 1]
          BY <4>1, <5>1
        <5> QED
          BY <3>9, <5>2
      <4>2. CASE e # d + 1
        <5>1. e \in 1 .. d
          BY <3>4, <4>2
        <5> QED
          BY <2>3, <3>9, <5>1
      <4> QED
        BY <4>1, <4>2
    <3>11. \E G, C : SeqOpen(G, C)'
      <4>1. PICK G : G = levels[d]
        OBVIOUS
      <4>2. distance' - 1 = d /\ levels'[distance' - 1] = G
        BY <1>2, <3>1, <3>4, <4>1
      <4>3. visited = old \cup UpTo(d - 1) \cup levels[d]
        BY <2>1, <2>2 DEF SeqOpen, d
      <4>4. visited' = old' \cup UpTo(distance - 1)' \cup {}
        BY <1>2, <3>7, <4>3
      <4>5. TwoLevels(queue', G, {})
        BY <3>3, <4>1
      <4>6. SeqOpen(G, {})'
        BY <3>1, <4>2, <4>4, <4>5 DEF SeqOpen
      <4> QED
        BY <4>6
    <3>12. SeqScan'
      <4>1. \A u \in UpTo(distance - 1)' : told'[u] # << >>
        BY <1>2, <3>7, <3>8 DEF Untold
      <4>2. distance' \in Nat \ {0} /\ distance' \in DOMAIN levels'
            /\ \A e \in 0 .. distance' - 1 : levels'[e] # {}
        BY <1>2, <2>3, <3>1, <3>2, <3>4, <3>6
      <4>3. /\ sizes' \in Seq(Nat) /\ Len(sizes') = distance'
            /\ \A e \in 1 .. distance' : sizes'[e] = Cardinality(levels'[e - 1])
        BY <1>2, <3>1, <3>9, <3>10
      <4> QED
        BY <2>5, <3>11, <4>1, <4>2, <4>3 DEF SeqScan, Untold
    <3> QED
      BY <1>2, <1>3, <1>4, <3>1, <3>12 DEF SeqInv, SeqRoots, SeqDone
  <2> QED
    BY <2>7, <2>8
<1> QED
  BY <1>5, <1>6

(* The node a successor is, if it passes and is not known.                 *)
LEMMA SeqFresh ==
  ASSUME SeqShape, SeqScan, pc = "arcs", succs # << >>, NEW F, NEW B, SeqOpen(F, B),
         Head(succs) \notin visited, <<Head(succs), distance>> \in accept
  PROVE  /\ Head(succs) \in levels[distance] /\ Head(succs) \in graph[current]
         /\ Head(succs) \in Nodes /\ Head(succs) \in Nat /\ Head(succs) \notin F \cup B
<1> DEFINE s == Head(succs)
<1>1. s \in Nodes /\ s \in ToSet(succs)
  BY ToSetTail, HeadTailProperties DEF SeqShape
<1>2. /\ F \cup B \subseteq visited
      /\ levels[distance] =
           {x \in Image(graph, levels[distance - 1]) \ (old \cup UpTo(distance - 1)) :
              <<x, distance>> \in accept}
  BY SeqOpenNodes
<1>3. current \in levels[distance - 1] /\ s \in graph[current]
      /\ old \cup UpTo(distance - 1) \subseteq visited
  BY <1>1 DEF SeqOpen
<1>4. s \in Image(graph, levels[distance - 1])
  BY <1>3 DEF Image
<1>5. s \in Nat
  BY <1>1, SeqNodes
<1> QED
  BY <1>1, <1>2, <1>3, <1>4, <1>5

LEMMA SeqScanSucc == ASSUME SeqInv, Sqn!ScanSucc PROVE SeqInv'
<1>1. SeqShape /\ SeqScan /\ SeqDone
  BY DEF SeqInv
<1>2. PICK s : s = Head(succs)
  OBVIOUS
<1>3. /\ pc = "arcs" /\ succs # << >> /\ succs' = Tail(succs) /\ pc' \in {"arcs", "idle"}
      /\ UNCHANGED <<graph, accept, roots, current, distance, levels, old, sizes, done>>
  BY DEF Sqn!ScanSucc, Sqn!inputs, Sqn!ghosts, Sqn!Unless
<1>4. PICK F, B : SeqOpen(F, B)
  BY <1>1, <1>3 DEF SeqScan
<1>5. s \in Nodes /\ Tail(succs) \in Seq(Nodes) /\ ToSet(succs) = {s} \cup ToSet(succs')
  BY <1>1, <1>2, <1>3, ToSetTail, HeadTailProperties DEF SeqShape
<1>6. ~done
  BY <1>1, <1>3 DEF SeqDone
<1>7. /\ F \cup B \subseteq visited /\ distance \in Nat
      /\ UpTo(distance - 1)' = UpTo(distance - 1) /\ UpTo(distance - 1) \subseteq visited
  <2>1. F \cup B \subseteq visited
    BY <1>1, <1>3, <1>4, SeqOpenNodes
  <2> QED
    BY <1>1, <1>3, <1>4, <2>1 DEF SeqOpen, UpTo, SeqScan
<1>8. visited \subseteq Nodes
  BY <1>1 DEF SeqShape
<1>9. ToSet(succs') \subseteq graph[current] /\ current \in levels[distance - 1]
  BY <1>3, <1>4, <1>5 DEF SeqOpen
<1>10. CASE UNCHANGED <<visited, queue, told>> /\ (s \in visited \/ <<s, distance>> \notin accept)
  <2>1. SeqShape'
    BY <1>1, <1>3, <1>5, <1>10, SeqShapeStays DEF SeqShape
  <2>2. CASE pc' = "idle"
    BY <1>3, <1>6, <2>1, <2>2 DEF SeqInv, SeqRoots, SeqScan, SeqDone
  <2>3. CASE pc' = "arcs"
    <3>1. SeqOpen(F, B)'
      <4>1. \A u \in levels[distance - 1] \ F : \A x \in graph[u] :
              <<x, distance>> \in accept =>
                x \in visited \/ (u = current /\ x \in ToSet(succs'))
        BY <1>3, <1>4, <1>5, <1>10 DEF SeqOpen, Followed
      <4>2. \A u \in levels'[distance' - 1] \ F : \A x \in graph'[u] : Followed(u, x)'
        BY <1>3, <1>10, <2>3, <4>1 DEF Followed
      <4>3. /\ TwoLevels(queue', F, B)
            /\ F \subseteq levels'[distance' - 1] /\ B \subseteq levels'[distance']
            /\ visited' = old' \cup UpTo(distance - 1)' \cup B
            /\ \A u \in B : told'[u] # << >>
        BY <1>3, <1>4, <1>7, <1>10 DEF SeqOpen, Untold
      <4>4. current' \in levels'[distance' - 1] /\ ToSet(succs') \subseteq graph'[current']
        BY <1>3, <1>9
      <4> QED
        BY <4>2, <4>3, <4>4 DEF SeqOpen, Untold
    <3>2. \A u \in UpTo(distance - 1) : ~Untold(u) => told'[u] # << >>
      BY <1>10 DEF Untold
    <3>3. \E G, C : SeqOpen(G, C)'
      BY <3>1
    <3> QED
      BY <1>3, <2>1, <2>3, <3>2, <3>3, SeqWithinLevel
  <2> QED
    BY <1>3, <2>2, <2>3
<1>11. CASE /\ s \notin visited /\ <<s, distance>> \in accept /\ visited' = visited \cup {s}
            /\ told' = Sqn!Tells(s, current, distance)
            /\ pc' = "arcs" => queue' = Append(queue, s)
  <2>1. /\ s \in levels[distance] /\ s \in Nat /\ s \notin F \cup B
    BY <1>1, <1>2, <1>3, <1>4, <1>11, SeqFresh
  <2>2. /\ SeqShape' /\ told'[s] # << >>
        /\ \A u \in Nodes : ~Untold(u) => told'[u] # << >>
    BY <1>1, <1>3, <1>5, <1>7, <1>11, SeqTellsOne DEF SeqShape
  <2>3. CASE pc' = "idle"
    BY <1>3, <1>6, <2>2, <2>3 DEF SeqInv, SeqRoots, SeqScan, SeqDone
  <2>4. CASE pc' = "arcs"
    <3>1. TwoLevels(queue', F, B \cup {s})
      <4>1. TwoLevels(queue, F, B) /\ queue' = Append(queue, s)
        BY <1>4, <1>11, <2>4 DEF SeqOpen
      <4> QED
        BY <2>1, <4>1, BackGrows
    <3>2. SeqOpen(F, B \cup {s})'
      <4>1. \A u \in levels[distance - 1] \ F : \A x \in graph[u] :
              <<x, distance>> \in accept =>
                x \in visited' \/ (u = current /\ x \in ToSet(succs'))
        BY <1>3, <1>4, <1>5, <1>11 DEF SeqOpen, Followed
      <4>2. \A u \in levels'[distance' - 1] \ F : \A x \in graph'[u] : Followed(u, x)'
        BY <1>3, <2>4, <4>1 DEF Followed
      <4>3. /\ F \subseteq levels'[distance' - 1] /\ B \cup {s} \subseteq levels'[distance']
            /\ visited' = old' \cup UpTo(distance - 1)' \cup (B \cup {s})
        BY <1>3, <1>4, <1>7, <1>11, <2>1 DEF SeqOpen
      <4>4. \A u \in B \cup {s} : told'[u] # << >>
        BY <1>4, <1>7, <1>8, <2>2 DEF SeqOpen
      <4>5. current' \in levels'[distance' - 1] /\ ToSet(succs') \subseteq graph'[current']
        BY <1>3, <1>9
      <4> QED
        BY <3>1, <4>2, <4>3, <4>4, <4>5 DEF SeqOpen, Untold
    <3>3. \A u \in UpTo(distance - 1) : ~Untold(u) => told'[u] # << >>
      BY <1>7, <1>8, <2>2
    <3>4. \E G, C : SeqOpen(G, C)'
      BY <3>2
    <3> QED
      BY <1>3, <2>2, <2>4, <3>3, <3>4, SeqWithinLevel
  <2> QED
    BY <1>3, <2>3, <2>4
<1>12. <1>10!1 \/ <1>11!1
  <2>1. \A stop : Sqn!Unless(stop, pc) = "arcs" => ~stop
    BY DEF Sqn!Unless
  <2> QED
    BY <1>2, <1>3, <2>1 DEF Sqn!ScanSucc, Sqn!MarkedWith
<1> QED
  BY <1>10, <1>11, <1>12

LEMMA SeqFinish == ASSUME SeqInv, Sqn!Finish PROVE SeqInv'
<1>1. SeqShape /\ SeqScan
  BY DEF SeqInv
<1>2. /\ pc = "pop" /\ queue = << >> /\ pc' = "idle"
      /\ UNCHANGED <<graph, accept, visited, roots, succs, distance, levels, old, told, sizes>>
  BY DEF Sqn!Finish, Sqn!inputs, Sqn!ghosts
<1>3. SeqShape'
  BY <1>1, <1>2, SeqShapeStays DEF SeqShape
<1>4. levels[distance] = {}
  <2>1. \A F, B : ~SeqOpen(F, B)
    <3>1. Len(<< >>) = 0 /\ 1 .. 0 = {}
      OBVIOUS
    <3> QED
      BY <1>2, <3>1 DEF SeqOpen, TwoLevels
  <2> QED
    BY <1>1, <1>2, <2>1 DEF SeqScan
<1>5. /\ distance \in Nat \ {0} /\ distance \in DOMAIN levels
      /\ (\A u \in UpTo(distance - 1) : ~Untold(u))
      /\ Len(sizes) = distance /\ \A d \in 1 .. distance : sizes[d] = Cardinality(levels[d - 1])
  BY <1>1, <1>2 DEF SeqScan
<1>6. IsDigraph(graph) /\ DOMAIN levels = 0 .. Cardinality(Nodes) /\ Cardinality(Nodes) \in Nat
  BY <1>1, SeqNodes
<1>7. \A d \in DOMAIN levels : distance <= d => levels[d] = {}
  BY <1>1, <1>4, <1>5, <1>6, EmptyBelow DEF SeqShape
<1>8. ASSUME NEW d \in DOMAIN levels, NEW u \in levels[d] PROVE told[u] # << >>
  <2>1. d \in 0 .. distance - 1
    BY <1>5, <1>6, <1>7, <1>8
  <2>2. u \in UpTo(distance - 1)
    BY <1>8, <2>1 DEF UpTo
  <2> QED
    BY <1>5, <2>2 DEF Untold
<1>9. ASSUME NEW d \in DOMAIN levels
      PROVE  IF d < Len(sizes) THEN sizes[d + 1] = Cardinality(levels[d]) ELSE levels[d] = {}
  <2>1. CASE d < distance
    <3>1. d + 1 \in 1 .. distance /\ (d + 1) - 1 = d
      BY <1>5, <1>6, <2>1
    <3>2. sizes[d + 1] = Cardinality(levels[(d + 1) - 1])
      BY <1>5, <3>1
    <3>3. levels[(d + 1) - 1] = levels[d]
      BY <3>1
    <3>4. sizes[d + 1] = Cardinality(levels[d])
      BY <3>2, <3>3
    <3> QED
      BY <1>5, <2>1, <3>4
  <2>2. CASE ~(d < distance)
    BY <1>5, <1>6, <1>7, <2>2
  <2> QED
    BY <2>1, <2>2
<1>10. Sqn!DoneIsComplete'
  BY <1>2, <1>8, <1>9, SqnOperators DEF Sqn!DoneIsComplete
<1> QED
  BY <1>2, <1>3, <1>10 DEF SeqInv, SeqRoots, SeqScan, SeqDone

LEMMA SeqUnchanged == ASSUME SeqInv, UNCHANGED Sqn!vars PROVE SeqInv'
<1>1. UNCHANGED <<graph, accept, visited, queue, pc, roots, current, succs, distance,
                  levels, old, told, sizes, done>>
  BY DEF Sqn!vars, Sqn!inputs, Sqn!ghosts
<1>2. \A S : LevelsFrom(S)' <=> LevelsFrom(S)
  BY <1>1 DEF LevelsFrom, Nodes
<1>3. UpTo(distance - 1)' = UpTo(distance - 1)
  BY <1>1 DEF UpTo
<1>4. \A F, B : SeqOpen(F, B)' <=> SeqOpen(F, B)
  BY <1>1, <1>3 DEF SeqOpen, Followed, Untold
<1>5. SeqShape'
  BY <1>1, SeqShapeStays DEF SeqShape, SeqInv
<1>6. SeqRoots' /\ SeqScan'
  BY <1>1, <1>2, <1>3, <1>4 DEF SeqInv, SeqRoots, SeqScan, Untold
<1>7. SeqDone'
  BY <1>1 DEF SeqInv, SeqDone, Sqn!DoneIsComplete
<1> QED
  BY <1>5, <1>6, <1>7 DEF SeqInv

LEMMA NextSeq == SeqInv /\ [Sqn!Next]_(Sqn!vars) => SeqInv'
BY SeqStart, SeqTakeRoot, SeqCloseRoots, SeqPopNode, SeqPopSeparator, SeqScanSucc, SeqEndArcs,
   SeqFinish, SeqQuiet, SeqUnchanged DEF Sqn!Next, Sqn!Step

LEMMA AlwaysSeqInv == Sqn!Spec => []SeqInv
BY InitSeq, NextSeq, PTL DEF Sqn!Spec

(* The sequential visit too tells no node twice (seq.rs:205).              *)
THEOREM SequentialToldOnce == Sqn!Spec => []Sqn!ToldOnce
<1>1. SeqInv => Sqn!ToldOnce
  <2> SUFFICES ASSUME SeqInv, NEW u \in Nodes PROVE Len(told[u]) <= 1
    BY SqnOperators DEF Sqn!ToldOnce
  <2>1. CASE told[u] = << >>
    <3>1. Len(<< >>) = 0
      OBVIOUS
    <3> QED
      BY <2>1, <3>1
  <2>2. CASE told[u] # << >>
    <3>1. Len(told[u]) = 1
      BY <2>2 DEF SeqInv, SeqShape, OnceEach, Untold
    <3> QED
      BY <3>1
  <2> QED
    BY <2>1, <2>2
<1> QED
  BY <1>1, AlwaysSeqInv, PTL

(* And its Done and FrontierSize events are true.                          *)
THEOREM SequentialDoneIsTrue == Sqn!Spec => []Sqn!DoneIsComplete
<1>1. SeqInv => Sqn!DoneIsComplete
  <2>1. CASE done
    BY <2>1 DEF SeqInv, SeqDone
  <2>2. CASE ~done
    BY <2>2 DEF Sqn!DoneIsComplete
  <2> QED
    BY <2>1, <2>2
<1> QED
  BY <1>1, AlwaysSeqInv, PTL

(* One separator is enough to tell the distances apart.                    *)
THEOREM SequentialSeparator == Sqn!Spec => []Sqn!OneSeparator
<1>1. SeqInv => Sqn!OneSeparator
  <2> SUFFICES ASSUME SeqInv, pc \in {"pop", "arcs"},
                      ~(pc = "pop" /\ queue = << >>)
               PROVE  Cardinality({i \in DOMAIN queue : queue[i] = -1}) = 1
    BY SqnOperators DEF Sqn!OneSeparator, Sqn!None
  <2>1. SeqShape /\ SeqScan
    BY DEF SeqInv
  <2>2. PICK F, B : SeqOpen(F, B)
    BY <2>1 DEF SeqScan
  <2>3. F \cup B \subseteq Nat
    BY <2>1, <2>2, SeqOpenNodes
  <2> QED
    BY <2>2, <2>3, OneSeparatorThere DEF SeqOpen
<1> QED
  BY <1>1, AlwaysSeqInv, PTL


----------------------------------------------------------------------------
(* LevelVisit as SeqBfs names it.                                          *)
LEMMA SqnVisit ==
  /\ UNCHANGED Visit!vars => UNCHANGED Sqn!Visit!vars
  /\ Visit!Init => Sqn!Visit!Init
  /\ Visit!Next => Sqn!Visit!Next
<1>1. UNCHANGED Visit!vars => UNCHANGED Sqn!Visit!vars
  BY DEF Visit!vars, Sqn!Visit!vars, Nodes, Sqn!Nodes
<1>2. Visit!Init => Sqn!Visit!Init
  BY DEF Visit!Init, Sqn!Visit!Init, Nodes, Sqn!Nodes, Visit!IsDigraph, Sqn!Visit!IsDigraph,
         Visit!Cardinality, Sqn!Visit!Cardinality, Visit!NotTold, Sqn!Visit!NotTold,
         Visit!IsFiniteSet, Sqn!Visit!IsFiniteSet
<1>3. Visit!Next => Sqn!Visit!Next
  BY DEF Visit!Next, Visit!Begin, Visit!Tell, Visit!Up, Visit!NotTold, Visit!Image, Visit!Told,
         Sqn!Visit!Next, Sqn!Visit!Begin, Sqn!Visit!Tell, Sqn!Visit!Up, Sqn!Visit!NotTold,
         Sqn!Visit!Image, Sqn!Visit!Told, Nodes, Sqn!Nodes
<1> QED
  BY <1>1, <1>2, <1>3

LEMMA SeqTellsRoot ==
  ASSUME SeqInv, Sqn!TakeRoot, told' # told
  PROVE  Visit!Next
<1>1. SeqShape /\ SeqRoots
  BY DEF SeqInv
<1> DEFINE r == Head(roots)
<1>2. /\ pc = "roots" /\ roots # << >> /\ r \notin visited /\ <<r, 0>> \in accept
      /\ told' = Sqn!Tells(r, r, 0) /\ UNCHANGED <<graph, levels>>
      /\ visited' = visited \cup {r} /\ roots' = Tail(roots) /\ succs' = succs
  BY DEF Sqn!TakeRoot, Sqn!inputs, Sqn!ghosts
<1>3. r \in Nodes /\ r \in ToSet(roots) /\ roots' \in Seq(Nodes)
  BY <1>1, <1>2, ToSetTail, HeadTailProperties DEF SeqShape
<1>4. PICK S : LevelsFrom(S) /\ ToSet(roots) \subseteq S
  BY <1>1, <1>2 DEF SeqRoots
<1>5. LevelByLevel(graph, S, old, accept, levels)
  BY <1>1, <1>4, SeqNodes, LevelsDef DEF LevelsFrom, Nodes
<1>6. r \in levels[0]
  <2>1. r \notin old
    BY <1>1, <1>2 DEF SeqRoots
  <2> QED
    BY <1>2, <1>3, <1>4, <1>5, <2>1 DEF LevelByLevel
<1>7. TellsOnly(r, r, 0)
  BY <1>1, <1>2, <1>3, SeqTellsOne DEF SeqShape
<1>8. 0 \in DOMAIN levels /\ \A e \in 0 .. 0 - 1 : FALSE
  BY <1>1, SeqNodes
<1>9. DistancesTold
  BY <1>1 DEF SeqShape, DistancesTold
<1> QED
  BY <1>2, <1>3, <1>6, <1>7, <1>8, <1>9, TellImplements

LEMMA SeqTellsSucc ==
  ASSUME SeqInv, Sqn!ScanSucc, told' # told
  PROVE  Visit!Next
<1>1. SeqShape /\ SeqScan
  BY DEF SeqInv
<1> DEFINE s == Head(succs)
<1>2. /\ pc = "arcs" /\ succs # << >> /\ s \notin visited /\ <<s, distance>> \in accept
      /\ told' = Sqn!Tells(s, current, distance) /\ UNCHANGED <<graph, levels>>
      /\ visited' = visited \cup {s} /\ succs' = Tail(succs) /\ roots' = roots
  BY DEF Sqn!ScanSucc, Sqn!MarkedWith, Sqn!inputs, Sqn!ghosts
<1>3. PICK F, B : SeqOpen(F, B)
  BY <1>1, <1>2 DEF SeqScan
<1>4. s \in levels[distance] /\ s \in graph[current] /\ s \in Nodes
  BY <1>1, <1>2, <1>3, SeqFresh
<1>5. current \in levels[distance - 1] /\ levels[distance - 1] \subseteq Nodes
  <2>1. levels[distance - 1] \subseteq Nodes
    BY <1>1, <1>2, <1>3, SeqOpenNodes
  <2> QED
    BY <1>2, <1>3, <2>1 DEF SeqOpen
<1>6. succs' \in Seq(Nodes)
  BY <1>1, <1>2, HeadTailProperties DEF SeqShape
<1>7. distance \in Nat \ {0} /\ distance \in DOMAIN levels
  BY <1>1, <1>2 DEF SeqScan
<1>8. TellsOnly(s, current, distance)
  BY <1>1, <1>2, <1>4, <1>6, <1>7, SeqTellsOne DEF SeqShape
<1>9. ASSUME NEW e \in 0 .. distance - 1, NEW u \in levels[e]
      PROVE  u \in Nodes /\ ~Untold(u)
  <2>1. u \in UpTo(distance - 1)
    BY DEF UpTo
  <2>2. e \in DOMAIN levels
    BY <1>1, <1>7, SeqNodes
  <2> QED
    BY <1>1, <1>2, <2>1, <2>2, SeqNodes DEF SeqScan
<1>10. DistancesTold
  BY <1>1 DEF SeqShape, DistancesTold
<1> HIDE DEF s
<1>11. IF distance = 0 THEN current = s
       ELSE current \in levels[distance - 1] /\ s \in graph[current]
  BY <1>4, <1>5, <1>7
<1> QED
  BY <1>2, <1>4, <1>5, <1>7, <1>8, <1>9, <1>10, <1>11, TellImplements

LEMMA SeqImplements ==
  SeqInv /\ SeqInv' /\ [Sqn!Next]_(Sqn!vars) => [Visit!Next]_(Visit!vars)
<1> SUFFICES ASSUME SeqInv, SeqInv', [Sqn!Next]_(Sqn!vars)
             PROVE  [Visit!Next]_(Visit!vars)
  OBVIOUS
<1>1. CASE UNCHANGED <<graph, levels, told>>
  BY <1>1 DEF Visit!vars, Nodes
<1>2. CASE Sqn!StartVisit \/ Sqn!Reset \/ Sqn!StartOrder
  <2>1. UNCHANGED graph /\ (told' = told \/ told' = [u \in Nodes |-> << >>])
    BY <1>2, SqnOperators DEF Sqn!StartVisit, Sqn!Reset, Sqn!StartOrder, Sqn!inputs
  <2>2. Layered(graph, levels) /\ Layered(graph, levels')
    BY <2>1 DEF SeqInv, SeqShape
  <2> QED
    BY <2>1, <2>2, BeginImplements
<1>3. CASE Sqn!TakeRoot \/ Sqn!ScanSucc
  <2>1. UNCHANGED <<graph, levels>>
    BY <1>3 DEF Sqn!TakeRoot, Sqn!ScanSucc, Sqn!inputs, Sqn!ghosts
  <2> QED
    BY <1>1, <1>3, <2>1, SeqTellsRoot, SeqTellsSucc
<1>4. CASE \/ Sqn!CloseRoots \/ Sqn!PopNode \/ Sqn!PopSeparator \/ Sqn!EndArcs \/ Sqn!Finish
           \/ Sqn!OrderPanic \/ Sqn!OrderNone \/ Sqn!OrderNext \/ Sqn!DropOrder
  BY <1>1, <1>4 DEF Sqn!CloseRoots, Sqn!PopNode, Sqn!PopSeparator, Sqn!EndArcs, Sqn!Finish,
     Sqn!OrderPanic, Sqn!OrderNone, Sqn!OrderNext, Sqn!DropOrder, Sqn!inputs, Sqn!ghosts
<1>5. CASE UNCHANGED Sqn!vars
  BY <1>1, <1>5 DEF Sqn!vars, Sqn!inputs, Sqn!ghosts
<1> QED
  BY <1>2, <1>3, <1>4, <1>5 DEF Sqn!Next, Sqn!Step

(* The sequential visit implements LevelVisit, with no distance in its     *)
(* queue: exact distances, predecessors one level up, level by level, over *)
(* any number of visits, interrupted or not, resets and iterations.        *)
THEOREM SequentialImplementsLevels == Sqn!Spec => Sqn!LevelVisitSpec
<1>1. Sqn!Init => Sqn!Visit!Init
  <2>1. Sqn!Init => Visit!Init
    BY SqnOperators, InitImplements DEF Sqn!Init
  <2> QED
    BY <2>1, SqnVisit
<1>2. SeqInv /\ SeqInv' /\ [Sqn!Next]_(Sqn!vars) => [Sqn!Visit!Next]_(Sqn!Visit!vars)
  BY SeqImplements, SqnVisit
<1> QED
  BY <1>1, <1>2, AlwaysSeqInv, PTL DEF Sqn!Spec, Sqn!LevelVisitSpec, Sqn!Visit!Spec


----------------------------------------------------------------------------
(* The nodes in the order they enter the queue of BfsOrder: the first y of *)
(* L have been given, the others are queued, and V are those marked.  All  *)
(* that the nodes given lead to is marked; whoever is behind the head of   *)
(* the queue was found from a node given; and who is found from a node is  *)
(* behind all that was found from it, or from an earlier one, before.      *)
Breadth(g, L, y, V) ==
  /\ L \in Seq(DOMAIN g) /\ y \in 0 .. Len(L)
  /\ \A p, q \in 1 .. Len(L) : L[p] = L[q] => p = q
  /\ V = {L[p] : p \in 1 .. Len(L)}
  /\ \A i \in 1 .. y : g[L[i]] \subseteq V
  /\ \A p \in 1 .. Len(L) : p > y + 1 => \E k \in 1 .. y : L[p] \in g[L[k]]
  /\ \A p, q \in 1 .. Len(L) : \A i \in 1 .. y :
       i < p /\ p < q /\ L[q] \in g[L[i]] => \E k \in 1 .. i : L[p] \in g[L[k]]

LEMMA BreadthBegins ==
  ASSUME NEW g
  PROVE  Breadth(g, << >>, 0, {})
<1>1. << >> \in Seq(DOMAIN g) /\ Len(<< >>) = 0 /\ 1 .. 0 = {} /\ 0 \in 0 .. 0
  OBVIOUS
<1> QED
  BY <1>1 DEF Breadth

(* All that can be reached from nodes met has been given: the next node is *)
(* one that is not marked.                                                 *)
LEMMA BreadthRoot ==
  ASSUME NEW g, NEW L, NEW V, Breadth(g, L, Len(L), V), NEW u \in DOMAIN g, u \notin V
  PROVE  Breadth(g, Append(L, u), Len(L), V \cup {u})
<1> DEFINE M == Append(L, u)
           n == Len(L)
<1>1. /\ L \in Seq(DOMAIN g) /\ (\A p, q \in 1 .. n : L[p] = L[q] => p = q)
      /\ V = {L[p] : p \in 1 .. n} /\ (\A i \in 1 .. n : g[L[i]] \subseteq V)
      /\ \A p, q \in 1 .. n : \A i \in 1 .. n :
           i < p /\ p < q /\ L[q] \in g[L[i]] => \E k \in 1 .. i : L[p] \in g[L[k]]
  BY DEF Breadth
<1>2. /\ M \in Seq(DOMAIN g) /\ Len(M) = n + 1 /\ n \in Nat
      /\ (\A p \in 1 .. n : M[p] = L[p]) /\ M[n + 1] = u
  BY <1>1, AppendProperties, LenProperties
<1> HIDE DEF M, n
<1>3. 1 .. Len(M) = (1 .. n) \cup {n + 1} /\ n \in 0 .. Len(M)
  BY <1>2
<1>4. \A p \in 1 .. n : M[p] # u
  BY <1>1, <1>2
<1>5. \A p, q \in 1 .. Len(M) : M[p] = M[q] => p = q
  BY <1>1, <1>2, <1>3, <1>4
<1>6. V \cup {u} = {M[p] : p \in 1 .. Len(M)}
  BY <1>1, <1>2, <1>3
<1>7. \A i \in 1 .. n : g[M[i]] \subseteq V
  BY <1>1, <1>2
<1>8. \A p \in 1 .. Len(M) : ~(p > n + 1)
  BY <1>2
<1>9. ASSUME NEW p \in 1 .. Len(M), NEW q \in 1 .. Len(M), NEW i \in 1 .. n,
             i < p, p < q, M[q] \in g[M[i]]
      PROVE  \E k \in 1 .. i : M[p] \in g[M[k]]
  <2>1. q # n + 1
    BY <1>2, <1>7, <1>9
  <2>2. q \in 1 .. n /\ p \in 1 .. n
    BY <1>2, <1>3, <1>9, <2>1
  <2>3. \E k \in 1 .. i : L[p] \in g[L[k]]
    BY <1>1, <1>2, <1>9, <2>2
  <2>4. \A k \in 1 .. i : k \in 1 .. n
    BY <1>2
  <2> QED
    BY <1>2, <2>2, <2>3, <2>4
<1> QED
  BY <1>2, <1>3, <1>5, <1>6, <1>7, <1>8, <1>9 DEF Breadth, M, n

(* The head of the queue is given, and its new successors go to the end.   *)
LEMMA BreadthNext ==
  ASSUME NEW g, NEW L, NEW y, NEW V, Breadth(g, L, y, V), y < Len(L),
         NEW u, u = L[y + 1], NEW W, W = g[u] \ V, W \subseteq DOMAIN g,
         NEW N \in Seq(W), W = {N[k] : k \in 1 .. Len(N)},
         \A k, l \in 1 .. Len(N) : N[k] = N[l] => k = l
  PROVE  Breadth(g, L \o N, y + 1, V \cup g[u])
<1> DEFINE M == L \o N
           n == Len(L)
           m == Len(N)
<1>1. /\ L \in Seq(DOMAIN g) /\ y \in 0 .. n /\ (\A p, q \in 1 .. n : L[p] = L[q] => p = q)
      /\ V = {L[p] : p \in 1 .. n} /\ (\A i \in 1 .. y : g[L[i]] \subseteq V)
      /\ (\A p \in 1 .. n : p > y + 1 => \E k \in 1 .. y : L[p] \in g[L[k]])
      /\ \A p, q \in 1 .. n : \A i \in 1 .. y :
           i < p /\ p < q /\ L[q] \in g[L[i]] => \E k \in 1 .. i : L[p] \in g[L[k]]
  BY DEF Breadth
<1>2. N \in Seq(DOMAIN g)
  BY SeqMonotonic
<1>3. /\ M \in Seq(DOMAIN g) /\ Len(M) = n + m /\ n \in Nat /\ m \in Nat
      /\ (\A p \in 1 .. n : M[p] = L[p])
      /\ \A p \in n + 1 .. n + m : M[p] = N[p - n]
  <2>1. /\ M \in Seq(DOMAIN g) /\ Len(M) = n + m /\ n \in Nat /\ m \in Nat
        /\ \A p \in 1 .. n + m : M[p] = IF p <= n THEN L[p] ELSE N[p - n]
    BY <1>1, <1>2, ConcatProperties, LenProperties
  <2> HIDE DEF M, n, m
  <2>2. \A p \in 1 .. n : p \in 1 .. n + m /\ p <= n
    BY <2>1
  <2>3. \A p \in n + 1 .. n + m : p \in 1 .. n + m /\ ~(p <= n)
    BY <2>1
  <2> QED
    BY <2>1, <2>2, <2>3
<1>4. \A k \in 1 .. m : N[k] \in W
  BY ElementOfSeq
<1>5. y < n /\ u = L[y + 1] /\ \A k, l \in 1 .. m : N[k] = N[l] => k = l
  OBVIOUS
<1>6. W = {N[k] : k \in 1 .. m}
  OBVIOUS
<1> HIDE DEF M, n, m
<1>7. \A p \in 1 .. Len(M) : p \in 1 .. n \/ (p \in n + 1 .. n + m /\ p - n \in 1 .. m)
  BY <1>3
<1>8. \A p \in n + 1 .. n + m : M[p] \in g[u] /\ M[p] \notin V
  <2>1. \A p \in n + 1 .. n + m : p - n \in 1 .. m /\ M[p] = N[p - n]
    BY <1>3
  <2>2. \A x \in W : x \in g[u] /\ x \notin V
    OBVIOUS
  <2> QED
    BY <1>4, <2>1, <2>2
<1>9. \A p \in 1 .. n : M[p] \in V
  BY <1>1, <1>3
<1>10. ASSUME NEW p \in 1 .. Len(M), NEW q \in 1 .. Len(M), M[p] = M[q] PROVE p = q
  <2>1. CASE p \in 1 .. n
    <3>1. q \in 1 .. n
      BY <1>7, <1>8, <1>9, <1>10, <2>1
    <3> QED
      BY <1>1, <1>3, <1>10, <2>1, <3>1
  <2>2. CASE p \in n + 1 .. n + m
    <3>1. q \in n + 1 .. n + m /\ q - n \in 1 .. m /\ p - n \in 1 .. m
      BY <1>3, <1>7, <1>8, <1>9, <1>10, <2>2
    <3>2. N[p - n] = N[q - n]
      BY <1>3, <1>10, <2>2, <3>1
    <3>3. p - n = q - n
      BY <1>5, <3>1, <3>2
    <3> QED
      BY <1>3, <2>2, <3>1, <3>3
  <2> QED
    BY <1>7, <2>1, <2>2
<1>11. V \cup g[u] = {M[p] : p \in 1 .. Len(M)}
  <2>1. ASSUME NEW x \in V \cup g[u] PROVE \E p \in 1 .. Len(M) : M[p] = x
    <3>1. CASE x \in V
      <4>1. PICK p \in 1 .. n : L[p] = x
        BY <1>1, <3>1
      <4> QED
        BY <1>3, <4>1
    <3>2. CASE x \notin V
      <4>1. PICK k \in 1 .. m : N[k] = x
        BY <1>6, <2>1, <3>2
      <4>2. n + k \in n + 1 .. n + m /\ n + k \in 1 .. Len(M) /\ (n + k) - n = k
        BY <1>3
      <4>3. M[n + k] = N[(n + k) - n]
        BY <1>3, <4>2
      <4> QED
        BY <4>1, <4>2, <4>3
    <3> QED
      BY <3>1, <3>2
  <2>2. \A p \in 1 .. Len(M) : M[p] \in V \cup g[u]
    BY <1>7, <1>8, <1>9
  <2> QED
    BY <2>1, <2>2
<1>12. y + 1 \in 0 .. Len(M) /\ y + 1 \in 1 .. n /\ M[y + 1] = u
       /\ \A i \in 1 .. y : i \in 1 .. n
  BY <1>1, <1>3, <1>5
<1>13. \A i \in 1 .. y + 1 : i \in 1 .. y \/ i = y + 1
  BY <1>1
<1>14. \A i \in 1 .. y + 1 : g[M[i]] \subseteq V \cup g[u]
  BY <1>1, <1>3, <1>12, <1>13
<1>15. ASSUME NEW p \in 1 .. Len(M), p > y + 1
       PROVE  \E k \in 1 .. y + 1 : M[p] \in g[M[k]]
  <2>1. CASE p \in 1 .. n
    <3>1. PICK k \in 1 .. y : L[p] \in g[L[k]]
      BY <1>1, <1>15, <2>1
    <3>2. k \in 1 .. y + 1 /\ M[k] = L[k] /\ M[p] = L[p]
      BY <1>1, <1>3, <1>12, <2>1
    <3> QED
      BY <3>1, <3>2
  <2>2. CASE p \in n + 1 .. n + m
    <3>1. y + 1 \in 1 .. y + 1
      BY <1>1
    <3> QED
      BY <1>8, <1>12, <2>2, <3>1
  <2> QED
    BY <1>7, <2>1, <2>2
<1>16. ASSUME NEW p \in 1 .. Len(M), NEW q \in 1 .. Len(M), NEW i \in 1 .. y + 1,
              i < p, p < q, M[q] \in g[M[i]]
       PROVE  \E k \in 1 .. i : M[p] \in g[M[k]]
  <2>1. CASE i \in 1 .. y
    <3>1. q \in 1 .. n
      <4>1. g[M[i]] \subseteq V
        BY <1>1, <1>3, <1>12, <2>1
      <4> QED
        BY <1>7, <1>8, <1>16, <4>1
    <3>2. p \in 1 .. n
      BY <1>3, <1>16, <3>1
    <3>3. \E k \in 1 .. i : L[p] \in g[L[k]]
      BY <1>1, <1>3, <1>12, <1>16, <2>1, <3>1, <3>2
    <3>4. \A k \in 1 .. i : k \in 1 .. n
      BY <1>1, <1>3, <2>1
    <3> QED
      BY <1>3, <3>2, <3>3, <3>4
  <2>2. CASE i = y + 1
    <3>1. p > y + 1
      BY <1>3, <1>12, <1>16, <2>2
    <3> QED
      BY <1>15, <2>2, <3>1
  <2> QED
    BY <1>13, <2>1, <2>2
<1>17. \A p \in 1 .. Len(M) : p > (y + 1) + 1 => \E k \in 1 .. y + 1 : M[p] \in g[M[k]]
  <2>1. \A p \in 1 .. Len(M) : p > (y + 1) + 1 => p > y + 1
    BY <1>1, <1>3
  <2> QED
    BY <1>15, <2>1
<1> QED
  BY <1>3, <1>10, <1>11, <1>12, <1>14, <1>16, <1>17 DEF Breadth, M

(* The nodes given, in order of breadth.                                   *)
FirstTo(g, Y, j) ==
  LET P == {i \in 1 .. j - 1 : Y[j] \in g[Y[i]]}
  IN  IF P = {} THEN j ELSE CHOOSE i \in P : \A k \in P : i <= k

LEMMA FirstToLeast ==
  ASSUME NEW g, NEW Y, NEW j \in Nat \ {0}
  PROVE  /\ FirstTo(g, Y, j) \in 1 .. j
         /\ \A i \in 1 .. j - 1 : Y[j] \in g[Y[i]] => FirstTo(g, Y, j) <= i
         /\ FirstTo(g, Y, j) # j => Y[j] \in g[Y[FirstTo(g, Y, j)]]
<1> DEFINE P == {i \in 1 .. j - 1 : Y[j] \in g[Y[i]]}
           c == FirstTo(g, Y, j)
<1>1. CASE P = {}
  <2>1. c = j
    BY <1>1 DEF FirstTo
  <2> QED
    BY <1>1, <2>1
<1>2. CASE P # {}
  <2>1. P \subseteq Nat
    OBVIOUS
  <2>2. Min(P) \in P /\ \A i \in P : Min(P) <= i
    BY <1>2, <2>1, MinOfNat
  <2>3. c \in P /\ \A i \in P : c <= i
    <3>1. \E i \in P : \A k \in P : i <= k
      BY <2>2
    <3>2. c = CHOOSE i \in P : \A k \in P : i <= k
      BY <1>2 DEF FirstTo
    <3> HIDE DEF P, c
    <3> QED
      BY <3>1, <3>2
  <2> HIDE DEF c
  <2> QED
    BY <2>3 DEF c
<1> QED
  BY <1>1, <1>2

LEMMA BreadthOrder ==
  ASSUME NEW g, NEW L, NEW V, NEW Y, Breadth(g, L, Len(Y), V), Y \in Seq(DOMAIN g),
         \A i \in 1 .. Len(Y) : Y[i] = L[i]
  PROVE  /\ IsInjective(Y)
         /\ \A j \in DOMAIN Y : \A i \in 1 .. j : FirstTo(g, Y, i) <= FirstTo(g, Y, j)
<1> DEFINE y == Len(Y)
<1>1. y \in Nat /\ DOMAIN Y = 1 .. y /\ \A i \in 1 .. y : Y[i] = L[i]
  BY LenProperties
<1> HIDE DEF y
<1>2. /\ \A p, q \in 1 .. Len(L) : L[p] = L[q] => p = q
      /\ \A p, q \in 1 .. Len(L) : \A i \in 1 .. y :
           i < p /\ p < q /\ L[q] \in g[L[i]] => \E k \in 1 .. i : L[p] \in g[L[k]]
      /\ y \in 0 .. Len(L) /\ Len(L) \in Nat
  BY LenProperties DEF Breadth, y
<1>3. \A i \in 1 .. y : i \in 1 .. Len(L)
  BY <1>1, <1>2
<1>4. IsInjective(Y)
  BY <1>1, <1>2, <1>3 DEF IsInjective
<1>5. ASSUME NEW j \in 1 .. y, NEW i \in 1 .. j
      PROVE  FirstTo(g, Y, i) <= FirstTo(g, Y, j)
  <2> DEFINE d == FirstTo(g, Y, j)
             c == FirstTo(g, Y, i)
  <2>1. /\ d \in 1 .. j /\ (d # j => Y[j] \in g[Y[d]])
        /\ c \in 1 .. i /\ \A k \in 1 .. i - 1 : Y[i] \in g[Y[k]] => c <= k
    BY <1>1, FirstToLeast
  <2>2. i = j => c = d
    OBVIOUS
  <2> SUFFICES c <= d
    OBVIOUS
  <2> HIDE DEF c, d
  <2>3. CASE i = j
    BY <1>1, <2>1, <2>2, <2>3
  <2>4. CASE i # j /\ i <= d
    BY <1>1, <2>1, <2>4
  <2>5. CASE i # j /\ d < i
    <3>1. i < j /\ d # j /\ i \in 1 .. y /\ d \in 1 .. y
      BY <1>1, <2>1, <2>5
    <3>2. L[j] \in g[L[d]]
      BY <1>1, <2>1, <3>1
    <3>3. PICK k \in 1 .. d : L[i] \in g[L[k]]
      BY <1>2, <1>3, <2>5, <3>1, <3>2
    <3>4. k \in 1 .. i - 1 /\ k \in 1 .. y /\ k <= d
      BY <1>1, <2>5, <3>1
    <3>5. Y[i] \in g[Y[k]]
      BY <1>1, <3>1, <3>3, <3>4
    <3>6. c <= k
      BY <2>1, <3>4, <3>5
    <3> QED
      BY <1>1, <2>1, <3>4, <3>6
  <2>6. i <= d \/ d < i
    BY <1>1, <2>1
  <2> QED
    BY <2>3, <2>4, <2>5, <2>6
<1> QED
  BY <1>1, <1>4, <1>5


----------------------------------------------------------------------------
(* BfsOrder between two of its steps: L are the nodes given and queued.    *)
OrderedBy(L) ==
  /\ Breadth(graph, L, Len(yielded), visited)
  /\ Len(L) = Len(yielded) + Len(queue)
  /\ \A i \in 1 .. Len(yielded) : yielded[i] = L[i]
  /\ \A k \in 1 .. Len(queue) : queue[k] = L[Len(yielded) + k]
OrderOpen ==
  pc = "order" =>
    /\ queue \in Seq(Nodes)
    /\ \E L : OrderedBy(L)
    /\ \A u \in Nodes : u < at => u \in visited
    /\ at \in Nodes \/ Nodes = {}
OrderInv == yielded \in Seq(Nodes) /\ OrderOpen /\ Sqn!OrderIsBfs

LEMMA OrderIsBfsDef ==
  Sqn!OrderIsBfs <=>
    /\ IsInjective(yielded)
    /\ at = Cardinality(Nodes) => ToSet(yielded) = Nodes
    /\ \A j \in DOMAIN yielded : \A i \in 1 .. j :
         FirstTo(graph, yielded, i) <= FirstTo(graph, yielded, j)
<1>1. \A j : Sqn!Discoverer(j) = FirstTo(graph, yielded, j)
  BY DEF Sqn!Discoverer, FirstTo
<1> QED
  BY <1>1, SqnOperators DEF Sqn!OrderIsBfs

LEMMA OrderIsBfsNext ==
  ASSUME IsInjective(yielded'),
         at' = Cardinality(Nodes') => ToSet(yielded') = Nodes',
         \A j \in DOMAIN yielded' : \A i \in 1 .. j :
           FirstTo(graph', yielded', i) <= FirstTo(graph', yielded', j)
  PROVE  Sqn!OrderIsBfs'
<1>1. \A j : Sqn!Discoverer(j)' = FirstTo(graph', yielded', j)
  BY DEF Sqn!Discoverer, FirstTo
<1>2. /\ \A s : Sqn!IsInjective(s) = IsInjective(s)
      /\ \A s : Sqn!ToSet(s) = ToSet(s)
      /\ \A s : Sqn!Cardinality(s) = Cardinality(s)
      /\ Sqn!Nodes' = Nodes'
  BY SqnOperators DEF Sqn!Nodes, Nodes
<1> QED
  BY <1>1, <1>2 DEF Sqn!OrderIsBfs

LEMMA NoNodes ==
  ASSUME SeqShape
  PROVE  /\ Cardinality(Nodes) = 0 => Nodes = {}
         /\ Nodes # {} => 0 \in Nodes
         /\ Cardinality(Nodes) \notin Nodes
<1>1. Nodes = 0 .. Cardinality(Nodes) - 1 /\ Cardinality(Nodes) \in Nat
  BY SeqNodes DEF IsDigraph, Nodes
<1> DEFINE n == Cardinality(Nodes)
<1> HIDE DEF n
<1>2. Nodes = 0 .. n - 1 /\ n \in Nat
  BY <1>1 DEF n
<1>3. (n = 0 => Nodes = {}) /\ (Nodes # {} => 0 \in Nodes) /\ n \notin Nodes
  BY <1>2
<1> QED
  BY <1>3 DEF n

LEMMA InitOrder == Sqn!Init => OrderInv
<1> SUFFICES ASSUME Sqn!Init PROVE OrderInv
  OBVIOUS
<1>1. SeqShape
  BY InitSeq DEF SeqInv
<1>2. yielded = << >> /\ at = 0 /\ pc = "idle"
  BY DEF Sqn!Init
<1>3. << >> \in Seq(Nodes) /\ DOMAIN << >> = {}
  OBVIOUS
<1>4. IsInjective(yielded) /\ ToSet(yielded) = {}
  BY <1>2, <1>3 DEF IsInjective, ToSet
<1>5. Sqn!OrderIsBfs
  BY <1>1, <1>2, <1>3, <1>4, NoNodes, OrderIsBfsDef
<1> QED
  BY <1>2, <1>3, <1>5 DEF OrderInv, OrderOpen

LEMMA OrderStays ==
  ASSUME OrderInv, UNCHANGED <<yielded, at, graph>>, pc' # "order"
  PROVE  OrderInv'
<1>1. Nodes' = Nodes
  BY DEF Nodes
<1>2. Sqn!OrderIsBfs
  BY DEF OrderInv
<1>3. Sqn!OrderIsBfs'
  BY <1>1, <1>2, OrderIsBfsDef, OrderIsBfsNext
<1> QED
  BY <1>1, <1>3 DEF OrderInv, OrderOpen

LEMMA OrderStarts == ASSUME SeqShape, Sqn!StartOrder PROVE OrderInv'
<1>1. /\ visited' = {} /\ queue' = << >> /\ at' = 0 /\ yielded' = << >> /\ graph' = graph
      /\ pc' = "order"
  BY DEF Sqn!StartOrder, Sqn!inputs
<1>2. Nodes' = Nodes
  BY <1>1 DEF Nodes
<1>3. << >> \in Seq(Nodes) /\ Len(<< >>) = 0 /\ DOMAIN << >> = {} /\ 1 .. 0 = {}
  OBVIOUS
<1>4. Breadth(graph, << >>, 0, {})
  BY BreadthBegins
<1>5. OrderedBy(<< >>)'
  BY <1>1, <1>3, <1>4 DEF OrderedBy
<1>6. \A u \in Nodes : ~(u < 0)
  BY SeqNodes
<1>7. OrderOpen'
  <2>1. \E L : OrderedBy(L)'
    BY <1>5
  <2> QED
    BY <1>1, <1>2, <1>3, <1>6, <2>1, NoNodes DEF OrderOpen
<1>8. IsInjective(yielded') /\ ToSet(yielded') = {}
  BY <1>1, <1>3 DEF IsInjective, ToSet
<1>9. Sqn!OrderIsBfs'
  BY <1>1, <1>2, <1>3, <1>8, NoNodes, OrderIsBfsNext
<1> QED
  BY <1>1, <1>2, <1>3, <1>7, <1>9 DEF OrderInv

LEMMA ConcatTwo ==
  ASSUME NEW S, NEW s \in Seq(S), NEW t \in Seq(S), NEW r, r = s \o t
  PROVE  /\ r \in Seq(S) /\ Len(s) \in Nat /\ Len(t) \in Nat /\ Len(r) = Len(s) + Len(t)
         /\ \A p \in 1 .. Len(s) : r[p] = s[p]
         /\ \A k \in 1 .. Len(t) : r[Len(s) + k] = t[k]
<1> DEFINE a == Len(s)
           b == Len(t)
<1>1. /\ r \in Seq(S) /\ Len(r) = a + b /\ a \in Nat /\ b \in Nat
      /\ \A p \in 1 .. a + b : r[p] = IF p <= a THEN s[p] ELSE t[p - a]
  BY ConcatProperties, LenProperties
<1> HIDE DEF a, b
<1>2. \A p \in 1 .. a : p \in 1 .. a + b /\ p <= a
  BY <1>1
<1>3. \A k \in 1 .. b : a + k \in 1 .. a + b /\ ~(a + k <= a) /\ (a + k) - a = k
  BY <1>1
<1>4. \A p \in 1 .. a : r[p] = s[p]
  BY <1>1, <1>2
<1>5. ASSUME NEW k \in 1 .. b PROVE r[a + k] = t[k]
  <2>1. r[a + k] = t[(a + k) - a]
    BY <1>1, <1>3
  <2> QED
    BY <1>3, <2>1
<1> QED
  BY <1>1, <1>4, <1>5 DEF a, b

(* Two lists one behind the other; a list and one element; a list split.   *)
Joins(r, s, t) ==
  /\ Len(s) \in Nat /\ Len(t) \in Nat /\ Len(r) = Len(s) + Len(t)
  /\ \A p \in 1 .. Len(s) : r[p] = s[p]
  /\ \A k \in 1 .. Len(t) : r[Len(s) + k] = t[k]
Grows(r, s, u) ==
  /\ Len(s) \in Nat /\ Len(r) = Len(s) + 1
  /\ \A i \in 1 .. Len(s) : r[i] = s[i]
  /\ r[Len(s) + 1] = u
Splits(r, s, t) ==
  /\ \A i \in 1 .. Len(s) : s[i] = r[i]
  /\ \A k \in 1 .. Len(t) : t[k] = r[Len(s) + k]
(* A list is another, one element and a queue.                             *)
Headed(r, s, t) ==
  /\ Len(r) = Len(s) + 1 + Len(t)
  /\ \A i \in 1 .. Len(s) : s[i] = r[i]
  /\ \A k \in 1 .. Len(t) : t[k] = r[Len(s) + 1 + k]

LEMMA ConcatJoins ==
  ASSUME NEW S, NEW s \in Seq(S), NEW t \in Seq(S)
  PROVE  s \o t \in Seq(S) /\ Joins(s \o t, s, t)
<1>1. PICK r : r = s \o t
  OBVIOUS
<1>2. r \in Seq(S) /\ Joins(r, s, t)
  BY <1>1, ConcatTwo DEF Joins
<1> QED
  BY <1>1, <1>2

LEMMA AppendGrows ==
  ASSUME NEW S, NEW s \in Seq(S), NEW u \in S
  PROVE  Append(s, u) \in Seq(S) /\ Grows(Append(s, u), s, u)
BY AppendProperties, LenProperties DEF Grows

(* One element goes from the head of a queue to the end of a list, others   *)
(* are put behind: list and queue together are prolonged by these.          *)
LEMMA MovedHead ==
  ASSUME NEW M, NEW N, NEW q, NEW Y, NEW Z, NEW Q, NEW L,
         Joins(L, M, N), Joins(Q, q, N), Grows(Z, Y, M[Len(Y) + 1]),
         Headed(M, Y, q)
  PROVE  Len(L) = Len(Z) + Len(Q) /\ Splits(L, Z, Q)
<1> DEFINE y == Len(Y)
           m == Len(M)
           a == Len(q)
           b == Len(N)
<1>1. /\ m \in Nat /\ b \in Nat /\ Len(L) = m + b
      /\ (\A p \in 1 .. m : L[p] = M[p]) /\ \A k \in 1 .. b : L[m + k] = N[k]
  BY DEF Joins
<1>2. /\ a \in Nat /\ Len(Q) = a + b
      /\ (\A k \in 1 .. a : Q[k] = q[k]) /\ \A k \in 1 .. b : Q[a + k] = N[k]
  BY DEF Joins
<1>3. /\ y \in Nat /\ Len(Z) = y + 1
      /\ (\A i \in 1 .. y : Z[i] = Y[i]) /\ Z[y + 1] = M[y + 1]
  BY DEF Grows
<1>4. /\ m = y + 1 + a /\ \A i \in 1 .. y : Y[i] = M[i]
      /\ \A k \in 1 .. a : q[k] = M[y + 1 + k]
  BY DEF Headed
<1> HIDE DEF y, m, a, b
<1>5. ASSUME NEW i \in 1 .. y + 1 PROVE Z[i] = L[i]
  <2>1. i \in 1 .. y \/ i = y + 1
    BY <1>3
  <2>2. i \in 1 .. m
    BY <1>2, <1>3, <1>4
  <2> QED
    BY <1>1, <1>3, <1>4, <2>1, <2>2
<1>6. ASSUME NEW k \in 1 .. a + b PROVE Q[k] = L[y + 1 + k]
  <2>1. CASE k <= a
    <3>1. k \in 1 .. a /\ y + 1 + k \in 1 .. m
      BY <1>1, <1>2, <1>3, <1>4, <2>1
    <3> QED
      BY <1>1, <1>2, <1>4, <3>1
  <2>2. CASE ~(k <= a)
    <3>1. PICK l \in 1 .. b : k = a + l
      <4>1. k - a \in 1 .. b /\ k = a + (k - a)
        BY <1>1, <1>2, <2>2
      <4> QED
        BY <4>1
    <3>2. y + 1 + k = m + l
      BY <1>1, <1>2, <1>3, <1>4, <3>1
    <3> QED
      BY <1>1, <1>2, <3>1, <3>2
  <2> QED
    BY <2>1, <2>2
<1>7. m + b = (y + 1) + (a + b)
  BY <1>1, <1>2, <1>3, <1>4
<1> QED
  BY <1>1, <1>2, <1>3, <1>5, <1>6, <1>7 DEF Splits

(* The next node is given: the first behind those given in M.              *)
LEMMA OrderGives ==
  ASSUME SeqShape, yielded \in Seq(Nodes), graph' = graph,
         NEW M, NEW V, V \subseteq Nodes, Breadth(graph, M, Len(yielded), V),
         NEW q \in Seq(Nodes), Len(M) = Len(yielded) + 1 + Len(q),
         \A i \in 1 .. Len(yielded) : yielded[i] = M[i],
         \A k \in 1 .. Len(q) : q[k] = M[Len(yielded) + 1 + k],
         NEW u \in Nodes, u = M[Len(yielded) + 1],
         yielded' = Append(yielded, u), visited' = V \cup graph[u],
         queue' = q \o Increasing(graph[u] \ V)
  PROVE  /\ yielded' \in Seq(Nodes) /\ queue' \in Seq(Nodes)
         /\ \E L : OrderedBy(L)'
<1> DEFINE W == graph[u] \ V
           N == Increasing(W)
           y == Len(yielded)
           L == M \o N
<1>1. W \subseteq Nodes /\ W \subseteq Nat /\ IsFiniteSet(W)
  BY SeqNodes, FS_Subset DEF IsDigraph, Nodes
<1>2. N \in Seq(W) /\ ToSet(N) = W /\ IsInjective(N)
  BY <1>1, IncreasingLists, IncreasingAll, IncreasingInjective
<1> HIDE DEF N, W
<1>3. DOMAIN N = 1 .. Len(N) /\ Len(N) \in Nat
  BY <1>2, LenProperties
<1>4. W = {N[k] : k \in 1 .. Len(N)}
  BY <1>2, <1>3 DEF ToSet
<1>5. \A k, l \in 1 .. Len(N) : N[k] = N[l] => k = l
  BY <1>2, <1>3 DEF IsInjective
<1>6. y \in Nat /\ Len(q) \in Nat /\ Len(M) = y + 1 + Len(q) /\ y < Len(M)
  <2>1. y \in Nat /\ Len(q) \in Nat /\ Len(M) = y + 1 + Len(q)
    BY LenProperties
  <2> HIDE DEF y
  <2> QED
    BY <2>1
<1>7. Breadth(graph, L, y + 1, V \cup graph[u])
  <2>1. W \subseteq DOMAIN graph /\ W = graph[u] \ V
    BY <1>1 DEF Nodes, W
  <2> HIDE DEF W
  <2> QED
    BY <1>2, <1>4, <1>5, <1>6, <2>1, BreadthNext
<1>8. /\ M \in Seq(Nodes) /\ N \in Seq(Nodes)
  BY <1>1, <1>2, SeqMonotonic DEF Breadth, Nodes
<1>9. queue' = q \o N
  BY DEF N, W
<1>10. Joins(L, M, N)
  BY <1>8, ConcatJoins
<1>11. queue' \in Seq(Nodes) /\ Joins(queue', q, N)
  BY <1>8, <1>9, ConcatJoins
<1>12. yielded' \in Seq(Nodes) /\ Grows(yielded', yielded, M[Len(yielded) + 1])
  BY AppendGrows
<1>13. Len(yielded') = Len(yielded) + 1
  BY <1>12 DEF Grows
<1>14. PICK K : K = L
  OBVIOUS
<1> HIDE DEF L, y
<1>15. Len(K) = Len(yielded') + Len(queue') /\ Splits(K, yielded', queue')
  <2>1. Headed(M, yielded, q)
    BY DEF Headed
  <2>2. Joins(K, M, N)
    BY <1>10, <1>14
  <2> DEFINE h == M[Len(yielded) + 1]
  <2>3. Grows(yielded', yielded, h) /\ h = M[Len(yielded) + 1] /\ Joins(queue', q, N)
    BY <1>11, <1>12
  <2>4. PICK Y, Z, Q, O : Y = yielded /\ Z = yielded' /\ Q = queue' /\ O = N
    OBVIOUS
  <2>5. Headed(M, Y, q) /\ Joins(K, M, O) /\ Joins(Q, q, O) /\ Grows(Z, Y, M[Len(Y) + 1])
    BY <2>1, <2>2, <2>3, <2>4
  <2>6. Len(K) = Len(Z) + Len(Q) /\ Splits(K, Z, Q)
    BY <2>5, MovedHead
  <2> QED
    BY <2>4, <2>6
<1>16. Breadth(graph', K, Len(yielded'), visited')
  BY <1>7, <1>13, <1>14 DEF y
<1>17. OrderedBy(K)'
  BY <1>15, <1>16 DEF OrderedBy, Splits
<1> QED
  BY <1>11, <1>12, <1>17

(* The first node not marked.                                              *)
LEMMA FirstFree ==
  ASSUME SeqShape, Sqn!FirstFrom(at) \in Nodes
  PROVE  /\ Sqn!FirstFrom(at) \notin visited
         /\ \A v \in Nodes : v < Sqn!FirstFrom(at) => v \in visited \/ ~(v >= at)
<1> DEFINE free == {v \in Nodes : v >= at /\ v \notin visited}
           u == Sqn!FirstFrom(at)
<1>1. free # {}
  <2>1. free = {} => u = Cardinality(Nodes)
    BY SqnOperators DEF Sqn!FirstFrom
  <2> QED
    BY <2>1, NoNodes
<1>2. u = CHOOSE v \in free : \A w \in free : v <= w
  BY <1>1, SqnOperators DEF Sqn!FirstFrom
<1>3. free \subseteq Nat
  BY SeqNodes
<1>4. Min(free) \in free /\ \A w \in free : Min(free) <= w
  BY <1>1, <1>3, MinOfNat
<1> HIDE DEF free, u
<1>5. u \in free /\ \A w \in free : u <= w
  <2>1. \E v \in free : \A w \in free : v <= w
    BY <1>4
  <2> QED
    BY <1>2, <2>1
<1>6. \A v \in Nodes : v < u => v \notin free
  BY <1>3, <1>5, SeqNodes
<1> QED
  BY <1>5, <1>6 DEF free, u

LEMMA OrderNextGives ==
  ASSUME SeqShape, OrderInv, Sqn!OrderNext
  PROVE  /\ yielded' \in Seq(Nodes) /\ queue' \in Seq(Nodes)
         /\ \E L : OrderedBy(L)'
         /\ \A v \in Nodes : v < at' => v \in visited'
         /\ at' \in Nodes
<1>1. /\ pc = "order" /\ graph' = graph
  BY DEF Sqn!OrderNext, Sqn!inputs
<1>2. PICK L : OrderedBy(L)
  BY <1>1 DEF OrderInv, OrderOpen
<1>3. /\ yielded \in Seq(Nodes) /\ queue \in Seq(Nodes) /\ visited \subseteq Nodes
      /\ (\A v \in Nodes : v < at => v \in visited) /\ (at \in Nodes \/ Nodes = {})
  BY <1>1 DEF OrderInv, OrderOpen, SeqShape
<1>4. /\ Breadth(graph, L, Len(yielded), visited)
      /\ Len(L) = Len(yielded) + Len(queue)
      /\ \A i \in 1 .. Len(yielded) : yielded[i] = L[i]
      /\ \A k \in 1 .. Len(queue) : queue[k] = L[Len(yielded) + k]
  BY <1>2 DEF OrderedBy
<1> DEFINE y == Len(yielded)
<1>5. y \in Nat /\ L \in Seq(Nodes)
  BY <1>3, <1>4, LenProperties DEF Breadth, Nodes
<1>6. CASE queue = << >>
  <2> DEFINE u == Sqn!FirstFrom(at)
  <2>1. /\ u \in Nodes /\ at' = u /\ yielded' = Append(yielded, u)
        /\ visited' = (visited \cup {u}) \cup graph[u]
        /\ queue' = << >> \o Increasing(graph[u] \ (visited \cup {u}))
    BY <1>6, SqnOperators DEF Sqn!OrderNext, Sqn!EnqueuedAt
  <2>2. u \notin visited /\ \A v \in Nodes : v < u => v \in visited \/ ~(v >= at)
    BY <2>1, FirstFree
  <2>3. Len(queue) = 0 /\ << >> \in Seq(Nodes) /\ Len(<< >>) = 0
    BY <1>6
  <2> HIDE DEF u
  <2>4. Len(L) = y
    BY <1>4, <1>5, <2>3
  <2> DEFINE M == Append(L, u)
  <2>5. Breadth(graph, M, y, visited \cup {u})
    BY <1>4, <2>1, <2>2, <2>4, BreadthRoot DEF Nodes
  <2>6. /\ Len(M) = y + 1 /\ (\A i \in 1 .. y : M[i] = L[i]) /\ M[y + 1] = u
    BY <1>5, <2>1, <2>4, AppendProperties
  <2> HIDE DEF M
  <2>7. /\ Len(M) = y + 1 + Len(<< >>) /\ (\A i \in 1 .. y : yielded[i] = M[i])
        /\ visited \cup {u} \subseteq Nodes
        /\ \A k \in 1 .. Len(<< >>) : << >>[k] = M[y + 1 + k]
    BY <1>3, <1>4, <1>5, <2>1, <2>3, <2>6
  <2>8. /\ yielded' \in Seq(Nodes) /\ queue' \in Seq(Nodes)
        /\ \E K : OrderedBy(K)'
    <3>1. PICK q : q = << >>
      OBVIOUS
    <3>2. /\ q \in Seq(Nodes) /\ Len(M) = y + 1 + Len(q)
          /\ \A k \in 1 .. Len(q) : q[k] = M[y + 1 + k]
      BY <2>3, <2>7, <3>1
    <3>3. queue' = q \o Increasing(graph[u] \ (visited \cup {u}))
      BY <2>1, <3>1
    <3> QED
      BY <1>1, <1>3, <2>1, <2>5, <2>6, <2>7, <3>2, <3>3, OrderGives
  <2>9. at \in Nat /\ Nodes \subseteq Nat
    BY <1>3, <2>1, SeqNodes
  <2>10. \A v \in Nodes : v < at' => v \in visited'
    BY <1>3, <2>1, <2>2, <2>9
  <2> QED
    BY <2>1, <2>8, <2>10
<1>7. CASE queue # << >>
  <2>1. PICK u : u = Head(queue)
    OBVIOUS
  <2>2. /\ u \in Nodes /\ at' = at /\ yielded' = Append(yielded, u)
        /\ visited' = visited \cup graph[u]
        /\ queue' = Tail(queue) \o Increasing(graph[u] \ visited)
    BY <1>7, <2>1, SqnOperators DEF Sqn!OrderNext, Sqn!EnqueuedAt
  <2>3. PICK q : q = Tail(queue)
    OBVIOUS
  <2>4. /\ Len(queue) \in Nat \ {0} /\ u = queue[1] /\ q \in Seq(Nodes)
        /\ Len(q) = Len(queue) - 1
        /\ \A k \in 1 .. Len(queue) - 1 : q[k] = queue[k + 1]
    BY <1>3, <1>7, <2>1, <2>3, TailPositions
  <2>5. Len(L) = y + 1 + Len(q)
    BY <1>4, <1>5, <2>4
  <2>6. u = L[y + 1]
    BY <1>4, <2>4
  <2>7. \A k \in 1 .. Len(q) : q[k] = L[y + 1 + k]
    <3> SUFFICES ASSUME NEW k \in 1 .. Len(q) PROVE q[k] = L[y + 1 + k]
      OBVIOUS
    <3>1. k \in 1 .. Len(queue) - 1 /\ k + 1 \in 1 .. Len(queue) /\ y + (k + 1) = y + 1 + k
      BY <1>5, <2>4
    <3> QED
      BY <1>4, <2>4, <3>1
  <2>8. /\ yielded' \in Seq(Nodes) /\ queue' \in Seq(Nodes)
        /\ \E K : OrderedBy(K)'
    <3>1. queue' = q \o Increasing(graph[u] \ visited)
      BY <2>2, <2>3
    <3> QED
      BY <1>1, <1>3, <1>4, <2>2, <2>4, <2>5, <2>6, <2>7, <3>1, OrderGives
  <2> QED
    BY <1>3, <2>2, <2>8
<1> QED
  BY <1>6, <1>7

LEMMA OrderGoesOn == ASSUME SeqShape, OrderInv, Sqn!OrderNext PROVE OrderInv'
<1>1. pc = "order" /\ pc' = "order" /\ graph' = graph /\ Nodes' = Nodes
  BY DEF Sqn!OrderNext, Sqn!inputs, Nodes
<1>2. /\ yielded' \in Seq(Nodes) /\ queue' \in Seq(Nodes)
      /\ (\A v \in Nodes : v < at' => v \in visited') /\ at' \in Nodes
  BY OrderNextGives
<1>3. PICK L : OrderedBy(L)'
  BY OrderNextGives
<1>4. OrderOpen'
  <2>1. \E K : OrderedBy(K)'
    BY <1>3
  <2> QED
    BY <1>1, <1>2, <2>1 DEF OrderOpen
<1>5. /\ IsInjective(yielded')
      /\ \A j \in DOMAIN yielded' : \A i \in 1 .. j :
           FirstTo(graph', yielded', i) <= FirstTo(graph', yielded', j)
  <2>1. /\ Breadth(graph', L, Len(yielded'), visited')
        /\ \A i \in 1 .. Len(yielded') : yielded'[i] = L[i]
    BY <1>3 DEF OrderedBy
  <2>2. yielded' \in Seq(DOMAIN graph')
    BY <1>1, <1>2 DEF Nodes
  <2> QED
    BY <2>1, <2>2, BreadthOrder
<1>6. at' # Cardinality(Nodes')
  BY <1>1, <1>2, NoNodes
<1>7. Sqn!OrderIsBfs'
  BY <1>5, <1>6, OrderIsBfsNext
<1> QED
  BY <1>1, <1>2, <1>4, <1>7 DEF OrderInv

LEMMA OrderEnds == ASSUME SeqShape, OrderInv, Sqn!OrderNone PROVE OrderInv'
<1>1. /\ pc = "order" /\ queue = << >> /\ pc' = "idle"
      /\ UNCHANGED <<graph, yielded>>
      /\ Sqn!FirstFrom(at) = Cardinality(Nodes)
  BY SqnOperators DEF Sqn!OrderNone, Sqn!inputs
<1>2. Nodes' = Nodes
  BY <1>1 DEF Nodes
<1>3. PICK L : OrderedBy(L)
  BY <1>1 DEF OrderInv, OrderOpen
<1>4. yielded \in Seq(Nodes) /\ \A v \in Nodes : v < at => v \in visited
  BY <1>1 DEF OrderInv, OrderOpen
<1>5. \A v \in Nodes : v >= at => v \in visited
  <2> DEFINE free == {v \in Nodes : v >= at /\ v \notin visited}
  <2> SUFFICES ASSUME free # {} PROVE FALSE
    OBVIOUS
  <2>1. Sqn!FirstFrom(at) = CHOOSE v \in free : \A w \in free : v <= w
    BY SqnOperators DEF Sqn!FirstFrom
  <2>2. free \subseteq Nat
    BY SeqNodes
  <2>3. Min(free) \in free /\ \A w \in free : Min(free) <= w
    BY <2>2, MinOfNat
  <2>4. \E v \in free : \A w \in free : v <= w
    BY <2>3
  <2>5. Sqn!FirstFrom(at) \in free
    <3> HIDE DEF free
    <3> QED
      BY <2>1, <2>4
  <2>6. Sqn!FirstFrom(at) \in Nodes
    BY <2>5
  <2> QED
    BY <1>1, <2>6, NoNodes
<1>6. \A v \in Nodes : v < at \/ v >= at
  <2>1. at \in Nodes \/ Nodes = {}
    BY <1>1 DEF OrderInv, OrderOpen
  <2> QED
    BY <2>1, SeqNodes
<1>7. Nodes = visited
  BY <1>4, <1>5, <1>6 DEF SeqShape
<1>8. visited = ToSet(yielded)
  <2>1. Len(queue) = 0
    BY <1>1
  <2>2. Len(yielded) \in Nat /\ DOMAIN yielded = 1 .. Len(yielded)
    BY <1>4, LenProperties
  <2>3. Len(L) = Len(yielded) /\ (\A i \in 1 .. Len(yielded) : yielded[i] = L[i])
        /\ visited = {L[p] : p \in 1 .. Len(L)}
    BY <1>3, <2>1, <2>2 DEF OrderedBy, Breadth
  <2> QED
    BY <2>2, <2>3 DEF ToSet
<1>9. Sqn!OrderIsBfs
  BY DEF OrderInv
<1>10. Sqn!OrderIsBfs'
  BY <1>1, <1>2, <1>7, <1>8, <1>9, OrderIsBfsDef, OrderIsBfsNext
<1> QED
  BY <1>1, <1>2, <1>4, <1>10 DEF OrderInv, OrderOpen

LEMMA OrderUnchanged == ASSUME OrderInv, UNCHANGED Sqn!vars PROVE OrderInv'
<1>1. UNCHANGED <<yielded, at, graph, pc, visited, queue>>
  BY DEF Sqn!vars, Sqn!inputs
<1>2. Nodes' = Nodes
  BY <1>1 DEF Nodes
<1>3. \A L : OrderedBy(L)' <=> OrderedBy(L)
  BY <1>1 DEF OrderedBy
<1>4. Sqn!OrderIsBfs
  BY DEF OrderInv
<1>5. Sqn!OrderIsBfs'
  BY <1>1, <1>2, <1>4, OrderIsBfsDef, OrderIsBfsNext
<1> QED
  BY <1>1, <1>2, <1>3, <1>5 DEF OrderInv, OrderOpen

LEMMA NextOrder == SeqInv /\ OrderInv /\ [Sqn!Next]_(Sqn!vars) => OrderInv'
<1> SUFFICES ASSUME SeqInv, OrderInv, [Sqn!Next]_(Sqn!vars) PROVE OrderInv'
  OBVIOUS
<1>1. SeqShape
  BY DEF SeqInv
<1>2. CASE \/ Sqn!StartVisit \/ Sqn!Reset \/ Sqn!DropOrder \/ Sqn!TakeRoot \/ Sqn!CloseRoots
           \/ Sqn!PopNode \/ Sqn!PopSeparator \/ Sqn!ScanSucc \/ Sqn!EndArcs \/ Sqn!Finish
           \/ Sqn!OrderPanic
  <2>1. UNCHANGED <<yielded, at, graph>> /\ pc' # "order"
    BY <1>2 DEF Sqn!StartVisit, Sqn!Reset, Sqn!DropOrder, Sqn!TakeRoot, Sqn!CloseRoots,
       Sqn!PopNode, Sqn!PopSeparator, Sqn!ScanSucc, Sqn!EndArcs, Sqn!Finish, Sqn!OrderPanic,
       Sqn!inputs, Sqn!Unless
  <2> QED
    BY <2>1, OrderStays
<1> QED
  BY <1>1, <1>2, OrderStarts, OrderGoesOn, OrderEnds, OrderUnchanged DEF Sqn!Next, Sqn!Step

(* BfsOrder gives every node of every graph, none twice, in the order of a *)
(* breadth-first visit that begins anew at the least node not met          *)
(* (seq.rs:268), whatever visits were made before it and whenever it is    *)
(* dropped.                                                                *)
THEOREM IteratorIsBfs == Sqn!Spec => []Sqn!OrderIsBfs
<1>1. Sqn!Init => SeqInv /\ OrderInv
  BY InitSeq, InitOrder
<1>2. SeqInv /\ OrderInv /\ [Sqn!Next]_(Sqn!vars) => (SeqInv /\ OrderInv)'
  BY NextSeq, NextOrder
<1>3. OrderInv => Sqn!OrderIsBfs
  BY DEF OrderInv
<1> QED
  BY <1>1, <1>2, <1>3, PTL DEF Sqn!Spec

============================================================================
