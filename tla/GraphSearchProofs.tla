------------------------- MODULE GraphSearchProofs -------------------------
(***************************************************************************)
(* For every graph, and however many frames there are: the search keeps    *)
(* its invariant, so its answer is the one the graph deserves, and an      *)
(* ordered graph never exhausts the frames.                                *)
(***************************************************************************)
EXTENDS GraphSearch, FiniteSetTheorems, TLAPS

-----------------------------------------------------------------------------
(* The invariant of the search. *)

\* stack holds, once each, the nodes that are being visited, each the
\* dependency that the one below it took last.
PathOK ==
    /\ visiting = {stack[j] : j \in 1..Len(stack)}
    /\ \A j, k \in 1..Len(stack) : stack[j] = stack[k] => j = k
    /\ visiting \cap visited = {}
    /\ \A j \in 1..(Len(stack) - 1) :
           /\ next[stack[j]] - 1 \in 1..Len(nodes[stack[j]].depends_on)
           /\ DepAt(nodes, stack[j], next[stack[j]] - 1) = stack[j + 1]

\* A dependency that was taken has been visited, or its visit is under way.
TakenOK ==
    /\ \A j \in 1..Len(stack) : \A k \in 1..(next[stack[j]] - 1) :
           \/ DepAt(nodes, stack[j], k) \in visited
           \/ j < Len(stack) /\ k = next[stack[j]] - 1
    /\ \A i \in Positions : i \in visiting \/ i \in visited \/ next[i] = 1

\* No node of a circle is ever visited to the end.
NoCircleVisited ==
    \A set \in SUBSET Positions : Circle(nodes, set) => set \cap visited = {}

\* The nodes before root are visited, the last perhaps not yet to the end.
RootsOK ==
    \A i \in Positions : i < root => i \in visited \/ (stack # <<>> /\ i = stack[1])

\* In an ordered graph every dependency of a root is visited before it.
FlatWhenOrdered ==
    DependenciesFirst(nodes) =>
        /\ Len(stack) <= 1
        /\ Len(stack) = 1 => stack[1] = root - 1

SearchOK ==
    /\ WellFormed(nodes)
    /\ PathOK
    /\ TakenOK
    /\ NoCircleVisited
    /\ RootsOK
    /\ FlatWhenOrdered

\* Only a graph with a node for every frame overflows.
OverflowIsLong == answer = "RecursionError" => Len(nodes) >= MaxFrames

IInv ==
    /\ TypeOK
    /\ AnswerIsRight
    /\ ValidNeverOverflows
    /\ OverflowIsLong
    /\ phase # "done" => answer = None
    /\ phase = "scan" => /\ root = 1 /\ stack = <<>> /\ next = [i \in Positions |-> 1]
                         /\ visiting = {} /\ visited = {}
    /\ phase = "search" => SearchOK

-----------------------------------------------------------------------------
(* Facts about graphs. *)

\* In a well-formed graph every dependency is a node.
LEMMA DepAtType ==
    ASSUME NEW g \in Seq(Node), WellFormed(g),
           NEW i \in DOMAIN g, NEW k \in 1..Len(g[i].depends_on)
    PROVE  DepAt(g, i, k) \in DOMAIN g
<1>1. g[i] \in Node
    OBVIOUS
<1>2. g[i].depends_on \in Seq(STRING)
    BY <1>1 DEF Node
<1>3. g[i].depends_on[k] \in Range(g[i].depends_on)
    BY <1>2 DEF Range
<1>4. g[i].depends_on[k] \in Ids(g)
    BY <1>3 DEF WellFormed
<1>5. \E p \in DOMAIN g : g[p].object_id = g[i].depends_on[k]
    BY <1>4 DEF Ids
<1> QED
    BY <1>5 DEF DepAt, Position

\* The graph's domain and its nodes' dependencies, as numbers.
LEMMA GraphType ==
    ASSUME NEW g \in Seq(Node)
    PROVE  /\ DOMAIN g = 1..Len(g) /\ Len(g) \in Nat
           /\ \A i \in DOMAIN g : /\ Len(g[i].depends_on) \in Nat
                                  /\ DOMAIN g[i].depends_on = 1..Len(g[i].depends_on)
<1>1. \A i \in DOMAIN g : g[i] \in Node
    OBVIOUS
<1>2. \A i \in DOMAIN g : g[i].depends_on \in Seq(STRING)
    BY <1>1 DEF Node
<1> QED
    BY <1>2

\* What the stack is after a return.
LEMMA Shorter ==
    ASSUME NEW S, NEW s \in Seq(S), s # <<>>
    PROVE  /\ SubSeq(s, 1, Len(s) - 1) \in Seq(S)
           /\ Len(SubSeq(s, 1, Len(s) - 1)) = Len(s) - 1
           /\ \A j \in 1..(Len(s) - 1) : SubSeq(s, 1, Len(s) - 1)[j] = s[j]
<1>1. Len(s) \in Nat /\ Len(s) > 0
    OBVIOUS
<1> DEFINE m == Len(s) - 1
<1>2. m \in Nat /\ \A j \in 1..m : s[j] \in S
    BY <1>1
<1> HIDE DEF m
<1>3. SubSeq(s, 1, m) \in Seq(S)
    BY <1>2
<1>4. Len(SubSeq(s, 1, m)) = m
    BY <1>2
<1>5. \A j \in 1..m : SubSeq(s, 1, m)[j] = s[j]
    BY <1>2
<1> QED
    BY <1>3, <1>4, <1>5 DEF m

\* What order asks of one dependency.
LEMMA OrderedDep ==
    ASSUME NEW g \in Seq(Node), DependenciesFirst(g),
           NEW i \in DOMAIN g, NEW k \in 1..Len(g[i].depends_on)
    PROVE  DepAt(g, i, k) < i
BY GraphType DEF DependenciesFirst

-----------------------------------------------------------------------------
(* The steps of the search. *)

\* What the type invariant says of the graph and of the innermost visit.
LEMMA SearchTypes ==
    ASSUME TypeOK
    PROVE  /\ nodes \in Seq(Node)
           /\ Positions = 1..Len(nodes) /\ Len(nodes) \in Nat
           /\ \A i \in Positions : /\ Len(nodes[i].depends_on) \in Nat
                                   /\ next[i] \in Nat \ {0}
           /\ Len(stack) \in Nat
           /\ \A j \in 1..Len(stack) : stack[j] \in Positions
           /\ stack # <<>> => Len(stack) > 0 /\ Top \in Positions
<1>1. nodes \in Seq(Node)
    BY DEF TypeOK, nodes
<1>2. \A j \in 1..Len(stack) : stack[j] \in Positions
    BY DEF TypeOK
<1>3. stack # <<>> => Len(stack) > 0
    BY DEF TypeOK
<1>4. Len(stack) \in Nat
    BY DEF TypeOK
<1> QED
    BY <1>1, <1>2, <1>3, <1>4, GraphType DEF TypeOK, Positions, Top

\* A node that no visit has reached has all its dependencies before it.
LEMMA Unentered ==
    ASSUME SearchOK, NEW i \in Positions, i \notin visiting, i \notin visited
    PROVE  next[i] = 1
BY DEF SearchOK, TakenOK

\* The loop over the graph finds a root's own loop where it is to start.
LEMMA EnterRootNext ==
    ASSUME TypeOK, SearchOK, EnterRoot
    PROVE  next' = next /\ next[root] = 1
<1>1. visiting = {} /\ root \in Positions /\ root \notin visited
    BY SearchTypes DEF EnterRoot, BetweenRoots, SearchOK, PathOK
<1>2. next[root] = 1
    BY <1>1, Unentered
<1>3. next' = [next EXCEPT ![root] = 1]
    BY DEF EnterRoot, Enter
<1> QED
    BY <1>2, <1>3 DEF TypeOK

\* A deeper call only moves the loop of the call it is made from.
LEMMA DescendNext ==
    ASSUME TypeOK, SearchOK, Descend
    PROVE  /\ next' \in [Positions -> Nat \ {0}]
           /\ next'[Top] = next[Top] + 1
           /\ \A i \in Positions : i # Top => next'[i] = next[i]
<1>1. Called \in Positions
  <2>1. Top \in Positions /\ next[Top] \in 1..Len(nodes[Top].depends_on)
      BY SearchTypes DEF Descend, Framed, Calling
  <2> QED
      BY <2>1, SearchTypes, DepAtType DEF SearchOK, Called, Positions
<1>2. Called \notin visiting /\ Called \notin visited /\ Top \in visiting /\ Top \in Positions
    BY SearchTypes DEF Descend, Framed, Calling, SearchOK, PathOK, Top
<1>3. next[Called] = 1 /\ Called # Top
    BY <1>1, <1>2, Unentered
<1>4. next' = [[next EXCEPT ![Top] = @ + 1] EXCEPT ![Called] = 1]
    BY DEF Descend, Enter, Advanced
<1>5. next \in [Positions -> Nat \ {0}] /\ next[Top] + 1 \in Nat \ {0}
    BY <1>2 DEF TypeOK
<1> DEFINE mid == [next EXCEPT ![Top] = @ + 1]
<1>6. /\ mid \in [Positions -> Nat \ {0}]
      /\ mid[Top] = next[Top] + 1
      /\ \A i \in Positions : i # Top => mid[i] = next[i]
    BY <1>2, <1>5
<1>7. next' = [mid EXCEPT ![Called] = 1]
    BY <1>4
<1> HIDE DEF mid
<1> QED
    BY <1>1, <1>2, <1>3, <1>6, <1>7

LEMMA EnterRootKeeps ==
    ASSUME TypeOK, SearchOK, EnterRoot
    PROVE  TypeOK' /\ SearchOK'
<1> USE DEF EnterRoot, BetweenRoots, Enter
<1>1. nodes' = nodes /\ Positions' = Positions
    BY DEF nodes, Positions
<1>2. /\ stack = <<>> /\ stack' = <<root>> /\ Len(stack') = 1 /\ stack'[1] = root
      /\ root \in Positions /\ root \notin visited /\ visited' = visited
      /\ next' = next /\ visiting = {} /\ visiting' = {root} /\ root' = root + 1
    BY SearchTypes, EnterRootNext DEF SearchOK, PathOK
<1>3. TypeOK'
  <2>1. stack' \in Seq(Positions)
      BY <1>2
  <2>2. Len(stack') <= MaxFrames
      BY <1>2, FramesAssumption
  <2>3. root' \in Nat \ {0} /\ visiting' \subseteq Positions
      BY <1>2 DEF TypeOK
  <2> QED
      BY <1>1, <1>2, <2>1, <2>2, <2>3 DEF TypeOK, nodes
<1>4. PathOK'
    BY <1>1, <1>2 DEF PathOK
<1>5. next[root] = 1
    BY EnterRootNext
<1>6. TakenOK'
    BY <1>1, <1>2, <1>5 DEF SearchOK, TakenOK
<1>7. NoCircleVisited'
    BY <1>1, <1>2 DEF SearchOK, NoCircleVisited
<1>8. RootsOK'
    BY <1>1, <1>2, SearchTypes DEF SearchOK, RootsOK, TypeOK
<1>9. FlatWhenOrdered'
    BY <1>1, <1>2 DEF FlatWhenOrdered, TypeOK
<1> QED
    BY <1>1, <1>3, <1>4, <1>6, <1>7, <1>8, <1>9 DEF SearchOK

LEMMA SkipRootKeeps ==
    ASSUME TypeOK, SearchOK, SkipRoot
    PROVE  TypeOK' /\ SearchOK'
<1> USE DEF SkipRoot, BetweenRoots
<1>1. nodes' = nodes /\ Positions' = Positions
    BY DEF nodes, Positions
<1>2. TypeOK'
    BY <1>1 DEF TypeOK, nodes
<1>3. PathOK' /\ TakenOK' /\ NoCircleVisited'
    BY <1>1 DEF SearchOK, PathOK, TakenOK, NoCircleVisited
<1>4. RootsOK'
    BY <1>1, SearchTypes DEF SearchOK, RootsOK, TypeOK
<1>5. FlatWhenOrdered'
    BY <1>1 DEF FlatWhenOrdered, TypeOK
<1> QED
    BY <1>1, <1>2, <1>3, <1>4, <1>5 DEF SearchOK

LEMMA DescendKeeps ==
    ASSUME TypeOK, SearchOK, Descend
    PROVE  TypeOK' /\ SearchOK'
<1> USE DEF Descend, Framed, Calling, Enter
<1>1. nodes' = nodes /\ Positions' = Positions
    BY DEF nodes, Positions
<1> DEFINE n == Len(stack)
<1>2. n \in Nat /\ n > 0 /\ n < MaxFrames /\ Top \in Positions /\ Top = stack[n]
    BY SearchTypes DEF Top
<1>3. next[Top] \in 1..Len(nodes[Top].depends_on)
    BY <1>2, SearchTypes
<1>4. Called \in Positions
    BY <1>2, <1>3, SearchTypes, DepAtType DEF SearchOK, Called, Positions
<1>5. /\ Len(stack') = n + 1 /\ stack'[n + 1] = Called
      /\ \A j \in 1..n : stack'[j] = stack[j]
    BY <1>4, SearchTypes DEF TypeOK
<1>6. /\ next' \in [Positions -> Nat \ {0}]
      /\ next'[Top] = next[Top] + 1
      /\ \A i \in Positions : i # Top => next'[i] = next[i]
    BY DescendNext
<1>7. TypeOK'
  <2>1. stack' \in Seq(Positions)
      BY <1>4 DEF TypeOK
  <2> QED
      BY <1>1, <1>2, <1>4, <1>5, <1>6, <2>1, FramesAssumption DEF TypeOK, nodes
<1>8. /\ visiting = {stack[j] : j \in 1..n} /\ visiting' = visiting \cup {Called}
      /\ visited' = visited /\ Called \notin visiting /\ Called \notin visited
    BY DEF SearchOK, PathOK
<1>9. \A j \in 1..n : stack[j] \in Positions /\ (stack[j] = Top => j = n)
    BY <1>2, SearchTypes DEF SearchOK, PathOK
<1>10. PathOK'
  <2>1. visiting' = {stack'[j] : j \in 1..(n + 1)}
      BY <1>2, <1>5, <1>8
  <2>2. \A j, k \in 1..(n + 1) : stack'[j] = stack'[k] => j = k
      BY <1>2, <1>5, <1>8 DEF SearchOK, PathOK
  <2>3. visiting' \cap visited' = {}
      BY <1>8 DEF SearchOK, PathOK
  <2>4. ASSUME NEW j \in 1..n
        PROVE  /\ next'[stack'[j]] - 1 \in 1..Len(nodes[stack'[j]].depends_on)
               /\ DepAt(nodes, stack'[j], next'[stack'[j]] - 1) = stack'[j + 1]
    <3>1. CASE j = n
        BY <1>2, <1>3, <1>5, <1>6, <3>1, SearchTypes DEF Called
    <3>2. CASE j # n
      <4>1. j \in 1..(n - 1) /\ j + 1 \in 1..n /\ stack[j] # Top /\ stack[j] \in Positions
          BY <1>2, <1>9, <3>2
      <4>2. stack'[j] = stack[j] /\ stack'[j + 1] = stack[j + 1] /\ next'[stack[j]] = next[stack[j]]
          BY <1>5, <1>6, <4>1
      <4> QED
          BY <4>1, <4>2 DEF SearchOK, PathOK
    <3> QED
        BY <3>1, <3>2
  <2> QED
      BY <1>1, <1>2, <1>5, <2>1, <2>2, <2>3, <2>4 DEF PathOK
<1>11. TakenOK'
  <2>1. ASSUME NEW j \in 1..(n + 1), NEW k \in 1..(next'[stack'[j]] - 1)
        PROVE  \/ DepAt(nodes, stack'[j], k) \in visited'
               \/ j < n + 1 /\ k = next'[stack'[j]] - 1
    <3>1. CASE j = n + 1
      <4>1. next[Called] = 1 /\ Called # Top
          BY <1>2, <1>4, <1>8 DEF SearchOK, TakenOK
      <4> QED
          BY <1>4, <1>5, <1>6, <3>1, <4>1
    <3>2. CASE j = n
      <4>1. k \in 1..next[Top] /\ next[Top] \in Nat
          BY <1>2, <1>3, <1>5, <1>6, <3>2, SearchTypes
      <4>2. k = next[Top] \/ k \in 1..(next[Top] - 1)
          BY <4>1
      <4>3. k \in 1..(next[Top] - 1) => DepAt(nodes, Top, k) \in visited
          BY <1>2 DEF SearchOK, TakenOK
      <4> QED
          BY <1>2, <1>5, <1>6, <1>8, <3>2, <4>1, <4>2, <4>3
    <3>3. CASE j \in 1..(n - 1)
      <4>1. stack'[j] = stack[j] /\ next'[stack[j]] = next[stack[j]] /\ j \in 1..n
          BY <1>2, <1>5, <1>6, <1>9, <3>3
      <4> QED
          BY <1>2, <1>8, <3>3, <4>1 DEF SearchOK, TakenOK
    <3> QED
        BY <1>2, <3>1, <3>2, <3>3
  <2>2. \A i \in Positions : i \in visiting' \/ i \in visited' \/ next'[i] = 1
      BY <1>2, <1>6, <1>8 DEF SearchOK, TakenOK
  <2> QED
      BY <1>1, <1>5, <2>1, <2>2 DEF TakenOK
<1>12. NoCircleVisited'
    BY <1>1, <1>8 DEF SearchOK, NoCircleVisited
<1>13. RootsOK'
  <2>1. stack'[1] = stack[1] /\ stack' # <<>>
      BY <1>2, <1>5
  <2> QED
      BY <1>1, <1>8, <2>1 DEF SearchOK, RootsOK
<1>14. FlatWhenOrdered'
  <2> HIDE DEF Descend, Framed, Calling, Enter
  <2> SUFFICES ASSUME DependenciesFirst(nodes) PROVE FALSE
      BY <1>1 DEF FlatWhenOrdered
  <2>1. Len(stack) <= 1 /\ (Len(stack) = 1 => stack[1] = root - 1)
      BY DEF SearchOK, FlatWhenOrdered
  <2>2. Len(stack) = 1
      BY <1>2, <2>1
  <2>3. Top = root - 1 /\ stack[1] = Top
      BY <1>2, <2>1, <2>2
  <2>4. Called < Top
      BY <1>2, <1>3, OrderedDep, SearchTypes DEF Called, Positions
  <2>5. Called < root /\ Called # stack[1]
      BY <1>2, <1>4, <2>3, <2>4, SearchTypes DEF TypeOK
  <2> QED
      BY <1>4, <1>8, <2>5 DEF SearchOK, RootsOK
<1> QED
    BY <1>1, <1>7, <1>10, <1>11, <1>12, <1>13, <1>14 DEF SearchOK

LEMMA SkipVisitedKeeps ==
    ASSUME TypeOK, SearchOK, SkipVisited
    PROVE  TypeOK' /\ SearchOK'
<1> USE DEF SkipVisited, Framed, Calling, Advanced
<1>1. nodes' = nodes /\ Positions' = Positions
    BY DEF nodes, Positions
<1> DEFINE n == Len(stack)
<1>2. n \in Nat /\ n > 0 /\ Top \in Positions /\ Top = stack[n] /\ n \in 1..n
    BY SearchTypes DEF Top
<1>3. next[Top] \in Nat \ {0} /\ Called \in visited /\ Called = DepAt(nodes, Top, next[Top])
    BY <1>2, SearchTypes DEF Called
<1>4. /\ next' \in [Positions -> Nat \ {0}]
      /\ next'[Top] = next[Top] + 1
      /\ \A i \in Positions : i # Top => next'[i] = next[i]
    BY <1>2 DEF TypeOK
<1>5. /\ stack' = stack /\ visiting' = visiting /\ visited' = visited /\ root' = root
    OBVIOUS
<1>6. TypeOK'
    BY <1>1, <1>4, <1>5 DEF TypeOK, nodes
<1>7. \A j \in 1..n : stack[j] \in Positions /\ (stack[j] = Top => j = n)
    BY <1>2, SearchTypes DEF SearchOK, PathOK
<1>8. PathOK'
  <2>1. \A j \in 1..(n - 1) : stack[j] # Top /\ stack[j] \in Positions
      BY <1>2, <1>7
  <2>2. \A j \in 1..(n - 1) : next'[stack[j]] = next[stack[j]]
      BY <1>4, <2>1
  <2> QED
      BY <1>1, <1>5, <2>2 DEF SearchOK, PathOK
<1>9. TakenOK'
  <2>1. ASSUME NEW j \in 1..n, NEW k \in 1..(next'[stack[j]] - 1)
        PROVE  \/ DepAt(nodes, stack[j], k) \in visited
               \/ j < n /\ k = next'[stack[j]] - 1
    <3>1. CASE j = n
      <4>1. k = next[Top] \/ k \in 1..(next[Top] - 1)
          BY <1>2, <1>3, <1>4, <3>1
      <4>2. k \in 1..(next[Top] - 1) => DepAt(nodes, Top, k) \in visited
          BY <1>2 DEF SearchOK, TakenOK
      <4> QED
          BY <1>2, <1>3, <3>1, <4>1, <4>2
    <3>2. CASE j # n
        BY <1>4, <1>7, <3>2 DEF SearchOK, TakenOK
    <3> QED
        BY <3>1, <3>2
  <2>2. Top \in visiting
      BY <1>2 DEF SearchOK, PathOK
  <2>3. \A i \in Positions : i \in visiting \/ i \in visited \/ next'[i] = 1
      BY <1>4, <2>2 DEF SearchOK, TakenOK
  <2> QED
      BY <1>1, <1>5, <2>1, <2>3 DEF TakenOK
<1>10. NoCircleVisited' /\ RootsOK' /\ FlatWhenOrdered'
    BY <1>1, <1>5 DEF SearchOK, NoCircleVisited, RootsOK, FlatWhenOrdered
<1> QED
    BY <1>1, <1>6, <1>8, <1>9, <1>10 DEF SearchOK

LEMMA LeaveKeeps ==
    ASSUME TypeOK, SearchOK, Leave
    PROVE  TypeOK' /\ SearchOK'
<1> USE DEF Leave, Returning
<1>1. nodes' = nodes /\ Positions' = Positions
    BY DEF nodes, Positions
<1> DEFINE n == Len(stack)
<1>2. n \in Nat /\ n > 0 /\ Top \in Positions /\ Top = stack[n] /\ n \in 1..n
    BY SearchTypes DEF Top
<1>3. /\ stack' \in Seq(Positions) /\ Len(stack') = n - 1
      /\ \A j \in 1..(n - 1) : stack'[j] = stack[j]
  <2>1. stack \in Seq(Positions) /\ stack # <<>> /\ stack' = SubSeq(stack, 1, n - 1)
      BY DEF TypeOK
  <2> HIDE DEF Leave, Returning
  <2> QED
      BY <2>1, Shorter
<1>4. /\ visiting' = visiting \ {Top} /\ visited' = visited \cup {Top}
      /\ next' = next /\ root' = root
    OBVIOUS
<1>5. TypeOK'
    BY <1>1, <1>2, <1>3, <1>4, FramesAssumption DEF TypeOK, nodes
<1>6. \A j \in 1..(n - 1) : j \in 1..n /\ stack[j] # Top
    BY <1>2 DEF SearchOK, PathOK
<1>7. PathOK'
  <2>1. visiting' = {stack'[j] : j \in 1..(n - 1)}
    <3>1. visiting = {stack[j] : j \in 1..n}
        BY DEF SearchOK, PathOK
    <3>2. \A j \in 1..n : stack[j] # Top => j \in 1..(n - 1)
        BY <1>2
    <3> QED
        BY <1>3, <1>4, <1>6, <3>1, <3>2
  <2>2. \A j, k \in 1..(n - 1) : stack'[j] = stack'[k] => j = k
      BY <1>3, <1>6 DEF SearchOK, PathOK
  <2>3. visiting' \cap visited' = {}
      BY <1>4 DEF SearchOK, PathOK
  <2>4. ASSUME NEW j \in 1..((n - 1) - 1)
        PROVE  /\ next[stack'[j]] - 1 \in 1..Len(nodes[stack'[j]].depends_on)
               /\ DepAt(nodes, stack'[j], next[stack'[j]] - 1) = stack'[j + 1]
    <3>1. j \in 1..(n - 1) /\ j + 1 \in 1..(n - 1)
        BY <1>2
    <3> QED
        BY <1>3, <3>1 DEF SearchOK, PathOK
  <2> QED
      BY <1>1, <1>2, <1>3, <1>4, <2>1, <2>2, <2>3, <2>4 DEF PathOK
<1>8. TakenOK'
  <2>1. ASSUME NEW j \in 1..(n - 1), NEW k \in 1..(next[stack[j]] - 1)
        PROVE  \/ DepAt(nodes, stack[j], k) \in visited'
               \/ j < n - 1 /\ k = next[stack[j]] - 1
    <3>1. DepAt(nodes, stack[j], k) \in visited \/ k = next[stack[j]] - 1
        BY <1>6 DEF SearchOK, TakenOK
    <3>2. CASE k = next[stack[j]] - 1 /\ j = n - 1
      <4>1. DepAt(nodes, stack[j], k) = stack[j + 1] /\ stack[j + 1] = Top
          BY <1>2, <3>2 DEF SearchOK, PathOK
      <4> QED
          BY <1>4, <4>1
    <3>3. j < n - 1 \/ j = n - 1
        BY <1>2
    <3> QED
        BY <1>4, <3>1, <3>2, <3>3
  <2>2. \A i \in Positions : i \in visiting' \/ i \in visited' \/ next[i] = 1
      BY <1>4 DEF SearchOK, TakenOK
  <2> QED
      BY <1>1, <1>2, <1>3, <1>4, <2>1, <2>2 DEF TakenOK
<1>9. NoCircleVisited'
  <2> SUFFICES ASSUME NEW set \in SUBSET Positions, Circle(nodes, set), Top \in set
               PROVE  set \cap visited # {}
      BY <1>1, <1>4 DEF SearchOK, NoCircleVisited
  <2>1. PICK k \in 1..Len(nodes[Top].depends_on) : DepAt(nodes, Top, k) \in set
      BY <1>2, SearchTypes, GraphType DEF Circle, DependsWithin, Positions
  <2>2. k \in 1..(next[Top] - 1)
      BY <1>2, SearchTypes
  <2>3. DepAt(nodes, Top, k) \in visited
      BY <1>2, <2>2 DEF SearchOK, TakenOK
  <2> QED
      BY <2>1, <2>3
<1>10. RootsOK'
  <2>1. n = 1 => stack[1] = Top
      BY <1>2
  <2>2. n # 1 => stack' # <<>> /\ stack'[1] = stack[1]
    <3> HIDE DEF Leave, Returning
    <3> HIDE DEF n
    <3>1. n # 1 => n - 1 > 0 /\ 1 \in 1..(n - 1)
      <4>1. n \in Nat /\ n > 0
          BY <1>2
      <4> QED
          BY <4>1
    <3> QED
        BY <1>3, <3>1
  <2>3. \A i \in Positions : i < root => i \in visited' \/ (n # 1 /\ i = stack[1])
      BY <1>4, <2>1 DEF SearchOK, RootsOK
  <2> QED
      BY <1>1, <1>4, <2>2, <2>3 DEF RootsOK
<1>11. FlatWhenOrdered'
    BY <1>1, <1>2, <1>3 DEF SearchOK, FlatWhenOrdered
<1> QED
    BY <1>1, <1>5, <1>7, <1>8, <1>9, <1>10, <1>11 DEF SearchOK

-----------------------------------------------------------------------------
(* What the search returns. *)

\* The nodes above a dependency that is still being visited form a circle.
LEMMA FoundCycle ==
    ASSUME TypeOK, SearchOK, FindCycle
    PROVE  Cyclic(nodes) /\ ~DependenciesFirst(nodes)
<1> USE DEF FindCycle, Framed, Calling
<1> DEFINE n == Len(stack)
<1>1. n \in Nat /\ n > 0 /\ Top \in Positions /\ Top = stack[n]
    BY SearchTypes DEF Top
<1>2. next[Top] \in 1..Len(nodes[Top].depends_on) /\ Called = DepAt(nodes, Top, next[Top])
    BY <1>1, SearchTypes DEF Called
<1>3. PICK m \in 1..n : Called = stack[m]
    BY DEF SearchOK, PathOK
<1> DEFINE set == {stack[j] : j \in m..n}
<1>4. set # {} /\ set \in SUBSET DOMAIN nodes
    BY <1>1, SearchTypes DEF Positions
<1>5. ASSUME NEW j \in m..n
      PROVE  DependsWithin(nodes, stack[j], set)
  <2>1. j \in 1..n /\ stack[j] \in DOMAIN nodes /\ stack[m] \in set
      BY <1>1, SearchTypes DEF Positions
  <2>2. CASE j = n
      BY <1>1, <1>2, <1>3, <2>1, <2>2, SearchTypes, GraphType DEF DependsWithin
  <2>3. CASE j # n
    <3>1. j \in 1..(n - 1) /\ j + 1 \in m..n
        BY <1>1, <2>3
    <3>2. /\ next[stack[j]] - 1 \in 1..Len(nodes[stack[j]].depends_on)
          /\ DepAt(nodes, stack[j], next[stack[j]] - 1) = stack[j + 1]
        BY <3>1 DEF SearchOK, PathOK
    <3>3. next[stack[j]] - 1 \in DOMAIN nodes[stack[j]].depends_on
        BY <2>1, <3>2, SearchTypes, GraphType
    <3>4. DepAt(nodes, stack[j], next[stack[j]] - 1) \in set
        BY <3>1, <3>2
    <3> QED
        BY <3>3, <3>4 DEF DependsWithin
  <2> QED
      BY <2>2, <2>3
<1>6. Cyclic(nodes)
    BY <1>4, <1>5 DEF Cyclic, Circle
<1>7. ~DependenciesFirst(nodes)
  <2> HIDE DEF FindCycle, Framed, Calling
  <2> SUFFICES ASSUME DependenciesFirst(nodes) PROVE FALSE
      OBVIOUS
  <2>1. Len(stack) <= 1
      BY DEF SearchOK, FlatWhenOrdered
  <2>2. m = n
      BY <1>1, <2>1
  <2>3. Called < Top
      BY <1>1, <1>2, OrderedDep, SearchTypes DEF Positions
  <2> QED
      BY <1>1, <1>3, <2>2, <2>3, SearchTypes
<1> QED
    BY <1>6, <1>7

\* When every root has been visited there is no circle.
LEMMA JudgedAcyclic ==
    ASSUME TypeOK, SearchOK, Judge
    PROVE  ~Cyclic(nodes)
<1>1. Positions \subseteq visited
  <2>1. \A i \in Positions : i < root
      BY SearchTypes DEF Judge, TypeOK
  <2> QED
      BY <2>1 DEF Judge, SearchOK, RootsOK
<1> QED
    BY <1>1 DEF SearchOK, NoCircleVisited, Cyclic, Circle, Positions

\* More than one frame is only ever used for a graph out of order.
LEMMA OverflowDisordered ==
    ASSUME TypeOK, SearchOK, Overflow
    PROVE  ~DependenciesFirst(nodes)
<1>1. ~(Len(stack) <= 1)
    BY FramesAssumption DEF Overflow
<1> QED
    BY <1>1 DEF SearchOK, FlatWhenOrdered

\* The frames in use hold different nodes, so there are no more than nodes.
LEMMA OverflowFull ==
    ASSUME TypeOK, SearchOK, Overflow
    PROVE  Len(nodes) >= MaxFrames
<1> DEFINE n == Len(stack)
<1>1. n \in Nat /\ n = MaxFrames /\ Positions = 1..Len(nodes) /\ Len(nodes) \in Nat
    BY SearchTypes DEF Overflow
<1>2. stack \in [1..n -> Positions]
    BY DEF TypeOK
<1>3. \A j, k \in 1..n : stack[j] = stack[k] => j = k
    BY DEF SearchOK, PathOK
<1> HIDE DEF n
<1> DEFINE Frames == 1..n
<1>4. \A b \in Nat : IsFiniteSet(1..b) /\ Cardinality(1..b) = b
    BY FS_Interval
<1>5. /\ IsFiniteSet(Positions) /\ Cardinality(Positions) = Len(nodes)
      /\ IsFiniteSet(Frames) /\ Cardinality(Frames) = n
    BY <1>1, <1>4
<1>6. stack \in [Frames -> Positions] /\ \A j, k \in Frames : stack[j] = stack[k] => j = k
    BY <1>2, <1>3
<1> HIDE DEF Frames
<1>7. ~(Cardinality(Positions) < Cardinality(Frames))
    BY <1>5, <1>6, FS_PigeonHole
<1> QED
    BY <1>1, <1>5, <1>7

-----------------------------------------------------------------------------
(* The theorems. *)

LEMMA InitSound == Init => IInv
<1> SUFFICES ASSUME Init PROVE IInv
    OBVIOUS
<1>1. input.nodes \in Seq(Node)
    BY InputsAssumption DEF Init
<1>2. TypeOK
    BY <1>1, FramesAssumption DEF Init, TypeOK
<1> QED
    BY <1>2, NoneAssumption
    DEF Init, IInv, AnswerIsRight, ValidNeverOverflows, OverflowIsLong, Answers

LEMMA StepSound == IInv /\ [Next]_vars => IInv'
<1> SUFFICES ASSUME IInv, [Next]_vars PROVE IInv'
    OBVIOUS
<1>t. TypeOK /\ AnswerIsRight /\ ValidNeverOverflows /\ OverflowIsLong
    BY DEF IInv
\* While a call goes on there is no answer yet.
<1>a. ASSUME TypeOK', SearchOK', phase' = "search", answer' = answer, answer = None
      PROVE  IInv'
    BY <1>a, NoneAssumption
    DEF IInv, AnswerIsRight, ValidNeverOverflows, OverflowIsLong, Answers
\* An answer ends the call.
<1>b. ASSUME NEW reason \in Answers, Answer(reason),
             reason # "RecursionError" => reason = GraphAnswer(nodes, input.manifest),
             reason = "RecursionError" =>
                 ~DependenciesFirst(nodes) /\ Len(nodes) >= MaxFrames
      PROVE  IInv'
  <2>1. nodes' = nodes /\ input' = input /\ answer' = reason /\ phase' = "done"
      BY <1>b DEF Answer, nodes
  <2>2. TypeOK'
      BY <1>b, <1>t, <2>1 DEF TypeOK, Answer, nodes, Positions
  <2>3. AnswerIsRight' /\ ValidNeverOverflows' /\ OverflowIsLong'
      BY <1>b, <2>1 DEF AnswerIsRight, ValidNeverOverflows, OverflowIsLong
  <2> QED
      BY <2>1, <2>2, <2>3 DEF IInv
<1>1. CASE ScanRefuses
  <2>1. ScanReason(nodes) \in Answers /\ ScanReason(nodes) # "RecursionError"
      BY DEF ScanReason, Answers
  <2>2. ScanReason(nodes) = GraphAnswer(nodes, input.manifest)
      BY <1>1 DEF ScanRefuses, GraphAnswer
  <2> QED
      BY <1>1, <1>b, <2>1, <2>2 DEF ScanRefuses
<1>2. CASE ScanPasses
  <2> USE DEF ScanPasses
  <2>1. nodes' = nodes /\ Positions' = Positions
      BY <1>2 DEF nodes, Positions
  <2>2. TypeOK'
      BY <1>2, <1>t, <2>1 DEF TypeOK, nodes
  <2>3. /\ root' = 1 /\ stack' = <<>> /\ next' = [i \in Positions |-> 1]
        /\ visiting' = {} /\ visited' = {} /\ answer' = answer /\ answer = None
        /\ phase' = "search" /\ WellFormed(nodes)
      BY <1>2 DEF IInv
  <2>4. PathOK' /\ TakenOK' /\ NoCircleVisited'
      BY <2>1, <2>3 DEF PathOK, TakenOK, NoCircleVisited
  <2>5. RootsOK' /\ FlatWhenOrdered'
      BY <1>t, <2>1, <2>3, SearchTypes DEF RootsOK, FlatWhenOrdered
  <2> QED
      BY <1>a, <2>1, <2>2, <2>3, <2>4, <2>5 DEF SearchOK
<1>3. CASE EnterRoot
    BY <1>3, <1>a, <1>t, EnterRootKeeps DEF IInv, EnterRoot, BetweenRoots, Searching, Enter
<1>4. CASE SkipRoot
    BY <1>4, <1>a, <1>t, SkipRootKeeps DEF IInv, SkipRoot, BetweenRoots, Searching
<1>5. CASE Descend
    BY <1>5, <1>a, <1>t, DescendKeeps
    DEF IInv, Descend, Framed, Calling, Searching, Enter
<1>6. CASE SkipVisited
    BY <1>6, <1>a, <1>t, SkipVisitedKeeps DEF IInv, SkipVisited, Framed, Calling, Searching
<1>7. CASE FindCycle
  <2>1. SearchOK /\ Answer("PROOF_GRAPH_CYCLE")
      BY <1>7 DEF IInv, FindCycle, Framed, Calling, Searching
  <2>2. GraphAnswer(nodes, input.manifest) = "PROOF_GRAPH_CYCLE"
      BY <1>7, <1>t, <2>1, FoundCycle DEF GraphAnswer, SearchOK
  <2> QED
      BY <1>b, <2>1, <2>2 DEF Answers
<1>8. CASE Overflow
  <2>1. SearchOK /\ Answer("RecursionError")
      BY <1>8 DEF IInv, Overflow, Calling, Searching
  <2> QED
      BY <1>8, <1>b, <1>t, <2>1, OverflowDisordered, OverflowFull DEF Answers
<1>9. CASE Leave
    BY <1>9, <1>a, <1>t, LeaveKeeps DEF IInv, Leave, Returning, Searching
<1>10. CASE Judge
  <2>1. SearchOK /\ Answer(LinearReason(nodes, input.manifest))
      BY <1>10 DEF IInv, Judge, Searching
  <2>2. GraphAnswer(nodes, input.manifest) = LinearReason(nodes, input.manifest)
      BY <1>10, <1>t, <2>1, JudgedAcyclic DEF GraphAnswer, SearchOK
  <2>3. /\ LinearReason(nodes, input.manifest) \in Answers
        /\ LinearReason(nodes, input.manifest) # "RecursionError"
      BY DEF LinearReason, Answers
  <2> QED
      BY <1>b, <2>1, <2>2, <2>3
<1>11. CASE UNCHANGED vars
  <2>1. /\ nodes' = nodes /\ Positions' = Positions /\ input' = input /\ phase' = phase
        /\ root' = root /\ stack' = stack /\ next' = next /\ visiting' = visiting
        /\ visited' = visited /\ answer' = answer
      BY <1>11 DEF vars, nodes, Positions
  <2>2. TypeOK' /\ AnswerIsRight' /\ ValidNeverOverflows' /\ OverflowIsLong'
      BY <1>t, <2>1 DEF TypeOK, AnswerIsRight, ValidNeverOverflows, OverflowIsLong
  <2>3. SearchOK' <=> SearchOK
      BY <2>1 DEF SearchOK, PathOK, TakenOK, NoCircleVisited, RootsOK, FlatWhenOrdered
  <2> QED
      BY <2>1, <2>2, <2>3 DEF IInv
<1> QED
    BY <1>1, <1>2, <1>3, <1>4, <1>5, <1>6, <1>7, <1>8, <1>9, <1>10, <1>11 DEF Next

LEMMA SearchSound == Spec => []IInv
BY InitSound, StepSound, PTL DEF Spec

\* The search never leaves its data structures or exceeds its frames,
\* whatever graph it is given.
THEOREM SearchTypeCorrect == Spec => []TypeOK
<1>1. IInv => TypeOK
    BY DEF IInv
<1> QED
    BY <1>1, SearchSound, PTL

\* For every graph and manifest, validate_graph returns the reason that
\* GraphAnswer, which does not search, gives.
THEOREM SearchAnswersRight == Spec => []AnswerIsRight
<1>1. IInv => AnswerIsRight
    BY DEF IInv
<1> QED
    BY <1>1, SearchSound, PTL

\* However long an ordered graph is, two frames are enough to validate it.
THEOREM OrderedGraphFits == Spec => []ValidNeverOverflows
<1>1. IInv => ValidNeverOverflows
    BY DEF IInv
<1> QED
    BY <1>1, SearchSound, PTL

\* However the dependencies go round, a graph with fewer nodes than there are
\* frames never uses them up: what SmallGraphsAreAnswered says of safety.
THEOREM SmallGraphFits ==
    Spec => [](Len(nodes) < MaxFrames => answer # "RecursionError")
<1>1. IInv => (Len(nodes) < MaxFrames => answer # "RecursionError")
  <2>1. TypeOK => Len(nodes) \in Nat
      BY SearchTypes
  <2> QED
      BY <2>1, FramesAssumption DEF IInv, OverflowIsLong
<1> QED
    BY <1>1, SearchSound, PTL

\* However many paths lead to a node, its dependencies are gone through once.
THEOREM WorkIsLinear == Spec => NoWorkTwice
<1>1. IInv /\ [Next]_vars => [\A i \in Positions : next'[i] >= next[i]]_vars
  <2> SUFFICES ASSUME IInv, Next, NEW i \in Positions PROVE next'[i] >= next[i]
      BY DEF vars
  <2>1. TypeOK /\ next[i] \in Nat
      BY SearchTypes DEF IInv
  <2>2. CASE EnterRoot
      BY <2>1, <2>2, EnterRootNext DEF IInv, EnterRoot, BetweenRoots, Searching
  <2>3. CASE Descend
    <3>1. SearchOK
        BY <2>3 DEF IInv, Descend, Framed, Calling, Searching
    <3>2. next'[i] = next[i] \/ next'[i] = next[i] + 1
        BY <2>1, <2>3, <3>1, DescendNext
    <3> QED
        BY <2>1, <3>2
  <2>4. CASE SkipVisited
    <3>1. next' = [next EXCEPT ![Top] = next[Top] + 1]
        BY <2>4 DEF SkipVisited, Advanced
    <3>2. next'[i] = next[i] \/ next'[i] = next[i] + 1
        BY <2>1, <3>1 DEF TypeOK
    <3> QED
        BY <2>1, <3>2
  <2>5. CASE ~EnterRoot /\ ~Descend /\ ~SkipVisited
    <3>1. next' = next
        BY <2>5 DEF Next, ScanRefuses, ScanPasses, SkipRoot, FindCycle, Overflow, Leave,
           Judge, Answer
    <3> QED
        BY <2>1, <3>1
  <2> QED
      BY <2>2, <2>3, <2>4, <2>5
<1> QED
    BY <1>1, SearchSound, PTL DEF Spec, NoWorkTwice

=============================================================================
