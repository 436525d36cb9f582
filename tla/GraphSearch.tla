---------------------------- MODULE GraphSearch ----------------------------
(***************************************************************************)
(* validate_graph, one call of the nested visit per step: a first pass     *)
(* over the nodes, a depth-first search for a cycle, and the judgement of  *)
(* order and manifest.  The interpreter gives the search MaxFrames nested  *)
(* calls; one more raises RecursionError, which nobody catches.            *)
(***************************************************************************)
EXTENDS ProofGraph

CONSTANTS
    Inputs,     \* the graphs and manifests a caller may hand in
    MaxFrames,  \* how many calls of visit may be nested
    None        \* no answer yet

\* A ProofNode; what else the digest covers takes no part in the search.
Node == [object_id : STRING, stage : Nat, depends_on : Seq(STRING)]

ASSUME InputsAssumption == \A in \in Inputs : in.nodes \in Seq(Node)

ASSUME FramesAssumption == MaxFrames \in Nat /\ MaxFrames >= 2

Answers == {"DUPLICATE_PROOF_OBJECT_ID", "INVALID_DEPENDENCY_ORDER", "PROOF_GRAPH_CYCLE",
            "PROOF_GRAPH_INCOMPLETE", "PROOF_GRAPH_VALID", "RecursionError"}

ASSUME NoneAssumption == None \notin Answers

VARIABLES
    input,     \* the graph under validation and its manifest
    phase,     \* "scan", "search" or "done"
    root,      \* the node the outermost loop visits next
    stack,     \* the nodes whose visit has not returned, outermost first
    next,      \* for each node, which of its dependencies its visit takes next
    visiting,
    visited,
    answer

vars == <<input, phase, root, stack, next, visiting, visited, answer>>

nodes == input.nodes
Positions == DOMAIN nodes

Init ==
    /\ input \in Inputs
    /\ phase = "scan"
    /\ root = 1
    /\ stack = <<>>
    /\ next = [i \in Positions |-> 1]
    /\ visiting = {}
    /\ visited = {}
    /\ answer = None

-----------------------------------------------------------------------------
Answer(reason) ==
    /\ phase' = "done"
    /\ answer' = reason
    /\ UNCHANGED <<input, root, stack, next, visiting, visited>>

ScanRefuses ==
    /\ phase = "scan"
    /\ ~WellFormed(nodes)
    /\ Answer(ScanReason(nodes))

ScanPasses ==
    /\ phase = "scan"
    /\ WellFormed(nodes)
    /\ phase' = "search"
    /\ UNCHANGED <<input, root, stack, next, visiting, visited, answer>>

-----------------------------------------------------------------------------
(* The loop over the graph, and visit. *)

Searching == phase = "search"

\* A call of visit on node i, past its two tests: its loop starts at the first
\* dependency, those of the calls below are where taken says.
Enter(i, taken) ==
    /\ stack' = Append(stack, i)
    /\ visiting' = visiting \cup {i}
    /\ next' = [taken EXCEPT ![i] = 1]
    /\ UNCHANGED <<input, phase, visited, answer>>

BetweenRoots == Searching /\ stack = <<>> /\ root \in Positions

EnterRoot ==
    /\ BetweenRoots
    /\ root \notin visited
    /\ root' = root + 1
    /\ Enter(root, next)

SkipRoot ==
    /\ BetweenRoots
    /\ root \in visited
    /\ root' = root + 1
    /\ UNCHANGED <<input, phase, stack, next, visiting, visited, answer>>

Top == stack[Len(stack)]

\* The innermost visit still has a dependency to follow, and may.
Calling == Searching /\ stack # <<>> /\ next[Top] <= Len(nodes[Top].depends_on)
Called == DepAt(nodes, Top, next[Top])
Framed == Calling /\ Len(stack) < MaxFrames

\* The innermost loop moves on.
Advanced == [next EXCEPT ![Top] = @ + 1]

\* Mutant of Descend: a deeper call is made however many are nested.
DescendUnbounded ==
    /\ Calling
    /\ Called \notin visiting \cup visited
    /\ Enter(Called, Advanced)
    /\ UNCHANGED root

\* Mutant of Descend: visit does not test whether the node is being visited.
DescendAgain ==
    /\ Framed
    /\ Called \notin visited
    /\ Enter(Called, Advanced)
    /\ UNCHANGED root

Descend ==
    /\ Framed
    /\ Called \notin visiting \cup visited
    /\ Enter(Called, Advanced)
    /\ UNCHANGED root

SkipVisited ==
    /\ Framed
    /\ Called \in visited \ visiting
    /\ next' = Advanced
    /\ UNCHANGED <<input, phase, root, stack, visiting, visited, answer>>

FindCycle ==
    /\ Framed
    /\ Called \in visiting
    /\ Answer("PROOF_GRAPH_CYCLE")

Overflow ==
    /\ Calling
    /\ Len(stack) = MaxFrames
    /\ Answer("RecursionError")

Returning ==
    /\ Searching
    /\ stack # <<>>
    /\ next[Top] > Len(nodes[Top].depends_on)
    /\ stack' = SubSeq(stack, 1, Len(stack) - 1)

\* Mutant of Leave: a visit that returns True leaves its node in visiting.
LeaveVisiting ==
    /\ Returning
    /\ visited' = visited \cup {Top}
    /\ UNCHANGED <<input, phase, root, next, visiting, answer>>

\* Mutant of Leave: what has been visited is not remembered.
LeaveForgotten ==
    /\ Returning
    /\ visiting' = visiting \ {Top}
    /\ UNCHANGED <<input, phase, root, next, visited, answer>>

Leave ==
    /\ Returning
    /\ visiting' = visiting \ {Top}
    /\ visited' = visited \cup {Top}
    /\ UNCHANGED <<input, phase, root, next, answer>>

\* Every visit has returned True: order, manifest and required nodes.
Judge ==
    /\ Searching
    /\ stack = <<>>
    /\ root \notin Positions
    /\ Answer(LinearReason(nodes, input.manifest))

Next ==
    \/ ScanRefuses \/ ScanPasses
    \/ EnterRoot \/ SkipRoot
    \/ Descend \/ SkipVisited \/ FindCycle \/ Overflow \/ Leave
    \/ Judge

\* A call of a function runs until it returns.
Spec == Init /\ [][Next]_vars /\ WF_vars(Next)

-----------------------------------------------------------------------------
(* The search keeps to its data structures, and to the frames it is given. *)
TypeOK ==
    /\ input.nodes \in Seq(Node)
    /\ phase \in {"scan", "search", "done"}
    /\ root \in Nat \ {0}
    /\ stack \in Seq(Positions)
    /\ Len(stack) <= MaxFrames
    /\ next \in [Positions -> Nat \ {0}]
    /\ visiting \subseteq Positions
    /\ visited \subseteq Positions
    /\ answer \in Answers \cup {None}

\* However nodes are ordered and shared, the search that keeps visiting and
\* visited apart gives the reason the graph deserves: what validate_graph
\* returns is PROOF_GRAPH_VALID for no other graph, and PROOF_GRAPH_CYCLE
\* only for a graph in which dependencies can be followed for ever.
AnswerIsRight ==
    answer \notin {None, "RecursionError"} => answer = GraphAnswer(nodes, input.manifest)

\* A graph that is serialised in dependency order is judged however long it
\* is: dependencies come first, so visit never nests deeper than one call
\* from the loop.  Only a graph that is to be refused anyway can exhaust the
\* interpreter's frames.
ValidNeverOverflows == answer = "RecursionError" => ~DependenciesFirst(nodes)

\* No node's dependencies are gone through twice, by however many paths the
\* search comes back to it: visit asks visited before it loops
\* (harness.py:434-437), so a graph costs one call for each of its nodes and
\* dependencies and not one for each of its paths.
NoWorkTwice == [][\A i \in Positions : next'[i] >= next[i]]_vars

\* A graph with fewer nodes than there are frames is answered, whatever shape
\* it has: a dependency that goes round in a circle is found the first time it
\* comes back (harness.py:432) and does not use up the frames.
SmallGraphsAreAnswered ==
    Len(nodes) < MaxFrames => <>(answer \notin {None, "RecursionError"})

=============================================================================
