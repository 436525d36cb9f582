---------------------------- MODULE ProofGraph ----------------------------
(***************************************************************************)
(* The proof graph: the nodes a fixture serialises in order, the manifest  *)
(* that commits to them, and, declaratively, what validate_graph is to     *)
(* answer.  A node is named by its position.  Module GraphSearch steps     *)
(* through the way the code finds the answer.                              *)
(***************************************************************************)
EXTENDS Digests, Naturals, Sequences

-----------------------------------------------------------------------------
(* The first pass: every node once, none its own dependency, none missing. *)

Duplicate(nodes, i) == \E j \in 1..(i - 1) : nodes[j].object_id = nodes[i].object_id

SelfReference(nodes, i) == nodes[i].object_id \in Range(nodes[i].depends_on)

\* A repeated name is reported unless a self-reference was met before it.
DuplicateFirst(nodes) ==
    \E i \in DOMAIN nodes :
        /\ Duplicate(nodes, i)
        /\ \A j \in 1..(i - 1) : ~SelfReference(nodes, j)

Ids(nodes) == {nodes[i].object_id : i \in DOMAIN nodes}

WellFormed(nodes) ==
    \A i \in DOMAIN nodes :
        /\ ~Duplicate(nodes, i)
        /\ ~SelfReference(nodes, i)
        /\ Range(nodes[i].depends_on) \subseteq Ids(nodes)

ScanReason(nodes) ==
    IF DuplicateFirst(nodes) THEN "DUPLICATE_PROOF_OBJECT_ID" ELSE "INVALID_DEPENDENCY_ORDER"

-----------------------------------------------------------------------------
(* Cycles and order. *)

Position(nodes, id) == CHOOSE i \in DOMAIN nodes : nodes[i].object_id = id

\* The position of the k-th dependency of node i.
DepAt(nodes, i, k) == Position(nodes, nodes[i].depends_on[k])

DependsWithin(nodes, i, set) ==
    \E k \in DOMAIN nodes[i].depends_on : DepAt(nodes, i, k) \in set

\* Nodes that can be followed from dependency to dependency for ever.
Circle(nodes, set) == set # {} /\ \A i \in set : DependsWithin(nodes, i, set)

Cyclic(nodes) == \E set \in SUBSET DOMAIN nodes : Circle(nodes, set)

\* The serialised order is topological, and no stage builds on a later one.
DependenciesFirst(nodes) ==
    \A i \in DOMAIN nodes : \A k \in DOMAIN nodes[i].depends_on :
        LET d == DepAt(nodes, i, k) IN d < i /\ nodes[d].stage <= nodes[i].stage

-----------------------------------------------------------------------------
(* The manifest. *)

Committed(nodes) ==
    [i \in DOMAIN nodes |-> <<nodes[i].object_id, Digest(nodes[i]), nodes[i].stage>>]

Manifest(nodes) ==
    [ordered_nodes |-> Committed(nodes), graph_root_digest |-> Digest(Committed(nodes))]

Required == {"obligation", "register", "contract", "observation",
             "attestation", "approval", "snapshot", "standing"}

Complete(nodes, manifest) == manifest = Manifest(nodes) /\ Required \subseteq Ids(nodes)

\* What is left to say of a graph without a cycle.
LinearReason(nodes, manifest) ==
    IF ~DependenciesFirst(nodes) THEN "INVALID_DEPENDENCY_ORDER"
    ELSE IF ~Complete(nodes, manifest) THEN "PROOF_GRAPH_INCOMPLETE"
    ELSE "PROOF_GRAPH_VALID"

\* The answer, without the search: a cycle is only ever looked for in vain
\* when dependencies come first, so it decides nothing but the reason.
GraphAnswer(nodes, manifest) ==
    IF ~WellFormed(nodes) THEN ScanReason(nodes)
    ELSE IF ~DependenciesFirst(nodes) /\ Cyclic(nodes) THEN "PROOF_GRAPH_CYCLE"
    ELSE LinearReason(nodes, manifest)

-----------------------------------------------------------------------------
(* The graph every fixture carries (_proof_graph) and the attacks on it. *)

Row(id, stage, depends_on) ==
    [object_id |-> id, stage |-> stage, depends_on |-> depends_on]

FixtureNodes == <<
    Row("obligation", 0, <<>>),
    Row("register", 0, <<>>),
    Row("candidate", 0, <<>>),
    Row("closure", 0, <<>>),
    Row("interpretation", 0, <<>>),
    Row("tcb", 0, <<>>),
    Row("contract", 1, <<"register", "tcb">>),
    Row("observation", 2, <<"contract">>),
    Row("precontext", 2, <<"obligation", "register", "candidate", "closure",
                           "interpretation", "tcb", "contract", "observation">>),
    Row("derive_auth", 3, <<"precontext", "register">>),
    Row("attestation", 3, <<"precontext", "derive_auth">>),
    Row("approve_auth", 4, <<"precontext", "attestation", "register">>),
    Row("approval", 4, <<"precontext", "attestation", "approve_auth">>),
    Row("snapshot", 5, <<"precontext", "approval">>),
    Row("standing", 6, <<"snapshot">>),
    Row("activate_auth", 7, <<"snapshot", "standing", "register">>),
    Row("activation", 7, <<"activate_auth", "standing">>),
    Row("engine_observation", 8, <<"activation">>),
    Row("decision", 9, <<"standing", "engine_observation">>),
    Row("commit_guard", 10, <<"decision", "engine_observation">>),
    Row("commit_result", 10, <<"commit_guard">>) >>

\* One node is given one more dependency.
WithDependency(nodes, id, dep) ==
    [nodes EXCEPT ![Position(nodes, id)].depends_on = Append(@, dep)]

ApprovalOnSnapshot == WithDependency(FixtureNodes, "approval", "snapshot")
AttestationOnItself == WithDependency(FixtureNodes, "attestation", "attestation")

\* The manifest forgets the last node it commits to.
Truncated(manifest) ==
    [manifest EXCEPT !.ordered_nodes = SubSeq(@, 1, Len(@) - 1)]

FixtureManifest == Manifest(FixtureNodes)

\* What validate_graph says of the graph as it is, and of the attacked ones.
FixtureGraph == GraphAnswer(FixtureNodes, FixtureManifest)
CyclicGraph == GraphAnswer(ApprovalOnSnapshot, FixtureManifest)
SelfGraph == GraphAnswer(AttestationOnItself, FixtureManifest)
TruncatedGraph == GraphAnswer(FixtureNodes, Truncated(FixtureManifest))

=============================================================================
