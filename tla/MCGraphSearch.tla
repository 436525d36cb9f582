--------------------------- MODULE MCGraphSearch ---------------------------
(* Graphs for TLC: small ones of every shape, and the fixture's. *)
EXTENDS GraphSearch, SequencesExt

Depending(names, count) == UNION {[1..n -> names] : n \in 0..count}

\* Every graph over ids[1], ids[2], ... whose nodes have those names.
Named(ids, deps, stages) ==
    {[i \in DOMAIN ids |-> Row(ids[i], s[i], d[i])] :
        s \in [DOMAIN ids -> stages], d \in [DOMAIN ids -> deps]}

\* Repeated names, missing dependencies, self-references.
Pairs == UNION {Named(ids, Depending({"a", "b", "missing"}, 2), {0}) :
                    ids \in [1..2 -> {"a", "b"}]}

\* Shared and repeated dependencies, stages in any order.
Triples == Named(<<"a", "b", "c">>, Depending({"a", "b", "c"}, 2), {0, 1})

\* Diamonds and longer cycles.
Quadruples ==
    {g \in Named(<<"a", "b", "c", "d">>,
                 {q \in Depending({"a", "b", "c", "d"}, 2) : IsInjective(q)}, {0}) :
        \A i \in 1..4 : ~SelfReference(g, i)}

\* The fixture's graph, cut short.
Beginnings == {SubSeq(FixtureNodes, 1, n) : n \in 0..Len(FixtureNodes)}

\* The fixture's graph the wrong way round: every search goes deep.
Backwards == Reverse(FixtureNodes)

\* Its first nodes with one more dependency.
Entangled ==
    LET first == SubSeq(FixtureNodes, 1, 13) IN
    {WithDependency(first, id, dep) : id \in Ids(first), dep \in Ids(first)}

Own(graphs) == {[nodes |-> g, manifest |-> Manifest(g)] : g \in graphs}

Forged(g) ==
    {Truncated(Manifest(g)), [Manifest(g) EXCEPT !.graph_root_digest = Digest(<<>>)],
     Manifest(FixtureNodes)}

Graphs ==
    Own(Pairs \cup Triples \cup Quadruples \cup Beginnings \cup Entangled
            \cup {Backwards, ApprovalOnSnapshot, AttestationOnItself})
    \cup UNION {{[nodes |-> g, manifest |-> m] : m \in Forged(g)} : g \in Beginnings \ {<<>>}}
=============================================================================
