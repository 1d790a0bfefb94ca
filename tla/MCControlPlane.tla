--------------------------- MODULE MCControlPlane ---------------------------
(* The components of the control plane that share no state, one at a time: *)
(* the first state chooses the part whose steps are taken.                 *)
EXTENDS ReleaseLifecycle, PipelineDraft, EvaluationPolicy, EvaluationRun, PipelineValidation, TLC

VARIABLE part

Part == {"release", "draft", "policy", "evaluation", "validation"}

PlaneVars == <<releaseVars, draftVars, policyVars, evaluationVars, validated, part>>

PlaneInit ==
    /\ part \in Part
    /\ ReleaseInit /\ DraftInit /\ PolicyInit /\ EvaluationInit
    /\ ValidationInit

PlaneNext ==
    /\ \/ /\ part = "release" /\ ReleaseNext
          /\ UNCHANGED <<draftVars, policyVars, evaluationVars, validated>>
       \/ /\ part = "draft" /\ DraftNext
          /\ UNCHANGED <<releaseVars, policyVars, evaluationVars, validated>>
       \/ /\ part = "policy" /\ PolicyNext
          /\ UNCHANGED <<releaseVars, draftVars, evaluationVars, validated>>
       \/ /\ part = "evaluation" /\ EvaluationNext
          /\ UNCHANGED <<releaseVars, draftVars, policyVars, validated>>
       \/ /\ part = "validation" /\ ValidationNext
          /\ UNCHANGED <<releaseVars, draftVars, policyVars, evaluationVars>>
    /\ UNCHANGED part

PlaneSpec == PlaneInit /\ [][PlaneNext]_PlaneVars

-----------------------------------------------------------------------------
(* The definitions that are validated: the first stages in their order with *)
(* one change, and three nodes of open types with up to three edges.       *)
NodesOf(types) == [i \in DOMAIN types |-> [id |-> i, type |-> types[i], schema |-> 0, config |-> "absent"]]

Edge(m, n, p) == [source |-> m, sourcePort |-> p, target |-> n, targetPort |-> "in"]

Edges(n) == {Edge(a, b, "out") : a \in 1..n, b \in 1..n}

Chain(k) == [nodes |-> NodesOf(SubSeq(Stages, 1, k)), edges |-> [i \in 1..k-1 |-> Edge(i, i + 1, "out")]]

\* An edge is removed, added, replaced or turned around; a node is added, gets
\* the type or the id of another one, or a configuration or a version.
Changed(k) ==
    LET d == Chain(k)
    IN  {d} \cup {[d EXCEPT !.edges = RemoveAt(@, e)] : e \in 1..k-1}
        \cup {[d EXCEPT !.edges = Append(@, e)] : e \in Edges(k) \cup {Edge(1, 2, "side"), Edge(1, 99, "out")}}
        \cup {[d EXCEPT !.edges[e] = f] : e \in {1, k - 1}, f \in Edges(k)}
        \cup {[d EXCEPT !.edges = Reverse(@)], [d EXCEPT !.nodes = Reverse(@)]}
        \cup {[d EXCEPT !.nodes = Append(@, [d.nodes[i] EXCEPT !.id = n])] : i \in 1..k, n \in {1, k + 1}}
        \cup {[d EXCEPT !.nodes = Append(@, [d.nodes[i] EXCEPT !.id = k + 1]), !.edges = Append(@, Edge(j, k + 1, "out"))] :
                 i, j \in 1..k}
        \cup {[d EXCEPT !.nodes[i].type = t] : i \in 1..k, t \in ToSet(Stages) \cup {"unknown"}}
        \cup {[d EXCEPT !.nodes[i].id = n] : i, n \in 1..k}
        \cup {[d EXCEPT !.nodes[i].config = c] : i \in 1..k, c \in {"blank", "null", "{}", "filled"}}
        \cup {[d EXCEPT !.nodes[i].schema = n] : i \in 1..k, n \in {1, 2}}

\* Types without limits on their edges; a step may be part of a cycle or not.
OpenType(entry, cycles) ==
    [entry |-> entry, singleton |-> FALSE, answer |-> ~entry, cycles |-> cycles, schema |-> 1,
     inputs |-> {Port("in", 0)}, outputs |-> {Port("out", 0)}, targets |-> {}]

OpenRegistry(cycles) == [entry |-> OpenType(TRUE, FALSE), step |-> OpenType(FALSE, cycles)]

OpenDefinitions ==
    [nodes : {NodesOf(<<a, "step", b>>) : a, b \in {"entry", "step"}},
     edges : UNION {[1..n -> Edges(3)] : n \in 0..3}]

SomeProposals ==
    [registry : {BuiltinRegistry}, definition : UNION {Changed(k) : k \in {9, 10, 11}}, service : {TRUE}]
        \cup [registry : {BuiltinRegistry}, definition : {Chain(11)}, service : {FALSE}]
        \cup [registry : {OpenRegistry(c) : c \in BOOLEAN}, definition : OpenDefinitions, service : {TRUE}]

PlaneSymmetry == Permutations(Version) \cup Permutations(Request)
=============================================================================
