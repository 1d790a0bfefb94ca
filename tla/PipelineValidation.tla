-------------------------- MODULE PipelineValidation --------------------------
(***************************************************************************)
(* Validate, the gate of every pipeline definition: which errors it        *)
(* reports for a definition under a registry of node types, and the graph  *)
(* that Compile makes of a definition without errors.                      *)
(*                                                                         *)
(* A registry maps a node type to its ports and flags; the ports of a node *)
(* have different names.  A definition is a sequence of nodes and one of   *)
(* edges, as the client sent it: ids may repeat, and an edge may name      *)
(* nodes and ports that do not exist.  The order of the errors and their   *)
(* messages are left out.                                                  *)
(***************************************************************************)
EXTENDS Integers, FiniteSets, Sequences, SequencesExt

CONSTANT Proposals    \* what is compiled: [registry, definition, service]

VARIABLE validated    \* what was compiled: nothing yet, or one proposal

-----------------------------------------------------------------------------
Stages ==
    <<"init", "query_route", "semantic_cache_lookup", "query_rewrite", "multi_query", "hybrid_retrieve",
      "ark_rerank", "context_pack", "prompt_prefix_cache", "ark_generate", "semantic_cache_write">>

\* A port takes up to max connections; 0 is no limit.
Port(name, max) == [name |-> name, type |-> "rag_state", required |-> FALSE, max |-> max]

\* BuiltinRegistry: every stage is connected with the next one only.
BuiltinRegistry ==
    [t \in ToSet(Stages) |->
        LET i == CHOOSE k \in DOMAIN Stages : Stages[k] = t
            last == i = Len(Stages)
        IN  [entry |-> t = "init", singleton |-> t = "init", answer |-> t = "ark_generate", cycles |-> FALSE,
             schema |-> 1,
             inputs |-> IF i = 1 THEN {} ELSE {Port("in", 1)},
             outputs |-> IF last THEN {} ELSE {Port("out", 1)},
             targets |-> IF last THEN {} ELSE {Stages[i + 1]}]]

\* A configuration is not given, blank, null, an object without members, or
\* anything else; null is no object.
emptyNodeConfig(config) == config \in {"absent", "blank", "{}"}

Ids(d) == {d.nodes[i].id : i \in DOMAIN d.nodes}

\* nodes and definitions, filled in order: the last node of an id, and the
\* last one of a known type.
NodeOf(d, id) == d.nodes[CHOOSE i \in DOMAIN d.nodes :
    d.nodes[i].id = id /\ \A j \in DOMAIN d.nodes : d.nodes[j].id = id => j <= i]

Known(R, d) == {i \in DOMAIN d.nodes : d.nodes[i].type \in DOMAIN R}

Defined(R, d) == {d.nodes[i].id : i \in Known(R, d)}

DefinitionOf(R, d, id) == R[d.nodes[CHOOSE i \in Known(R, d) :
    d.nodes[i].id = id /\ \A j \in Known(R, d) : d.nodes[j].id = id => j <= i].type]

Entries(R, d) == {i \in Known(R, d) : R[d.nodes[i].type].entry}

findPort(ports, name) == {p \in ports : p.name = name}

-----------------------------------------------------------------------------
(***************************************************************************)
(* Edges                                                                   *)
(***************************************************************************)

\* The edges between nodes of known types.
Between(R, d) == {e \in DOMAIN d.edges : {d.edges[e].source, d.edges[e].target} \subseteq Defined(R, d)}

OutPort(R, d, e) == findPort(DefinitionOf(R, d, d.edges[e].source).outputs, d.edges[e].sourcePort)
InPort(R, d, e) == findPort(DefinitionOf(R, d, d.edges[e].target).inputs, d.edges[e].targetPort)

Ported(R, d) == {e \in Between(R, d) : OutPort(R, d, e) # {} /\ InPort(R, d, e) # {}}

Typed(R, d) == {e \in Ported(R, d) : \A p \in OutPort(R, d, e), q \in InPort(R, d, e) : p.type = q.type}

\* The edges that are counted, followed and searched for cycles.
Allowed(R, d) ==
    {e \in Typed(R, d) :
        LET targets == DefinitionOf(R, d, d.edges[e].source).targets
        IN  targets = {} \/ NodeOf(d, d.edges[e].target).type \in targets}

Connections(d, allowed, id, port, end) ==
    Cardinality({e \in allowed :
        IF end = "in" THEN d.edges[e].target = id /\ d.edges[e].targetPort = port.name
        ELSE d.edges[e].source = id /\ d.edges[e].sourcePort = port.name})

PortsOf(R, d, id) ==
    {<<p, "in">> : p \in DefinitionOf(R, d, id).inputs} \cup {<<p, "out">> : p \in DefinitionOf(R, d, id).outputs}

\* reachableFrom: what the entry leads to, after as many rounds as there are nodes.
reachableFrom(d, allowed, entry) ==
    FoldLeft(LAMBDA reached, round : reached \cup {d.edges[e].target : e \in {f \in allowed : d.edges[f].source \in reached}},
             {entry}, d.nodes)

\* validateCycles: the search keeps the nodes of its path and those it has
\* left; an edge back into the path is an error unless all nodes from its
\* target on allow cycles.  The result is what was left and what was found.
RECURSIVE Visit(_, _, _, _, _, _)

Visit(R, d, allowed, id, path, found) ==
    LET here == Append(path, id)
        follow(e, acc) ==
            LET n == d.edges[e].target
            IN  IF n \in ToSet(here)
                THEN LET ring == {here[k] : k \in {j \in DOMAIN here : \E i \in 1..j : here[i] = n}}
                     IN  [acc EXCEPT !.errors = @ \cup
                             IF \A r \in ring : DefinitionOf(R, d, r).cycles THEN {} ELSE {e}]
                ELSE IF n \in acc.left THEN acc
                ELSE Visit(R, d, allowed, n, here, acc)
        edges == SelectSeq([e \in DOMAIN d.edges |-> e], LAMBDA e : e \in allowed /\ d.edges[e].source = id)
        after == FoldLeft(LAMBDA acc, e : follow(e, acc), found, edges)
    IN  [after EXCEPT !.left = @ \cup {id}]

\* Mutant: the search does not start at the last node.
VisitsButLast(R, d) ==
    LET ids == Defined(R, d)
    IN  [k \in 1..Cardinality(ids)-1 |-> CHOOSE id \in ids : Cardinality({n \in ids : n < id}) = k - 1]

\* The nodes in the order of their ids: each is visited unless it was left.
Visits(R, d) ==
    LET ids == Defined(R, d)
    IN  [k \in 1..Cardinality(ids) |-> CHOOSE id \in ids : Cardinality({n \in ids : n < id}) = k - 1]

validateCycles(R, d, allowed) ==
    FoldLeft(LAMBDA acc, id : IF id \in acc.left THEN acc ELSE Visit(R, d, allowed, id, << >>, acc),
             [left |-> {}, errors |-> {}], Visits(R, d)).errors

-----------------------------------------------------------------------------
\* portCounts: the ports of the known nodes, with their connections.
PortCounts(R, d, allowed) ==
    UNION {{[at |-> <<id, p[1].name>>, port |-> p[1], end |-> p[2], count |-> Connections(d, allowed, id, p[1], p[2])] :
               p \in PortsOf(R, d, id)} : id \in Defined(R, d)}

\* Validate: for every code, the nodes, edges or ports it is reported at; what
\* is said of the whole definition is reported at "definition".
Validate(R, d) ==
    LET nodes == d.nodes
        allowed == Allowed(R, d)
        At(places) == {nodes[i].id : i \in places}
        ports == PortCounts(R, d, allowed)
        Unconnected(end) == {c.at : c \in {p \in ports : p.end = end /\ p.port.required /\ p.count = 0}}
        Whole(wrong) == IF wrong THEN {"definition"} ELSE {}
    IN  [unknown_node_type |-> At(DOMAIN nodes \ Known(R, d)),
         invalid_node_config |-> At({i \in Known(R, d) : ~emptyNodeConfig(nodes[i].config)}),
         unsupported_schema_version |-> At({i \in Known(R, d) : nodes[i].schema \notin {0, R[nodes[i].type].schema}}),
         duplicate_singleton |-> At({i \in Known(R, d) :
             R[nodes[i].type].singleton /\ \E j \in 1..i-1 : nodes[j].type = nodes[i].type}),
         invalid_query_entry_count |-> Whole(Cardinality(Entries(R, d)) # 1),
         missing_answer_producer |-> Whole(\A i \in Known(R, d) : ~R[nodes[i].type].answer),
         unknown_edge_node |-> {e \in DOMAIN d.edges : ~({d.edges[e].source, d.edges[e].target} \subseteq Ids(d))},
         unknown_port |-> Between(R, d) \ Ported(R, d),
         incompatible_port_types |-> Ported(R, d) \ Typed(R, d),
         edge_not_allowed |-> Typed(R, d) \ allowed,
         port_cardinality_exceeded |-> {c.at : c \in {p \in ports : p.port.max > 0 /\ p.count > p.port.max}},
         missing_required_input |-> Unconnected("in"),
         non_exhaustive_branch |-> Unconnected("out"),
         unreachable_node |-> UNION {Defined(R, d) \ reachableFrom(d, allowed, nodes[i].id) :
                                    i \in {j \in Entries(R, d) : Entries(R, d) = {j}}},
         cycle_not_allowed |-> validateCycles(R, d, allowed)]

Valid(R, d) == LET errors == Validate(R, d) IN \A code \in DOMAIN errors : errors[code] = {}

\* The stages that have an implementation.
Implemented == ToSet(Stages)

\* The graph library takes no node and no edge twice.
GraphAccepts(d, edges) == Cardinality(Ids(d)) = Len(d.nodes) /\ Cardinality(edges) = Len(d.edges)

\* Compile: the graph of a definition, or none.  It starts where no edge
\* leads to and ends where none leads on.
Compile(p) ==
    LET d == p.definition
        edges == {<<d.edges[e].source, d.edges[e].target>> : e \in DOMAIN d.edges}
        accepted ==
            /\ Valid(p.registry, d) /\ p.service
            /\ \A i \in DOMAIN d.nodes : d.nodes[i].type \in Implemented
            /\ GraphAccepts(d, edges)
    IN  IF accepted
        THEN {[edges |-> edges, starts |-> Ids(d) \ {e[2] : e \in edges}, ends |-> Ids(d) \ {e[1] : e \in edges}]}
        ELSE {}

ValidationInit == validated = {}

ValidationNext == validated = {} /\ \E p \in Proposals : validated' = {p}

ValidationSpec == ValidationInit /\ [][ValidationNext]_validated

-----------------------------------------------------------------------------
\* The graph goes through the first k stages, each once and in their order.
RunsThrough(d, graph, k) ==
    LET type == [id \in Ids(d) |-> NodeOf(d, id).type]
    IN  /\ Len(d.nodes) = k /\ {type[id] : id \in Ids(d)} = {Stages[i] : i \in 1..k}
        /\ {<<type[e[1]], type[e[2]]>> : e \in graph.edges} = {<<Stages[i], Stages[i + 1]>> : i \in 1..k-1}
        /\ {type[id] : id \in graph.starts} = {"init"} /\ {type[id] : id \in graph.ends} = {Stages[k]}

\* What compiles under the built-in registry is a run of the stages in their
\* order, each once, from the query entry through the stage that answers:
\* nothing branches, repeats, is skipped or left aside, although no single
\* check of Validate says so (Validate, Compile).
AcceptedIsChain ==
    \A p \in validated : p.registry = BuiltinRegistry =>
        \A graph \in Compile(p) :
            \E k \in DOMAIN Stages : RunsThrough(p.definition, graph, k) /\ "ark_generate" \in {Stages[i] : i \in 1..k}

\* The nodes that a ring of edges goes through.
Returns(R, d) ==
    LET allowed == Allowed(R, d)
    IN  {id \in Defined(R, d) : \E e \in allowed : d.edges[e].source = id /\ id \in reachableFrom(d, allowed, d.edges[e].target)}

\* The search for cycles finds one exactly when there is one, in whichever
\* order nodes and edges come; where some types allow cycles, what it finds is
\* a cycle through a node that does not (validateCycles).
CyclesAreFound ==
    \A p \in validated :
        LET found == validateCycles(p.registry, p.definition, Allowed(p.registry, p.definition)) # {}
            forbidden == \E id \in Returns(p.registry, p.definition) : ~DefinitionOf(p.registry, p.definition, id).cycles
        IN  /\ found => forbidden
            /\ (\A t \in DOMAIN p.registry : ~p.registry[t].cycles) => (forbidden => found)

\* What Validate and Compile accept can be executed, and the cycles they
\* report are the cycles there are.
ValidationIsExact == AcceptedIsChain /\ CyclesAreFound
=============================================================================
