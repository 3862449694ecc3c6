---------------------------- MODULE KdlDocuments ----------------------------
(***************************************************************************)
(* The two readers that make a document of the parser's events             *)
(* (Document::read_from of kdlpp.cpp, parse of _ckdl.pyx) and the writer   *)
(* that makes calls of the emitter of it (emit_nodes, _emit_node).         *)
(*                                                                         *)
(* A node's path says which node of the document it is, then which child   *)
(* of that one, and so on; <<>> is the document.  A document is a function *)
(* from the paths of its nodes.  The readers' pointers are paths.          *)
(***************************************************************************)
EXTENDS Integers, Sequences, SequencesExt

NoNode == <<0>>

EmptyNode(event) == [label |-> event.label, args |-> <<>>, properties |-> <<>>]

Children(nodes, path) ==
    {p \in DOMAIN nodes : p # <<>> /\ Front(p) = path}

\* node_list, nodes: the list that is pointed to is that of the node on the path
NewReader == [nodes |-> <<>>, node_list |-> <<>>, current_node |-> NoNode, stack |-> <<>>]

\* The nodes, with another one on the path.
With(nodes, path, node) ==
    [p \in DOMAIN nodes \cup {path} |-> IF p = path THEN node ELSE nodes[p]]

\* Mutant of StartNode: the list stays the one the node is in.
StartNodeFlat(r, event) ==
    LET path == Append(r.node_list, Cardinality(Children(r.nodes, r.node_list)) + 1)
    IN [r EXCEPT !.nodes = With(@, path, EmptyNode(event)),
                 !.current_node = path, !.stack = Append(@, path)]

StartNode(r, event) ==
    LET path == Append(r.node_list, Cardinality(Children(r.nodes, r.node_list)) + 1)
    IN [nodes |-> With(r.nodes, path, EmptyNode(event)),
        node_list |-> path, current_node |-> path, stack |-> Append(r.stack, path)]

\* Mutant of EndNode: at the top, the list is not the document's again.
EndNodeAtTop(r) ==
    LET stack == Front(r.stack)
    IN IF stack = <<>> THEN [r EXCEPT !.stack = stack, !.current_node = NoNode]
       ELSE [r EXCEPT !.stack = stack, !.node_list = Last(stack), !.current_node = Last(stack)]

EndNode(r) ==
    LET stack == Front(r.stack)
    IN IF stack = <<>>
       THEN [r EXCEPT !.stack = stack, !.node_list = <<>>, !.current_node = NoNode]
       ELSE [r EXCEPT !.stack = stack, !.node_list = Last(stack), !.current_node = Last(stack)]

\* Python leaves current_node where it is.
PyEndNode(r) ==
    LET stack == Front(r.stack)
    IN [r EXCEPT !.stack = stack, !.node_list = IF stack = <<>> THEN <<>> ELSE Last(stack)]

Argument(r, event) ==
    [r EXCEPT !.nodes[r.current_node].args = Append(@, event.value)]

\* The last one of a name stays.
Property(r, event) ==
    [r EXCEPT !.nodes[r.current_node].properties = event.label :> event.value @@ @]

Entry(r, event) ==
    IF event.kind = "ARGUMENT" THEN Argument(r, event) ELSE Property(r, event)

\* Document::read_from, up to the end of the events
Read(r, event) ==
    CASE event.kind = "START_NODE" -> StartNode(r, event)
      [] event.kind = "END_NODE" -> EndNode(r)
      [] OTHER -> Entry(r, event)

ReadFrom(events) ==
    LET after[i \in 0..Len(events)] ==
            IF i = 0 THEN NewReader ELSE Read(after[i - 1], events[i])
    IN after[Len(events)]

\* parse, of the Python bindings
PyRead(r, event) ==
    CASE event.kind = "START_NODE" -> StartNode(r, event)
      [] event.kind = "END_NODE" -> PyEndNode(r)
      [] OTHER -> Entry(r, event)

PyParse(events) ==
    LET after[i \in 0..Len(events)] ==
            IF i = 0 THEN NewReader ELSE PyRead(after[i - 1], events[i])
    IN after[Len(events)]

-----------------------------------------------------------------------------
\* emit_nodes: the calls of the emitter, as the events that its text is read as.
\* std::map has its names in order.
EmitEntries(node) ==
    LET names == SetToSortSeq(DOMAIN node.properties, <)
    IN [i \in DOMAIN node.args |-> [kind |-> "ARGUMENT", value |-> node.args[i]]]
       \o [i \in DOMAIN names |-> [kind |-> "PROPERTY", label |-> names[i],
                                   value |-> node.properties[names[i]]]]

\* Mutant of EmitNodes: the children are not put in braces.
EmitNodesFlat(nodes) ==
    LET emitted[path \in Seq(Nat)] ==
            LET count == Cardinality(Children(nodes, path))
                inside == FlattenSeq([i \in 1..count |-> emitted[Append(path, i)]])
            IN IF path = <<>> THEN inside
               ELSE <<[kind |-> "START_NODE", label |-> nodes[path].label]>>
                    \o EmitEntries(nodes[path]) \o <<[kind |-> "END_NODE"]>> \o inside
    IN emitted[<<>>]

EmitNodes(nodes) ==
    LET emitted[path \in Seq(Nat)] ==
            LET count == Cardinality(Children(nodes, path))
                inside == FlattenSeq([i \in 1..count |-> emitted[Append(path, i)]])
            IN IF path = <<>> THEN inside
               ELSE <<[kind |-> "START_NODE", label |-> nodes[path].label]>>
                    \o EmitEntries(nodes[path]) \o inside \o <<[kind |-> "END_NODE"]>>
    IN emitted[<<>>]

-----------------------------------------------------------------------------
\* A pointer to a node is good as long as no other was put behind it in its list:
\* emplace_back may move them all.
IsLatest(nodes, path) == \A p \in Children(nodes, Front(path)) : Last(p) <= Last(path)
=============================================================================
