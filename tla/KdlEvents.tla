------------------------------ MODULE KdlEvents ------------------------------
(***************************************************************************)
(* What the event stream of a KDL parser promises its reader: an abstract  *)
(* specification of kdl_parser_next_event as seen through the loop of      *)
(* Document::read_from (bindings/cpp/src/kdlpp.cpp).  Nodes nest, entries  *)
(* arrive only while a node is open, a complete document leaves no node    *)
(* open, and nothing follows the end of the stream.                        *)
(***************************************************************************)
EXTENDS Naturals

VARIABLES
    open,       \* how many nodes have been started and not ended
    latest      \* kind of the latest event, "NONE" before the first

vars == <<open, latest>>

Reading == latest \notin {"EOF", "PARSE_ERROR"}

Init == open = 0 /\ latest = "NONE"

StartNode == Reading /\ open' = open + 1 /\ latest' = "START_NODE"
EndNode   == Reading /\ open > 0 /\ open' = open - 1 /\ latest' = "END_NODE"
Entry     == /\ Reading /\ open > 0
             /\ latest' \in {"ARGUMENT", "PROPERTY"}
             /\ UNCHANGED open
Complete  == Reading /\ open = 0 /\ latest' = "EOF" /\ UNCHANGED open
Broken    == Reading /\ latest' = "PARSE_ERROR" /\ UNCHANGED open

Next == StartNode \/ EndNode \/ Entry \/ Complete \/ Broken

Spec == Init /\ [][Next]_vars
==============================================================================
