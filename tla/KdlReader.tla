------------------------------ MODULE KdlReader ------------------------------
(***************************************************************************)
(* The parser together with the program that reads it: the loop of         *)
(* Document::read_from (bindings/cpp/src/kdlpp.cpp), which keeps a stack   *)
(* of the nodes it has been told are open.  Only the height of that stack  *)
(* matters here.  A reader that asked for comments skips them, so events   *)
(* that /- removes never reach the stack.                                  *)
(***************************************************************************)
EXTENDS KdlParser

VARIABLES
    open,       \* stack.size()
    latest      \* kind of the latest event acted upon, "NONE" at first

readerVars == <<parserVars, open, latest>>

\* The event of the step being taken, if it reaches the reader.
Delivered == ~event'.slashdashed /\ event'.kind \notin {"NONE", "COMMENT"}

Deliver ==
    IF Delivered
    THEN /\ latest' = event'.kind
         /\ open' = CASE event'.kind = "START_NODE" -> open + 1
                      [] event'.kind = "END_NODE" -> open - 1
                      [] OTHER -> open
    ELSE UNCHANGED <<open, latest>>

ReaderInit == Init /\ open = 0 /\ latest = "NONE"

Read == Next /\ Deliver

\* read_from has returned the document or thrown ParseError.
Stopped == Finished /\ UNCHANGED readerVars

ReaderNext == Read \/ Stopped

\* The reader's loop asks for the next event until it is told to stop.  That is only
\* needed once there is nothing more to read: a document need not end.
Fairness == WF_readerVars(last = "EOF" /\ Read)

ReaderSafety == ReaderInit /\ [][ReaderNext]_readerVars
ReaderSpec == ReaderSafety /\ Fairness

-----------------------------------------------------------------------------
(***************************************************************************)
(* Properties.                                                             *)
(***************************************************************************)

\* The reader's stack is never popped when empty and nests no deeper than the
\* document; every parser field keeps its type.
ReaderTypeOK ==
    /\ TypeOK
    /\ open \in 0..(MaxBlocks + 1)
    /\ latest \in EventKinds \ {"COMMENT"}

\* The reader has as many nodes open as the document has at this point or, while
\* a slashdash is active, as it had where the slashdash stands.  So no end of node
\* is delivered for a node whose start was not, or the other way round, on balance.
OpenNodesAreBalanced ==
    open = IF slashdash_depth < 0 THEN (depth + 1) \div 2 ELSE slashdash_depth \div 2

\* The event stream keeps the promises of KdlEvents.
Events == INSTANCE KdlEvents
KeepsPromises == Events!Spec

\* A parser that has settled on a version (or was told one) never leaves it.
VersionIsFinal == [][version # "detect" => version' = version]_readerVars

\* Once the data has ended the loop inside kdl_parser_next_event does not go
\* round for ever: the reader is told EOF or PARSE_ERROR.
EndOfDataIsReported == (last = "EOF") ~> Finished

(***************************************************************************)
(* Stated by the repository and refuted: see the findings in README.md.    *)
(***************************************************************************)

\* doc/ckdl-api.rst of KDL_EVENT_ARGUMENT: "An argument to the most recently
\* started node."  No entry is delivered right after the end of a node.
EntriesFollowTheirNode ==
    [][latest' \in {"ARGUMENT", "PROPERTY"} => latest # "END_NODE"]_readerVars

\* parser.c:498, at the "=" after a key: "Property value comes next"; doc/ckdl-api.rst of
\* the start of a node: "if the node has a type annotation, that annotation is encoded
\* here".  A brace is no value and has no annotation: when children begin or end, neither
\* a key nor an annotation is still waiting for its owner.
NothingWaitsAcrossABrace ==
    [][(depth' > depth /\ mode' = "OUTSIDE_NODE") \/ (depth' < depth /\ mode' = "IN_NODE") =>
           ~waiting_prop_name' /\ ~waiting_type_annotation']_readerVars
==============================================================================
