------------------------------- MODULE KdlCat -------------------------------
(***************************************************************************)
(* kdl_cat_impl of src/utils/ckdl-cat.c: reads the event stream of a       *)
(* document and calls the emitter.  Properties are held back until the     *)
(* node's children start or the node ends, and are then written in order.  *)
(*                                                                         *)
(* The stream is any that keeps the promises of KdlEvents and gives the    *)
(* arguments and properties of a node before its children.  The destructor *)
(* of the emitter calls kdl_emit_end once more, whatever happened before.  *)
(***************************************************************************)
EXTENDS KdlEmitter, KdlProplist

CONSTANTS
    KeyTexts,       \* for each property key, the kind of string it is
    MaxProps        \* bound: properties given to one node

ASSUME KeyTextsAssumption == KeyTexts \in Seq(TextKinds)
ASSUME MaxPropsAssumption == MaxProps \in Nat

VARIABLES
    open,           \* nodes open in the event stream
    in_node_list,   \* the latest thing at this level is a whole node, or nothing
    props,          \* the properties held back
    result          \* what kdl_cat_impl returned, "reading" before

catVars == <<emitterVars, open, in_node_list, props, result>>

Keys == 1..Len(KeyTexts)

\* `latest` is the kind of the latest event.
Source == INSTANCE KdlEvents

CatInit ==
    /\ SinkInit
    /\ Source!Init
    /\ in_node_list = TRUE
    /\ props = <<>>
    /\ result = "reading"

-----------------------------------------------------------------------------
Returned(e) == IF e.ok THEN "reading" ELSE "false"

\* The emitter after each of the properties that proplist_emit writes.
WritingProperties(e, sorted) ==
    LET written[k \in 0..Len(sorted)] ==
            IF k = 0 THEN e
            ELSE EmitProperty(written[k - 1], KeyTexts[sorted[k].name], sorted[k].value)
    IN written

EmitProperties(e, held) ==
    WritingProperties(e, Emission(held))[Len(Emission(held))]

\* Mutant of BeforeNode: the properties are left for the end of the node.
BeforeNodeKeepingProperties(e) ==
    IF in_node_list THEN e ELSE StartEmittingChildren(e)

\* A node that starts inside another one: that one's entries are complete.
BeforeNode(e) ==
    IF in_node_list THEN e ELSE StartEmittingChildren(EmitProperties(e, props))

\* Mutant of CatStartNode: in_node_list stays what it was.
CatStartNodeInList(type, name, room) ==
    /\ Source!StartNode /\ open < MaxDepth
    /\ LET e == EmitNode(BeforeNode(Calling(emitter, room)), type, name) IN
       Emitted(e) /\ result' = Returned(e)
    /\ props' = IF in_node_list THEN props ELSE <<>>
    /\ UNCHANGED in_node_list

CatStartNode(type, name, room) ==
    /\ Source!StartNode /\ open < MaxDepth
    /\ LET e == EmitNode(BeforeNode(Calling(emitter, room)), type, name) IN
       Emitted(e) /\ result' = Returned(e)
    /\ props' = IF in_node_list THEN props ELSE <<>>
    /\ in_node_list' = FALSE

\* Mutants of CatEndNode: what was held back is not cleared; it is cleared without
\* having been written.
CatEndNodeUncleared(room) ==
    /\ Source!EndNode
    /\ LET start == Calling(emitter, room)
           e == IF in_node_list THEN FinishEmittingChildren(start)
                                ELSE EmitProperties(start, props)
       IN Emitted(e) /\ result' = Returned(e)
    /\ in_node_list' = TRUE
    /\ UNCHANGED props

CatEndNodeUnwritten(room) ==
    /\ Source!EndNode
    /\ LET start == Calling(emitter, room)
           e == IF in_node_list THEN FinishEmittingChildren(start) ELSE start
       IN Emitted(e) /\ result' = Returned(e)
    /\ props' = IF in_node_list THEN props ELSE <<>>
    /\ in_node_list' = TRUE

CatEndNode(room) ==
    /\ Source!EndNode
    /\ LET start == Calling(emitter, room)
           e == IF in_node_list THEN FinishEmittingChildren(start)
                                ELSE EmitProperties(start, props)
       IN Emitted(e) /\ result' = Returned(e)
    /\ props' = IF in_node_list THEN props ELSE <<>>
    /\ in_node_list' = TRUE

InEntries == latest \in {"START_NODE", "ARGUMENT", "PROPERTY"}

CatArgument(v, room) ==
    /\ InEntries /\ Source!Entry /\ latest' = "ARGUMENT"
    /\ LET e == EmitArg(Calling(emitter, room), v) IN
       Emitted(e) /\ result' = Returned(e)
    /\ UNCHANGED <<in_node_list, props>>

CatProperty(key, v) ==
    /\ InEntries /\ Source!Entry /\ latest' = "PROPERTY"
    /\ Len(props) < MaxProps
    /\ props' = Append(props, [name |-> key, value |-> v])
    /\ Emitted(Calling(emitter, 0))
    /\ UNCHANGED <<in_node_list, result>>

\* Mutant of CatEnd: what kdl_emit_end returns is not looked at.
CatEndUnchecked(room) ==
    /\ Source!Complete
    /\ Emitted(EmitEnd(Calling(emitter, room)))
    /\ result' = "true"
    /\ UNCHANGED <<in_node_list, props>>

CatEnd(room) ==
    /\ Source!Complete
    /\ LET e == EmitEnd(Calling(emitter, room)) IN
       Emitted(e) /\ result' = IF e.ok THEN "true" ELSE "false"
    /\ UNCHANGED <<in_node_list, props>>

CatParseError ==
    /\ Source!Broken
    /\ result' = "false"
    /\ Emitted(Calling(emitter, 0))
    /\ UNCHANGED <<in_node_list, props>>

CatRead(room) ==
    /\ result = "reading"
    /\ \/ \E type \in Texts \cup {None}, name \in Texts : CatStartNode(type, name, room)
       \/ CatEndNode(room)
       \/ \E v \in Values : CatArgument(v, room)
       \/ \E key \in Keys, v \in Values : CatProperty(key, v)
       \/ CatEnd(room)
       \/ CatParseError

\* Mutant of DestroyEmitter: the destructor writes nothing.
DestroyEmitterSilently(room) ==
    /\ result \in {"true", "false"}
    /\ result' = IF result = "true" THEN "true, destroyed" ELSE "false, destroyed"
    /\ Emitted(Calling(emitter, room))
    /\ UNCHANGED <<latest, open, in_node_list, props>>

\* kdl_destroy_emitter; the emitter is gone afterwards.
DestroyEmitter(room) ==
    /\ result \in {"true", "false"}
    /\ result' = IF result = "true" THEN "true, destroyed" ELSE "false, destroyed"
    /\ Emitted(EmitEnd(Calling(emitter, room)))
    /\ UNCHANGED <<latest, open, in_node_list, props>>

Destroyed == result \in {"true, destroyed", "false, destroyed"}

CatNext ==
    \/ \E room \in Rooms : CatRead(room) \/ DestroyEmitter(room)
    \/ Destroyed /\ UNCHANGED catVars

CatSpec == CatInit /\ [][CatNext]_catVars

-----------------------------------------------------------------------------
\* ckdl-cat keeps no stack: from one Boolean and the emitter's depth it has to know
\* when the braces of a node are open.  They are open for all nodes but, while its
\* entries are being read, the innermost; so kdl_finish_emitting_children is never
\* called at depth 0, and never for a node that has no braces.
EmitterFollowsTheNodes ==
    result = "reading" => open = emitter.depth + (IF in_node_list THEN 0 ELSE 1)

\* Properties are held back for the node whose entries are being read, and for no
\* other: none is left over when a node has ended or its children have started.
PropertiesStayWithTheirNode == result = "reading" /\ props # <<>> => InEntries

\* The result true means that every write went through and the text is complete.
TrueMeansWritten ==
    result = "true" => ~emitter.broken /\ nesting = 0 /\ fresh

\* After a parse error the text stops early but its braces are closed: the
\* destructor closes what the loop has left open.
TextIsClosedInTheEnd == Destroyed /\ ~emitter.broken => nesting = 0 /\ fresh
==============================================================================
