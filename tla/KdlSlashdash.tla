---------------------------- MODULE KdlSlashdash ----------------------------
(***************************************************************************)
(* What /- removes.  The parser keeps one integer, slashdash_depth, and    *)
(* one more, child_block_at_depth, for the rule on children blocks.  Here  *)
(* auxiliary variables keep what those two integers stand for: the stack   *)
(* of the nodes and blocks that are open, each marked as hidden or not,    *)
(* and whether a /- still waits for the element it hides.  The properties  *)
(* compare the two.                                                        *)
(***************************************************************************)
EXTENDS KdlParser, SequencesExt

VARIABLES
    scope,      \* open nodes and blocks, outermost first
    armed,      \* a slashdash is waiting for its element
    dangled     \* some slashdash met the end of a node or block instead

slashdashVars == <<parserVars, scope, armed, dangled>>

Blocks == {"none", "hidden", "shown"}   \* the children blocks a node has had
Frame(hidden, block) == [hidden |-> hidden, block |-> block]

InHidden == scope # <<>> /\ Last(scope).hidden
Hidden == armed \/ InHidden             \* would the next element be hidden?

Entered == depth' > depth
Left == depth' < depth
EntryDone == event'.kind \in {"ARGUMENT", "PROPERTY"}
SlashdashSeen(tok) == IsSlashdash(tok) /\ event'.kind # "PARSE_ERROR"

\* Ending a block marks the node it belongs to.
LeaveBlock(parents, block) ==
    LET owner == Last(parents) IN
    Append(Front(parents),
           [owner EXCEPT !.block = IF ~block.hidden \/ @ = "shown"
                                   THEN "shown" ELSE "hidden"])

Track(tok) ==
    /\ dangled' = (dangled \/ (Left /\ armed))
    /\ armed' = (/\ ~dangled'
                 /\ SlashdashSeen(tok) \/ (armed /\ ~Entered /\ ~Left /\ ~EntryDone))
    /\ scope' = IF dangled' THEN <<>>           \* nothing is tracked any more
                ELSE CASE Entered -> Append(scope, Frame(Hidden, "none"))
                       [] Left /\ mode' = "OUTSIDE_NODE" -> Front(scope)
                       [] Left /\ mode' = "IN_NODE" ->
                              LeaveBlock(Front(scope), Last(scope))
                       [] OTHER -> scope

SlashdashInit == Init /\ scope = <<>> /\ armed = FALSE /\ dangled = FALSE

\* The steps of the parser's Next, each with its effect on what is tracked.
SlashdashStep ==
    \/ \E tok \in Vocabulary : Handle(tok) /\ Track(tok)
    \/ EofInNode /\ Track(EndOfInput)
    \/ next_token = EndOfInput /\ Handle(EndOfInput) /\ Track(EndOfInput)
    \/ EofOutsideNode /\ Track(EndOfInput)
    \/ TokenizerError /\ Track(NoToken)

SlashdashNext == SlashdashStep \/ (Finished /\ UNCHANGED slashdashVars)

SlashdashSpec == SlashdashInit /\ [][SlashdashNext]_slashdashVars

-----------------------------------------------------------------------------
\* slashdash_depth is the depth of the outermost hidden node or block, or of the
\* element to come when a slashdash waits outside all of them, or -1.
CounterIsOutermostHidden ==
    ~dangled =>
        /\ Len(scope) = depth
        /\ LET hidden == {i \in 1..depth : scope[i].hidden} IN
           slashdash_depth = CASE hidden # {} -> Min(hidden)
                               [] hidden = {} /\ armed -> depth + 1
                               [] OTHER -> -1

\* An event is turned into a comment exactly when its own element, or one that
\* encloses it, follows a slashdash: nothing else is lost, nothing leaks.
ExactlyTheHiddenIsRemoved ==
    [][ ~dangled' =>
        CASE event'.kind = "END_NODE" -> event'.slashdashed = Last(scope).hidden
          [] event'.kind \in {"START_NODE", "ARGUMENT", "PROPERTY"} ->
                 event'.slashdashed = Hidden
          [] OTHER -> TRUE ]_slashdashVars

\* A node that is shown has at most one children block that is shown, however many
\* hidden ones surround it, and no argument or property is shown after any block.
OneShownBlockAfterTheEntries ==
    [][ ~dangled' /\ mode = "IN_NODE" /\ ~Hidden =>
        /\ Entered => Last(scope).block # "shown"
        /\ EntryDone => Last(scope).block = "none" ]_slashdashVars
==============================================================================
