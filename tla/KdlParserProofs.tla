--------------------------- MODULE KdlParserProofs ---------------------------
(***************************************************************************)
(* What a step of the parser can do, for every vocabulary and every depth  *)
(* of nesting.  The proofs about the programs that contain the parser      *)
(* (KdlReader, KdlStrings, KdlSlashdash, KdlDetect) rest on these lemmas.  *)
(*                                                                         *)
(* StepShape reduces the parser's thirty actions to the eight things       *)
(* a step can do to mode, depth and the slashdash counter; what depends on *)
(* those alone then follows from the shapes.  StepFields does the same for *)
(* types, StepLexer for the token that is put back.                        *)
(***************************************************************************)
EXTENDS KdlParser, TLAPS

-----------------------------------------------------------------------------
(* Tokens. *)

Handled == Tokens \cup {EndOfInput, NoToken}
TokenTypes == PunctuationTypes \cup ValueTypes \cup {"NONE"}

LEMMA TokenHasType == ASSUME NEW tok \in Handled PROVE tok.type \in TokenTypes
<1> DEFINE plain == {Punctuation(t) : t \in PunctuationTypes}
<1>1. CASE tok \in plain
  <2>1. PICK t \in PunctuationTypes : tok = [type |-> t, class |-> "none"]
    BY <1>1 DEF Punctuation
  <2> QED BY <2>1 DEF TokenTypes
<1>2. CASE tok \in {EndOfInput, NoToken}
  <2>1. EndOfInput.type = "NEWLINE" /\ NoToken.type = "NONE"
    BY DEF EndOfInput, NoToken, Punctuation
  <2> QED BY <1>2, <2>1 DEF TokenTypes, PunctuationTypes
<1>3. CASE tok \in Tokens \ plain
  <2>1. tok.type \in ValueTypes
    BY <1>3, Zenon DEF Tokens, ValueTypes
  <2> QED BY <2>1 DEF TokenTypes
<1> HIDE DEF plain
<1> QED BY <1>1, <1>2, <1>3 DEF Handled

-----------------------------------------------------------------------------
(* The shapes a step of the parser can have. *)

\* The flags that say that a children block has ended.
BlockFlags == {"END_OF_NODE", "END_OF_NODE_OR_CHILD_BLOCK"}

\* They stay, and no property begins after them.
BlockFlagsStay ==
    /\ flags' \cap BlockFlags = flags \cap BlockFlags
    /\ "MAYBE_IN_PROPERTY" \in flags' \ flags => flags \cap BlockFlags = {}

\* Nothing but flags, version, waiting fields and the lexer may change.
Plain ==
    /\ UNCHANGED <<mode, depth, slashdash_depth, child_block_at_depth>>
    /\ BlockFlagsStay
    /\ event' \in {NoEvent, ParseError, Event("COMMENT", FALSE, FALSE)}

Armed(tok) ==
    /\ IsSlashdash(tok)
    /\ UNCHANGED <<mode, depth, child_block_at_depth>>
    /\ slashdash_depth' = HiddenFrom
    /\ BlockFlagsStay
    /\ event' = NoEvent

NodeStarted ==
    /\ mode = "OUTSIDE_NODE" /\ mode' = "IN_NODE"
    /\ depth' = depth + 1
    /\ flags' = {"WHITESPACE_REQUIRED"}
    /\ UNCHANGED child_block_at_depth
    /\ ApplySlashdash("START_NODE", waiting_type_annotation, depth + 1)

NodeEnded ==
    /\ mode = "IN_NODE" /\ mode' = "OUTSIDE_NODE"
    /\ depth' = depth - 1
    /\ flags' = {}
    /\ child_block_at_depth' = IF child_block_at_depth > depth - 1
                               THEN -1 ELSE child_block_at_depth
    /\ ApplySlashdash("END_NODE", FALSE, depth - 1)

BlockStarted(tok) ==
    /\ tok.type = "START_CHILDREN"
    /\ mode = "IN_NODE" /\ mode' = "OUTSIDE_NODE"
    /\ "END_OF_NODE" \in flags => slashdash_depth >= 0
    /\ depth' = depth + 1
    /\ flags' = {}
    /\ UNCHANGED <<slashdash_depth, child_block_at_depth>>
    /\ event' = NoEvent

BlockEnded ==
    /\ mode = "OUTSIDE_NODE" /\ mode' = "IN_NODE"
    /\ depth > 0 /\ depth' = depth - 1
    /\ flags' = IF slashdash_depth < 0 \/ child_block_at_depth = depth - 1
                THEN {"END_OF_NODE"} ELSE {"END_OF_NODE_OR_CHILD_BLOCK"}
    /\ child_block_at_depth' = BlockEndedAt
    /\ slashdash_depth' = SlashdashEndingAt(depth - 1)
    /\ event' = NoEvent

EntryRead ==
    /\ mode = "IN_NODE"
    /\ "MAYBE_IN_PROPERTY" \in flags \/ flags \cap BlockFlags = {}
    /\ flags' \subseteq {"WHITESPACE_REQUIRED"}
    /\ UNCHANGED <<mode, depth, child_block_at_depth>>
    /\ \E kind \in {"ARGUMENT", "PROPERTY"}, annotated \in BOOLEAN :
          ApplySlashdash(kind, annotated, depth)

DocumentEnded ==
    /\ mode = "OUTSIDE_NODE" /\ depth <= 0 /\ slashdash_depth <= 0
    /\ UNCHANGED <<mode, depth, slashdash_depth, child_block_at_depth, flags>>
    /\ event' = EndOfDocument

Shape(tok) ==
    \/ Plain \/ Armed(tok) \/ NodeStarted \/ NodeEnded
    \/ BlockStarted(tok) \/ BlockEnded \/ EntryRead \/ DocumentEnded

\* One step of the parser, over the token it handles.
StepOn(tok) ==
    \/ Handle(tok)
    \/ tok = EndOfInput /\ (EofInNode \/ EofOutsideNode)
    \/ tok = NoToken /\ TokenizerError

LEMMA NextIsAStep ==
    ASSUME Next PROVE \E tok \in Handled : StepOn(tok)
BY VocabularyAssumption DEF Next, StepOn, Handled

LEMMA DispatchShape ==
    ASSUME TypeOK, NEW tok, Dispatch(tok) PROVE Shape(tok)
<1> USE DEF BlockFlagsStay, BlockFlags, live
<1>1. CASE AnnotationName(tok) BY <1>1 DEF AnnotationName, Shape, Plain, place
<1>2. CASE AnnotationClose(tok) BY <1>2 DEF AnnotationClose, Shape, Plain, place
<1>3. CASE RejectInAnnotation(tok)
  BY <1>3 DEF RejectInAnnotation, Fail, Shape, Plain, place
<1>4. CASE NextNode(tok)
  <2> USE DEF Shape
  <2>0. mode = "OUTSIDE_NODE" BY <1>4 DEF NextNode
  <2>1. CASE BlankLine(tok) BY <2>1 DEF BlankLine, Plain, place
  <2>2. CASE AnnotationOpen(tok) BY <2>2 DEF AnnotationOpen, Plain, place
  <2>3. CASE StartNode(tok) BY <2>0, <2>3 DEF StartNode, NodeStarted
  <2>4. CASE EndChildren(tok) BY <2>0, <2>4 DEF EndChildren, BlockEnded, ChildrenOpen
  <2>5. CASE LineContinuationOutside(tok)
    BY <2>5 DEF LineContinuationOutside, Plain, place
  <2>6. CASE RejectOutside(tok) BY <2>6 DEF RejectOutside, Fail, Plain, place
  <2> QED BY <1>4, <2>1, <2>2, <2>3, <2>4, <2>5, <2>6 DEF NextNode
<1>5. CASE NextEventInNode(tok)
  <2> USE DEF Shape
  <2>0. mode = "IN_NODE" BY <1>5 DEF NextEventInNode
  <2>1. CASE LineContinuationEnd(tok) BY <2>1 DEF LineContinuationEnd, Plain, place
  <2>2. CASE LineContinuation(tok) BY <2>2 DEF LineContinuation, AcceptSpacing, Plain, place
  <2>3. CASE RejectLineContinuation(tok)
    BY <2>3 DEF RejectLineContinuation, Fail, Plain, place
  <2>4. CASE PropertyKey(tok) BY <2>4 DEF PropertyKey, Plain, place
  <2>5. CASE "MAYBE_IN_PROPERTY" \in live /\ PendingArgument(tok)
    BY <2>0, <2>5 DEF PendingArgument, EntryRead
  <2>6. CASE RejectPending(tok) BY <2>6 DEF RejectPending, Fail, Plain, place
  <2>7. CASE EndNode(tok) BY <2>0, <2>7 DEF EndNode, NodeEnded
  <2>8. CASE StartChildren(tok) BY <2>0, <2>8 DEF StartChildren, BlockAllowed, BlockStarted
  <2>9. CASE AnnotationOpen(tok) BY <2>9 DEF AnnotationOpen, Plain, place
  <2>10. CASE PossibleKey(tok) BY <2>10 DEF PossibleKey, EntryAllowed, Plain, place
  <2>11. CASE Entry(tok) BY <2>0, <2>11 DEF Entry, EntryAllowed, EntryRead, TypeOK
  <2>12. CASE RejectEntry(tok) BY <2>12 DEF RejectEntry, Fail, Plain, place
  <2> QED BY <1>5, <2>1, <2>2, <2>3, <2>4, <2>5, <2>6, <2>7, <2>8, <2>9, <2>10,
             <2>11, <2>12 DEF NextEventInNode
<1> QED BY <1>1, <1>2, <1>3, <1>4, <1>5 DEF Dispatch

LEMMA StepShape ==
    ASSUME TypeOK, NEW tok, StepOn(tok) PROVE Shape(tok)
<1> USE DEF BlockFlagsStay, BlockFlags
<1>1. CASE Spacing(tok) BY <1>1 DEF Spacing, AcceptSpacing, Shape, Plain, place
<1>2. CASE Slashdash(tok) BY <1>2 DEF Slashdash, Shape, Armed
<1>3. CASE RejectBeforeDispatch(tok)
  BY <1>3 DEF RejectBeforeDispatch, Fail, Shape, Plain, place
<1>4. CASE Dispatch(tok) BY <1>4, DispatchShape
<1>5. CASE tok = EndOfInput /\ EofInNode BY <1>5, DispatchShape DEF EofInNode
<1>6. CASE EofOutsideNode
  <2>1. depth \in Int /\ slashdash_depth \in Int BY MaxBlocksAssumption DEF TypeOK
  <2>2. /\ mode = "OUTSIDE_NODE"
        /\ UNCHANGED <<mode, depth, slashdash_depth, child_block_at_depth, flags>>
    BY <1>6 DEF EofOutsideNode, place
  <2>3. CASE event' = ParseError BY <2>2, <2>3 DEF Shape, Plain
  <2>4. CASE event' # ParseError
    <3>1. depth <= 0 /\ slashdash_depth <= 0 /\ event' = EndOfDocument
      BY <1>6, <2>1, <2>4 DEF EofOutsideNode, Incomplete
    <3> QED BY <2>2, <3>1 DEF Shape, DocumentEnded
  <2> QED BY <2>3, <2>4
<1>7. CASE TokenizerError BY <1>7 DEF TokenizerError, Fail, Shape, Plain, place
<1> QED BY <1>1, <1>2, <1>3, <1>4, <1>5, <1>6, <1>7 DEF StepOn, Handle

\* A slashdash that is accepted does nothing else.
LEMMA SlashdashShape ==
    ASSUME TypeOK, NEW tok, StepOn(tok), IsSlashdash(tok)
    PROVE  event' = ParseError \/ Armed(tok)
<1>1. tok.type = "SLASHDASH" BY DEF IsSlashdash
<1>2. EndOfInput.type = "NEWLINE" /\ NoToken.type = "NONE"
  BY DEF EndOfInput, NoToken, Punctuation
<1>3. Handle(tok) BY <1>1, <1>2 DEF StepOn
<1>4. ~IsSpace(tok) /\ ~IsComment(tok) BY <1>1 DEF IsSpace, IsComment
<1>5. CASE Slashdash(tok) BY <1>5 DEF Slashdash, Armed, BlockFlagsStay, BlockFlags
<1>6. CASE RejectBeforeDispatch(tok) BY <1>6 DEF RejectBeforeDispatch, Fail
<1> QED BY <1>3, <1>4, <1>5, <1>6 DEF Handle, Spacing, Dispatched

-----------------------------------------------------------------------------
(* What a step does to the version. *)

\* Nothing, or it settles a parser that is still detecting.
VersionStep ==
    \/ version' = version
    \/ version = "detect" /\ version' \in {"v1", "v2"}

LEMMA VersionAfterIsStep ==
    ASSUME NEW class, version' = VersionAfter(class, version) PROVE VersionStep
BY DEF VersionAfter, VersionStep

\* Three handlers set version 2 unless the parser reads v1 only.
LEMMA V2UnlessV1Only ==
    ASSUME TypeOK, version' = "v2", version # "v1" PROVE VersionStep
BY DEF TypeOK, VersionStep

LEMMA StepVersion ==
    ASSUME TypeOK, NEW tok, StepOn(tok) PROVE VersionStep
<1>1. CASE Spacing(tok) \/ (SpacingAllowed /\ LineContinuation(tok))
  <2>1. SpacingAllowed /\ version' = IF NeedsV2Spacing THEN "v2" ELSE version
    BY <1>1 DEF Spacing, LineContinuation, AcceptSpacing
  <2> QED BY <2>1, V2UnlessV1Only DEF SpacingAllowed, VersionStep
<1>2. CASE Slashdash(tok) BY <1>2 DEF Slashdash, VersionStep
<1>3. CASE RejectBeforeDispatch(tok) BY <1>3 DEF RejectBeforeDispatch, Fail, VersionStep
<1>4. CASE EofOutsideNode BY <1>4 DEF EofOutsideNode, VersionStep
<1>5. CASE TokenizerError BY <1>5 DEF TokenizerError, Fail, VersionStep
<1>6. CASE AnnotationName(tok) BY <1>6, VersionAfterIsStep DEF AnnotationName
<1>7. CASE AnnotationClose(tok) BY <1>7 DEF AnnotationClose, VersionStep
<1>8. CASE RejectInAnnotation(tok) BY <1>8 DEF RejectInAnnotation, Fail, VersionStep
<1>9. CASE NextNode(tok)
  <2> USE DEF VersionStep
  <2>1. CASE BlankLine(tok) BY <2>1 DEF BlankLine
  <2>2. CASE AnnotationOpen(tok) BY <2>2 DEF AnnotationOpen
  <2>3. CASE StartNode(tok) BY <2>3, VersionAfterIsStep DEF StartNode
  <2>4. CASE EndChildren(tok) BY <2>4 DEF EndChildren
  <2>5. CASE LineContinuationOutside(tok)
    BY <2>5, V2UnlessV1Only DEF LineContinuationOutside
  <2>6. CASE RejectOutside(tok) BY <2>6 DEF RejectOutside, Fail
  <2> QED BY <1>9, <2>1, <2>2, <2>3, <2>4, <2>5, <2>6 DEF NextNode
<1>10. CASE NextEventInNode(tok)
  <2> USE DEF VersionStep
  <2>1. CASE LineContinuationEnd(tok) BY <2>1 DEF LineContinuationEnd
  <2>2. CASE LineContinuation(tok) BY <2>2, <1>1 DEF LineContinuation
  <2>3. CASE RejectLineContinuation(tok) BY <2>3 DEF RejectLineContinuation, Fail
  <2>4. CASE PropertyKey(tok) BY <2>4, V2UnlessV1Only DEF PropertyKey, KeySpacingAllowed
  <2>5. CASE PendingArgument(tok) BY <2>5, V2UnlessV1Only DEF PendingArgument, VersionAfterArgument
  <2>6. CASE RejectPending(tok) BY <2>6 DEF RejectPending, Fail
  <2>7. CASE EndNode(tok) BY <2>7 DEF EndNode
  <2>8. CASE StartChildren(tok) BY <2>8 DEF StartChildren
  <2>9. CASE AnnotationOpen(tok) BY <2>9 DEF AnnotationOpen
  <2>10. CASE PossibleKey(tok) BY <2>10, VersionAfterIsStep DEF PossibleKey
  <2>11. CASE Entry(tok)
    <3>1. CASE BareValue(tok)
      <4>1. version' = "v2" /\ VersionAfter(tok.class, version) # "v1"
        BY <2>11, <3>1 DEF Entry
      <4>2. version # "v1" BY <4>1 DEF VersionAfter
      <4> QED BY <4>1, <4>2, V2UnlessV1Only
    <3>2. CASE ~BareValue(tok) BY <2>11, <3>2, VersionAfterIsStep DEF Entry
    <3> QED BY <3>1, <3>2
  <2>12. CASE RejectEntry(tok) BY <2>12 DEF RejectEntry, Fail
  <2> QED BY <1>10, <2>1, <2>2, <2>3, <2>4, <2>5, <2>6, <2>7, <2>8, <2>9, <2>10,
             <2>11, <2>12 DEF NextEventInNode
<1> QED BY <1>1, <1>2, <1>3, <1>4, <1>5, <1>6, <1>7, <1>8, <1>9, <1>10
        DEF StepOn, Handle, EofInNode, Dispatch

-----------------------------------------------------------------------------
(* What a step does to the token that is put back. *)

\* PutBackTokenIsCurrent says that version and character set agree for it; this
\* says that handling it again will not nest deeper than the document may.
PutBackWithinBounds == next_token.type = "START_CHILDREN" => depth < 2 * MaxBlocks

\* The token is consumed, or put back at the same depth or below it.
LexerStep(tok) ==
    \/ next_token' = NoToken /\ Consume(tok)
    \/ /\ next_token' = tok /\ PutBack(tok)
       /\ CharacterSet(version') = CharacterSet(version)
       /\ tok.type = "START_CHILDREN" => depth' = depth
    \/ /\ next_token = NoToken
       /\ UNCHANGED <<next_token, lexedAs>>
       /\ last' = "EOF"

LEMMA StepLexer ==
    ASSUME TypeOK, NEW tok, StepOn(tok) PROVE LexerStep(tok)
<1> USE DEF LexerStep, Consume
<1>1. CASE Spacing(tok) BY <1>1 DEF Spacing
<1>2. CASE Slashdash(tok) BY <1>2 DEF Slashdash
<1>3. CASE RejectBeforeDispatch(tok) BY <1>3 DEF RejectBeforeDispatch, Fail
<1>4. CASE EofOutsideNode BY <1>4 DEF EofOutsideNode
<1>5. CASE tok = NoToken /\ TokenizerError BY <1>5 DEF TokenizerError, Fail
<1>6. CASE AnnotationName(tok) BY <1>6 DEF AnnotationName
<1>7. CASE AnnotationClose(tok) BY <1>7 DEF AnnotationClose
<1>8. CASE RejectInAnnotation(tok) BY <1>8 DEF RejectInAnnotation, Fail
<1>9. CASE NextNode(tok)
  BY <1>9 DEF NextNode, BlankLine, AnnotationOpen, StartNode, EndChildren,
              LineContinuationOutside, RejectOutside, Fail
<1>10. CASE NextEventInNode(tok)
  <2>1. CASE LineContinuationEnd(tok) BY <2>1 DEF LineContinuationEnd
  <2>2. CASE LineContinuation(tok) BY <2>2 DEF LineContinuation
  <2>3. CASE RejectLineContinuation(tok) BY <2>3 DEF RejectLineContinuation, Fail
  <2>4. CASE PropertyKey(tok) BY <2>4 DEF PropertyKey
  <2>5. CASE PendingArgument(tok)
    <3>1. CharacterSet(version') = CharacterSet(version)
      BY <2>5 DEF PendingArgument, VersionAfterArgument, CharacterSet
    <3> QED BY <2>5, <3>1 DEF PendingArgument, PutBack
  <2>6. CASE RejectPending(tok) BY <2>6 DEF RejectPending, Fail
  <2>7. CASE EndNode(tok) BY <2>7 DEF EndNode, PutBack
  <2>8. CASE StartChildren(tok) BY <2>8 DEF StartChildren
  <2>9. CASE AnnotationOpen(tok) BY <2>9 DEF AnnotationOpen
  <2>10. CASE PossibleKey(tok) BY <2>10 DEF PossibleKey
  <2>11. CASE Entry(tok) BY <2>11 DEF Entry
  <2>12. CASE RejectEntry(tok) BY <2>12 DEF RejectEntry, Fail
  <2> QED BY <1>10, <2>1, <2>2, <2>3, <2>4, <2>5, <2>6, <2>7, <2>8, <2>9, <2>10,
             <2>11, <2>12 DEF NextEventInNode
<1> QED BY <1>1, <1>2, <1>3, <1>4, <1>5, <1>6, <1>7, <1>8, <1>9, <1>10
        DEF StepOn, Handle, EofInNode, Dispatch

\* A token that opens a block does so only within the bound on nesting.
LEMMA BlockWithinBounds ==
    ASSUME TypeOK, PutBackWithinBounds, NEW tok, StepOn(tok),
           tok.type = "START_CHILDREN"
    PROVE  depth < 2 * MaxBlocks
<1>0. EndOfInput.type = "NEWLINE" /\ NoToken.type = "NONE"
  BY DEF EndOfInput, NoToken, Punctuation
<1>1. tok # EndOfInput /\ tok # NoToken BY <1>0
<1>2. Available(tok) BY <1>1 DEF StepOn, Handle
<1>3. CASE next_token = NoToken BY <1>2, <1>3 DEF Available, WithinBounds
<1>4. CASE next_token # NoToken BY <1>2, <1>4 DEF Available, PutBackWithinBounds
<1> QED BY <1>3, <1>4

LEMMA PutBackTokenStep ==
    ASSUME TypeOK, PutBackTokenIsCurrent, PutBackWithinBounds, NEW tok \in Handled,
           StepOn(tok)
    PROVE  /\ next_token' \in Handled
           /\ last' \in TokenTypes \cup {"EOF"}
           /\ lexedAs' \in {"V1", "V2"}
           /\ PutBackTokenIsCurrent'
           /\ PutBackWithinBounds'
<1> USE DEF PutBackTokenIsCurrent, PutBackWithinBounds
<1>0. NoToken.type = "NONE" /\ NoToken \in Handled BY DEF NoToken, Punctuation, Handled
<1>1. LexerStep(tok) BY StepLexer
<1>2. tok.type \in TokenTypes BY TokenHasType
<1>3. CharacterSet(version) \in {"V1", "V2"} BY DEF CharacterSet
<1>4. last \in TokenTypes \cup {"EOF"} /\ lexedAs \in {"V1", "V2"}
  BY DEF TypeOK, TokenTypes
<1>5. ASSUME Advance(tok)
      PROVE  last' \in TokenTypes \cup {"EOF"} /\ lexedAs' \in {"V1", "V2"}
  BY <1>2, <1>3, <1>4, <1>5 DEF Advance
<1>6. CASE next_token' = NoToken /\ Consume(tok)
  BY <1>0, <1>5, <1>6 DEF Consume
<1>7. CASE /\ next_token' = tok /\ PutBack(tok)
           /\ CharacterSet(version') = CharacterSet(version)
           /\ tok.type = "START_CHILDREN" => depth' = depth
  <2>1. lexedAs' = CharacterSet(version')
    BY <1>7 DEF PutBack, Advance
  <2>2. tok.type = "START_CHILDREN" => depth' < 2 * MaxBlocks
    BY <1>7, BlockWithinBounds
  <2> QED BY <1>5, <1>7, <2>1, <2>2 DEF PutBack
<1>8. CASE next_token = NoToken /\ UNCHANGED <<next_token, lexedAs>> /\ last' = "EOF"
  BY <1>0, <1>4, <1>8
<1> QED BY <1>1, <1>6, <1>7, <1>8 DEF LexerStep

-----------------------------------------------------------------------------
(* Types. *)

LEMMA StepFields ==
    ASSUME TypeOK, NEW tok, StepOn(tok)
    PROVE  /\ flags' \subseteq Flags
           /\ waiting_type_annotation' \in BOOLEAN
           /\ waiting_prop_name' \in BOOLEAN
<1> USE DEF TypeOK, waiting
<1>0. live \subseteq Flags BY DEF live
<1>1. CASE Spacing(tok) BY <1>1 DEF Spacing, AcceptSpacing, Flags
<1>2. CASE Slashdash(tok) BY <1>2 DEF Slashdash, Flags
<1>3. CASE RejectBeforeDispatch(tok) BY <1>3 DEF RejectBeforeDispatch, Fail
<1>4. CASE EofOutsideNode BY <1>4 DEF EofOutsideNode
<1>5. CASE tok = NoToken /\ TokenizerError BY <1>5 DEF TokenizerError, Fail
<1>6. CASE AnnotationName(tok) BY <1>0, <1>6 DEF AnnotationName, Flags
<1>7. CASE AnnotationClose(tok) BY <1>0, <1>7 DEF AnnotationClose, Flags
<1>8. CASE RejectInAnnotation(tok) BY <1>8 DEF RejectInAnnotation, Fail
<1>9. CASE NextNode(tok)
  <2>1. CASE BlankLine(tok) BY <1>0, <2>1 DEF BlankLine
  <2>2. CASE AnnotationOpen(tok) BY <1>0, <2>2 DEF AnnotationOpen, Flags
  <2>3. CASE StartNode(tok) BY <2>3 DEF StartNode, Flags
  <2>4. CASE EndChildren(tok) BY <2>4 DEF EndChildren, Flags
  <2>5. CASE LineContinuationOutside(tok) BY <1>0, <2>5 DEF LineContinuationOutside
  <2>6. CASE RejectOutside(tok) BY <2>6 DEF RejectOutside, Fail
  <2> QED BY <1>9, <2>1, <2>2, <2>3, <2>4, <2>5, <2>6 DEF NextNode
<1>10. CASE NextEventInNode(tok)
  <2>1. CASE LineContinuationEnd(tok) BY <1>0, <2>1 DEF LineContinuationEnd
  <2>2. CASE LineContinuation(tok)
    BY <1>0, <2>2 DEF LineContinuation, AcceptSpacing, Flags
  <2>3. CASE RejectLineContinuation(tok) BY <2>3 DEF RejectLineContinuation, Fail
  <2>4. CASE PropertyKey(tok) BY <1>0, <2>4 DEF PropertyKey, Flags
  <2>5. CASE PendingArgument(tok) BY <2>5 DEF PendingArgument, Flags
  <2>6. CASE RejectPending(tok) BY <2>6 DEF RejectPending, Fail
  <2>7. CASE EndNode(tok) BY <2>7 DEF EndNode
  <2>8. CASE StartChildren(tok) BY <2>8 DEF StartChildren
  <2>9. CASE AnnotationOpen(tok) BY <1>0, <2>9 DEF AnnotationOpen, Flags
  <2>10. CASE PossibleKey(tok) BY <1>0, <2>10 DEF PossibleKey, Flags
  <2>11. CASE Entry(tok) BY <2>11 DEF Entry, Flags
  <2>12. CASE RejectEntry(tok) BY <2>12 DEF RejectEntry, Fail
  <2> QED BY <1>10, <2>1, <2>2, <2>3, <2>4, <2>5, <2>6, <2>7, <2>8, <2>9, <2>10,
             <2>11, <2>12 DEF NextEventInNode
<1> QED BY <1>1, <1>2, <1>3, <1>4, <1>5, <1>6, <1>7, <1>8, <1>9, <1>10
        DEF StepOn, Handle, EofInNode, Dispatch

-----------------------------------------------------------------------------
(* Events. *)

EventRecords == [kind : EventKinds, slashdashed : BOOLEAN, annotated : BOOLEAN]

\* What a step that may be slashdashed makes of its event and of the counter.
LEMMA AppliedSlashdash ==
    ASSUME NEW kind \in {"START_NODE", "END_NODE", "ARGUMENT", "PROPERTY"},
           NEW annotated \in BOOLEAN, NEW d \in Int, slashdash_depth \in Int,
           ApplySlashdash(kind, annotated, d)
    PROVE  /\ event' \in EventRecords
           /\ event'.kind = kind
           /\ event'.slashdashed <=> slashdash_depth >= 0
           /\ event'.annotated = annotated
           /\ slashdash_depth' = IF slashdash_depth = d + 1 THEN -1 ELSE slashdash_depth
<1> DEFINE removed == slashdash_depth >= 0
<1>1. event' = [kind |-> kind, slashdashed |-> removed, annotated |-> annotated]
  BY DEF ApplySlashdash, Event
<1>2. removed \in BOOLEAN OBVIOUS
<1>3. kind \in EventKinds BY DEF EventKinds
<1>4. slashdash_depth' = IF slashdash_depth = d + 1 THEN -1 ELSE slashdash_depth
  BY DEF ApplySlashdash, SlashdashEndingAt
<1> HIDE DEF removed
<1>5. event'.kind = kind /\ event'.slashdashed = removed /\ event'.annotated = annotated
  BY <1>1
<1>6. event' \in EventRecords BY <1>1, <1>2, <1>3 DEF EventRecords
<1> QED BY <1>4, <1>5, <1>6 DEF removed

\* The event of a step that makes none about a node.
QuietEvents == {NoEvent, ParseError, EndOfDocument, Event("COMMENT", FALSE, FALSE)}

LEMMA QuietEvent ==
    ASSUME event' \in QuietEvents
    PROVE  /\ event' \in EventRecords
           /\ event'.kind \in {"NONE", "PARSE_ERROR", "EOF", "COMMENT"}
           /\ ~event'.slashdashed /\ ~event'.annotated
<1>1. PICK kind \in {"NONE", "PARSE_ERROR", "EOF", "COMMENT"} :
         event' = [kind |-> kind, slashdashed |-> FALSE, annotated |-> FALSE]
  BY DEF QuietEvents, NoEvent, ParseError, EndOfDocument, Event
<1>2. event' \in EventRecords BY <1>1 DEF EventRecords, EventKinds
<1> QED BY <1>1, <1>2

LEMMA EndedNode ==
    ASSUME depth \in Int, slashdash_depth \in Int, NodeEnded
    PROVE  /\ event' \in EventRecords
           /\ event'.kind = "END_NODE"
           /\ event'.slashdashed <=> slashdash_depth >= 0
           /\ slashdash_depth' = IF slashdash_depth = depth THEN -1 ELSE slashdash_depth
<1> DEFINE d == depth - 1
<1>1. d \in Int /\ d + 1 = depth OBVIOUS
<1>2. ApplySlashdash("END_NODE", FALSE, d) BY DEF NodeEnded
<1> HIDE DEF d
<1>3. /\ event' \in EventRecords
      /\ event'.kind = "END_NODE"
      /\ event'.slashdashed <=> slashdash_depth >= 0
      /\ slashdash_depth' = IF slashdash_depth = d + 1 THEN -1 ELSE slashdash_depth
  BY <1>1, <1>2, AppliedSlashdash
<1> QED BY <1>1, <1>3

LEMMA StartedNode ==
    ASSUME depth \in Int, slashdash_depth \in Int, waiting_type_annotation \in BOOLEAN,
           NodeStarted
    PROVE  /\ event' \in EventRecords
           /\ event'.kind = "START_NODE"
           /\ event'.slashdashed <=> slashdash_depth >= 0
           /\ slashdash_depth' = IF slashdash_depth = depth + 2 THEN -1 ELSE slashdash_depth
<1>1. ApplySlashdash("START_NODE", waiting_type_annotation, depth + 1) BY DEF NodeStarted
<1>2. depth + 1 \in Int /\ depth + 1 + 1 = depth + 2 OBVIOUS
<1> QED BY <1>1, <1>2, AppliedSlashdash

LEMMA ReadEntry ==
    ASSUME depth \in Int, slashdash_depth \in Int, EntryRead
    PROVE  /\ event' \in EventRecords
           /\ event'.kind \in {"ARGUMENT", "PROPERTY"}
           /\ event'.slashdashed <=> slashdash_depth >= 0
           /\ slashdash_depth' = IF slashdash_depth = depth + 1 THEN -1 ELSE slashdash_depth
BY AppliedSlashdash DEF EntryRead

-----------------------------------------------------------------------------
(* The inductive invariant of the parser. *)

ParserIInv ==
    /\ TypeOK
    /\ ModeFollowsDepth
    /\ PutBackTokenIsCurrent
    /\ PutBackWithinBounds

LEMMA ParserIInvInit == Init => ParserIInv
<1> SUFFICES ASSUME Init PROVE ParserIInv OBVIOUS
<1> USE MaxBlocksAssumption DEF Init
<1>0. NoToken.type = "NONE" BY DEF NoToken, Punctuation
<1>1. TypeOK
  <2>1. /\ depth \in 0..(2 * MaxBlocks + 1)
        /\ slashdash_depth \in -1..(2 * MaxBlocks + 2)
        /\ child_block_at_depth \in -1..(2 * MaxBlocks)
    OBVIOUS
  <2>2. event \in [kind : EventKinds, slashdashed : BOOLEAN, annotated : BOOLEAN]
    BY DEF NoEvent, Event, EventKinds
  <2>3. version \in {"v1", "v2", "detect"} /\ lexedAs \in {"V1", "V2"}
    BY VersionsAssumption DEF CharacterSet
  <2> QED BY <2>1, <2>2, <2>3 DEF TypeOK
<1>2. ModeFollowsDepth BY DEF ModeFollowsDepth
<1>3. PutBackTokenIsCurrent /\ PutBackWithinBounds
  BY <1>0 DEF PutBackTokenIsCurrent, PutBackWithinBounds
<1> QED BY <1>1, <1>2, <1>3 DEF ParserIInv

LEMMA ParserIInvStep ==
    ASSUME ParserIInv, NEW tok \in Handled, StepOn(tok) PROVE ParserIInv'
<1> USE MaxBlocksAssumption
<1>1. TypeOK /\ ModeFollowsDepth BY DEF ParserIInv
<1>2. Shape(tok) BY <1>1, StepShape
<1>3. /\ depth \in 0..(2 * MaxBlocks + 1)
      /\ slashdash_depth \in -1..(2 * MaxBlocks + 2)
      /\ child_block_at_depth \in -1..(2 * MaxBlocks)
      /\ mode \in {"OUTSIDE_NODE", "IN_NODE"}
      /\ waiting_type_annotation \in BOOLEAN
  BY <1>1 DEF TypeOK
<1> DEFINE Place == /\ mode' \in {"OUTSIDE_NODE", "IN_NODE"}
                    /\ depth' \in 0..(2 * MaxBlocks + 1)
                    /\ slashdash_depth' \in -1..(2 * MaxBlocks + 2)
                    /\ child_block_at_depth' \in -1..(2 * MaxBlocks)
                    /\ event' \in EventRecords
                    /\ ModeFollowsDepth'
<1>4. Place
  <2> USE <1>1, <1>3 DEF ModeFollowsDepth
  <2>1. CASE Plain BY <2>1, QuietEvent DEF Plain, QuietEvents
  <2>2. CASE Armed(tok) BY <2>2, QuietEvent DEF Armed, HiddenFrom, QuietEvents
  <2>3. CASE NodeStarted
    <3>1. depth % 2 = 0 /\ depth < 2 * MaxBlocks + 1 BY <2>3 DEF NodeStarted
    <3>2. /\ event' \in EventRecords
          /\ slashdash_depth' = IF slashdash_depth = depth + 2 THEN -1 ELSE slashdash_depth
      BY <2>3, StartedNode
    <3> QED BY <2>3, <3>1, <3>2 DEF NodeStarted
  <2>4. CASE NodeEnded
    <3>1. depth % 2 = 1 /\ depth > 0 BY <2>4 DEF NodeEnded
    <3>2. /\ event' \in EventRecords
          /\ slashdash_depth' = IF slashdash_depth = depth THEN -1 ELSE slashdash_depth
      BY <2>4, EndedNode
    <3> QED BY <2>4, <3>1, <3>2 DEF NodeEnded
  <2>5. CASE BlockStarted(tok)
    <3>1. depth < 2 * MaxBlocks
      BY <2>5, BlockWithinBounds DEF BlockStarted, ParserIInv
    <3> QED BY <2>5, <3>1, QuietEvent DEF BlockStarted, QuietEvents
  <2>6. CASE BlockEnded
    BY <2>6, QuietEvent DEF BlockEnded, BlockEndedAt, SlashdashEndingAt, QuietEvents
  <2>7. CASE EntryRead
    <3>1. /\ event' \in EventRecords
          /\ slashdash_depth' = IF slashdash_depth = depth + 1 THEN -1 ELSE slashdash_depth
      BY <2>7, ReadEntry
    <3> QED BY <2>7, <3>1 DEF EntryRead
  <2>8. CASE DocumentEnded BY <2>8, QuietEvent DEF DocumentEnded, QuietEvents
  <2> QED BY <1>2, <2>1, <2>2, <2>3, <2>4, <2>5, <2>6, <2>7, <2>8 DEF Shape
<1> HIDE DEF Place
<1>5. TypeOK'
  <2>1. VersionStep BY <1>1, StepVersion
  <2>2. version' \in {"v1", "v2", "detect"} BY <1>1, <2>1 DEF VersionStep, TypeOK
  <2>3. /\ flags' \subseteq Flags
        /\ waiting_type_annotation' \in BOOLEAN
        /\ waiting_prop_name' \in BOOLEAN
    BY <1>1, StepFields
  <2>4. /\ next_token' \in Handled
        /\ last' \in TokenTypes \cup {"EOF"}
        /\ lexedAs' \in {"V1", "V2"}
    BY <1>1, PutBackTokenStep DEF ParserIInv
  <2>5. /\ next_token' \in Tokens \cup {NoToken, EndOfInput}
        /\ last' \in PunctuationTypes \cup ValueTypes \cup {"NONE", "EOF"}
    BY <2>4 DEF Handled, TokenTypes
  <2> QED BY <1>4, <2>2, <2>3, <2>4, <2>5 DEF Place, TypeOK, EventRecords
<1>6. PutBackTokenIsCurrent' /\ PutBackWithinBounds'
  BY <1>1, PutBackTokenStep DEF ParserIInv
<1> QED BY <1>4, <1>5, <1>6 DEF ParserIInv, Place

LEMMA ParserIInvStutter == ParserIInv /\ UNCHANGED parserVars => ParserIInv'
BY DEF parserVars, place, waiting, lexer, ParserIInv, TypeOK, ModeFollowsDepth,
       PutBackTokenIsCurrent, PutBackWithinBounds

\* A parser that has given EOF or PARSE_ERROR takes no further step.
LEMMA NotFinished == ASSUME NEW tok, StepOn(tok) PROVE ~Finished
BY DEF StepOn, Handle, Available, EofInNode, EofOutsideNode, TokenizerError
==============================================================================
