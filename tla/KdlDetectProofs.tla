--------------------------- MODULE KdlDetectProofs ---------------------------
(***************************************************************************)
(* Version detection, for every vocabulary and depth.                      *)
(***************************************************************************)
EXTENDS KdlDetect, KdlParserProofs

-----------------------------------------------------------------------------
(* The inductive invariant. *)

\* The other parser is where the detecting one is.
SameAsV1 ==
    /\ version1 = "v1"
    /\ mode1 = mode /\ flags1 = flags
    /\ depth1 = depth /\ slashdash_depth1 = slashdash_depth
    /\ child_block_at_depth1 = child_block_at_depth
    /\ waiting_type_annotation1 = waiting_type_annotation
    /\ waiting_prop_name1 = waiting_prop_name
    /\ next_token1 = next_token /\ event1 = event

SameAsV2 ==
    /\ version2 = "v2"
    /\ mode2 = mode /\ flags2 = flags
    /\ depth2 = depth /\ slashdash_depth2 = slashdash_depth
    /\ child_block_at_depth2 = child_block_at_depth
    /\ waiting_type_annotation2 = waiting_type_annotation
    /\ waiting_prop_name2 = waiting_prop_name
    /\ next_token2 = next_token /\ event2 = event

Loose(tok) == tok.class \in {"looseV1", "looseV2"}

\* What was put back is a word that only v2 reads: the v1 parser has stopped at it, and
\* the detecting one is about to settle on v2.
AboutToSettle ==
    /\ version = "detect"
    /\ next_token.type = "WORD" /\ next_token.class = "onlyV2"
    /\ mode = "IN_NODE" /\ flags \subseteq {"WHITESPACE_REQUIRED"}

Follows2 ==
    /\ ~Rejects(event2) => SameAsV2 /\ version \in {"detect", "v2"}
    /\ ~loose /\ version # "v1" /\ ~Rejects(event) => ~Rejects(event2)

Follows1 ==
    ~loose /\ version # "v2" /\ ~Rejects(event) => SameAsV1 \/ AboutToSettle

DetectIInv ==
    /\ ParserIInv
    /\ ~loose => ~Loose(next_token)
    /\ Follows1
    /\ Follows2

-----------------------------------------------------------------------------
(* One token, two parsers. *)

\* What a step on tok has to show of the parser that reads v2, and of the one that reads v1.
Keeps2(tok) ==
    /\ ~Rejects(event2') => SameAsV2' /\ version' \in {"detect", "v2"}
    /\ ~Loose(tok) /\ version' # "v1" /\ ~Rejects(event') => ~Rejects(event2')

Keeps1(tok) ==
    ~Loose(tok) /\ version' # "v2" /\ ~Rejects(event') => SameAsV1' \/ AboutToSettle'

\* The tables are the same in each instance.
LEMMA Tables2 ==
    /\ V2!NoEvent = NoEvent /\ V2!ParseError = ParseError
    /\ V2!NoToken = NoToken /\ V2!EndOfInput = EndOfInput
    /\ V2!ValueTypes = ValueTypes
    /\ \A class : V2!Reading(class, "v2") = V2Reading(class)
    /\ \A class : V2!VersionAfter(class, "v2") = "v2"
BY DEF NoEvent, ParseError, NoToken, EndOfInput, ValueTypes, V2Reading, Event,
   Punctuation, V2!NoEvent, V2!ParseError, V2!NoToken, V2!EndOfInput, V2!ValueTypes,
   V2!Reading, V2!V2Reading, V2!VersionAfter, V2!Event, V2!Punctuation

\* What is a value in v2 is the same value to a parser that may still become one of v2.
LEMMA ReadAlike2 ==
    ASSUME version \in {"detect", "v2"}, NEW class
    PROVE  /\ V2Reading(class) # "rejected" =>
                  /\ Reading(class, version) = V2Reading(class)
                  /\ VersionAfter(class, version) \in {"detect", "v2"}
           /\ Reading(class, version) # "rejected" /\ VersionAfter(class, version) # "v1" =>
                  class \in {"looseV1", "looseV2"} \/ V2Reading(class) # "rejected"
BY DEF V2Reading, V1Reading, Reading, VersionAfter

\* Guards are the same in the same state.
LEMMA Guards2 ==
    ASSUME NEW tok, SameAsV2
    PROVE  /\ V2!live = live /\ V2!InAnnotation = InAnnotation
           /\ V2!BeforeAnnotation(tok) = BeforeAnnotation(tok)
           /\ V2!IsSpace(tok) = IsSpace(tok) /\ V2!IsComment(tok) = IsComment(tok)
           /\ V2!IsSlashdash(tok) = IsSlashdash(tok)
           /\ V2!NeedsV2Spacing = NeedsV2Spacing /\ V2!EntryAllowed = EntryAllowed
           /\ V2!BlockAllowed = BlockAllowed /\ V2!EndsNode(tok) = EndsNode(tok)
           /\ V2!NodeCannotEndHere = NodeCannotEndHere
BY DEF SameAsV2, live, InAnnotation, BeforeAnnotation, IsSpace, IsComment, IsSlashdash,
       NeedsV2Spacing, EntryAllowed, BlockAllowed, EndsNode, NodeCannotEndHere,
       V2!live, V2!InAnnotation, V2!BeforeAnnotation, V2!IsSpace, V2!IsComment,
       V2!IsSlashdash, V2!NeedsV2Spacing, V2!EntryAllowed, V2!BlockAllowed, V2!EndsNode,
       V2!NodeCannotEndHere, WhitespaceBannedV1, V2!WhitespaceBannedV1

LEMMA Annotation2 ==
    ASSUME NEW tok, SameAsV2, version \in {"detect", "v2"},
           ~BeforeAnnotation(tok), InAnnotation, Dispatch(tok), V2!Dispatch(tok)
    PROVE  Keeps2(tok)
<1>1. AnnotationName(tok) \/ AnnotationClose(tok) \/ RejectInAnnotation(tok)
  BY DEF Dispatch, NextNode, NextEventInNode, BeforeAnnotation, InAnnotation, live,
         LineContinuationEnd, LineContinuation, RejectLineContinuation
<1>2. V2!AnnotationName(tok) \/ V2!AnnotationClose(tok) \/ V2!RejectInAnnotation(tok)
  BY Guards2 DEF V2!Dispatch, V2!NextNode, V2!NextEventInNode, BeforeAnnotation,
     InAnnotation, live, SameAsV2, V2!LineContinuationEnd, V2!LineContinuation,
     V2!RejectLineContinuation
<1> USE Tables2, ReadAlike2, Guards2
<1>3. CASE V2!AnnotationName(tok)
  BY <1>1, <1>3 DEF AnnotationName, AnnotationClose, RejectInAnnotation,
     V2!AnnotationName, Fail, Consume, V2!Consume, SameAsV2, Keeps2, Rejects, Loose,
     place, V2!place, ParseError, Event
<1>4. CASE V2!AnnotationClose(tok)
  BY <1>1, <1>4 DEF AnnotationName, AnnotationClose, RejectInAnnotation,
     V2!AnnotationClose, Fail, Consume, V2!Consume, SameAsV2, Keeps2, Rejects, Loose,
     place, V2!place, waiting, V2!waiting, ParseError, Event
<1>5. CASE V2!RejectInAnnotation(tok)
  BY <1>1, <1>5 DEF AnnotationName, AnnotationClose, RejectInAnnotation,
     V2!RejectInAnnotation, Fail, V2!Fail, Consume, SameAsV2, Keeps2, Rejects, Loose,
     ParseError, Event
<1> QED BY <1>2, <1>3, <1>4, <1>5

LEMMA Outside2 ==
    ASSUME NEW tok, SameAsV2, version \in {"detect", "v2"},
           mode = "OUTSIDE_NODE", ~InAnnotation, Dispatch(tok), V2!Dispatch(tok)
    PROVE  Keeps2(tok)
<1> DEFINE Any == \/ BlankLine(tok) \/ AnnotationOpen(tok) \/ StartNode(tok)
                  \/ EndChildren(tok) \/ LineContinuationOutside(tok) \/ RejectOutside(tok)
<1>1. Any
  BY DEF Dispatch, AnnotationName, AnnotationClose, RejectInAnnotation, NextNode,
         NextEventInNode, InAnnotation
<1>2. \/ V2!BlankLine(tok) \/ V2!AnnotationOpen(tok) \/ V2!StartNode(tok)
      \/ V2!EndChildren(tok) \/ V2!LineContinuationOutside(tok) \/ V2!RejectOutside(tok)
  BY Guards2 DEF V2!Dispatch, V2!AnnotationName, V2!AnnotationClose,
     V2!RejectInAnnotation, V2!NextNode, V2!NextEventInNode, InAnnotation, SameAsV2
<1> USE Tables2, ReadAlike2, Guards2
    DEF SameAsV2, Keeps2, Rejects, Loose, ParseError, Event, Fail, V2!Fail, Consume,
      V2!Consume, place, V2!place, waiting, V2!waiting, ValueTypes, ApplySlashdash,
      V2!ApplySlashdash, SlashdashEndingAt, V2!SlashdashEndingAt, V2!Event, BlankLine,
      AnnotationOpen, StartNode, EndChildren, LineContinuationOutside, RejectOutside
<1>3. CASE V2!BlankLine(tok) BY <1>1, <1>3 DEF V2!BlankLine
<1>4. CASE V2!AnnotationOpen(tok) BY <1>1, <1>4 DEF V2!AnnotationOpen
<1>5. CASE V2!StartNode(tok) BY <1>1, <1>5 DEF V2!StartNode
<1>6. CASE V2!EndChildren(tok)
  BY <1>1, <1>6 DEF V2!EndChildren, ChildrenOpen, V2!ChildrenOpen, BlockEndedAt,
     V2!BlockEndedAt
<1>7. CASE V2!LineContinuationOutside(tok) BY <1>1, <1>7 DEF V2!LineContinuationOutside
<1>8. CASE V2!RejectOutside(tok)
  BY <1>1, <1>8 DEF V2!RejectOutside, ChildrenOpen, V2!ChildrenOpen
<1> QED BY <1>2, <1>3, <1>4, <1>5, <1>6, <1>7, <1>8

LEMMA LineContinued2 ==
    ASSUME NEW tok, SameAsV2, version \in {"detect", "v2"}, mode = "IN_NODE",
           "LINE_CONT" \in live \/ tok.type = "LINE_CONTINUATION",
           Dispatch(tok), V2!Dispatch(tok)
    PROVE  Keeps2(tok)
<1>1. LineContinuationEnd(tok) \/ LineContinuation(tok) \/ RejectLineContinuation(tok)
  BY DEF Dispatch, AnnotationName, AnnotationClose, RejectInAnnotation, NextNode,
         NextEventInNode, BeforeAnnotation
<1>2. V2!LineContinuationEnd(tok) \/ V2!LineContinuation(tok) \/ V2!RejectLineContinuation(tok)
  BY Guards2 DEF V2!Dispatch, V2!AnnotationName, V2!AnnotationClose,
     V2!RejectInAnnotation, V2!NextNode, V2!NextEventInNode, BeforeAnnotation, SameAsV2
<1> USE Tables2, Guards2
    DEF SameAsV2, Keeps2, Rejects, Loose, ParseError, Event, Fail, V2!Fail, Consume,
      V2!Consume, place, V2!place, waiting, V2!waiting, SpacingAllowed,
      V2!SpacingAllowed, AcceptSpacing, V2!AcceptSpacing, LineContinuationEnd,
      LineContinuation, RejectLineContinuation
<1>3. CASE V2!LineContinuationEnd(tok) BY <1>1, <1>3 DEF V2!LineContinuationEnd
<1>4. CASE V2!LineContinuation(tok) BY <1>1, <1>4 DEF V2!LineContinuation
<1>5. CASE V2!RejectLineContinuation(tok) BY <1>1, <1>5 DEF V2!RejectLineContinuation
<1> QED BY <1>2, <1>3, <1>4, <1>5

LEMMA AfterString2 ==
    ASSUME NEW tok, SameAsV2, version \in {"detect", "v2"}, mode = "IN_NODE",
           "LINE_CONT" \notin live, tok.type # "LINE_CONTINUATION",
           "MAYBE_IN_PROPERTY" \in live, Dispatch(tok), V2!Dispatch(tok)
    PROVE  Keeps2(tok)
<1>0. BeforeAnnotation(tok) BY DEF BeforeAnnotation
<1>1. PropertyKey(tok) \/ PendingArgument(tok) \/ RejectPending(tok)
  BY <1>0 DEF Dispatch, AnnotationName, AnnotationClose, RejectInAnnotation, NextNode,
         NextEventInNode, LineContinuationEnd, LineContinuation,
         RejectLineContinuation
<1>2. V2!PropertyKey(tok) \/ V2!PendingArgument(tok)
  BY <1>0, Guards2 DEF V2!Dispatch, V2!AnnotationName, V2!AnnotationClose,
     V2!RejectInAnnotation, V2!NextNode, V2!NextEventInNode, SameAsV2,
     V2!LineContinuationEnd, V2!LineContinuation, V2!RejectLineContinuation,
     V2!RejectPending
<1> USE Tables2, Guards2
    DEF SameAsV2, Keeps2, Rejects, Loose, ParseError, Event, V2!Event, Consume,
      V2!Consume, PutBack, V2!PutBack, place, V2!place, waiting, V2!waiting,
      ApplySlashdash, V2!ApplySlashdash, SlashdashEndingAt, V2!SlashdashEndingAt,
      VersionAfterArgument, V2!VersionAfterArgument, PropertyKey, PendingArgument,
      RejectPending
<1>3. CASE V2!PropertyKey(tok) BY <1>1, <1>3 DEF V2!PropertyKey
<1>4. CASE V2!PendingArgument(tok) BY <1>1, <1>4 DEF V2!PendingArgument
<1> QED BY <1>2, <1>3, <1>4

LEMMA InNode2 ==
    ASSUME NEW tok, SameAsV2, version \in {"detect", "v2"}, mode = "IN_NODE",
           "LINE_CONT" \notin live, tok.type # "LINE_CONTINUATION",
           "MAYBE_IN_PROPERTY" \notin live, ~InAnnotation, Dispatch(tok), V2!Dispatch(tok)
    PROVE  Keeps2(tok)
<1>1. \/ EndNode(tok) \/ StartChildren(tok) \/ (AnnotationOpen(tok) /\ EntryAllowed)
      \/ PossibleKey(tok) \/ Entry(tok) \/ RejectEntry(tok)
  BY DEF Dispatch, AnnotationName, AnnotationClose, RejectInAnnotation, NextNode,
         NextEventInNode, InAnnotation, LineContinuationEnd, LineContinuation,
         RejectLineContinuation
<1>2. \/ V2!EndNode(tok) \/ V2!StartChildren(tok) \/ (V2!AnnotationOpen(tok) /\ EntryAllowed)
      \/ V2!PossibleKey(tok) \/ V2!Entry(tok) \/ V2!RejectEntry(tok)
  BY Guards2 DEF V2!Dispatch, V2!AnnotationName, V2!AnnotationClose,
     V2!RejectInAnnotation, V2!NextNode, V2!NextEventInNode, InAnnotation, SameAsV2,
     V2!LineContinuationEnd, V2!LineContinuation, V2!RejectLineContinuation
<1> USE Tables2, ReadAlike2, Guards2
    DEF SameAsV2, Keeps2, Rejects, Loose, ParseError, Event, V2!Event, Fail, V2!Fail,
      Consume, V2!Consume, PutBack, V2!PutBack, place, V2!place, waiting, V2!waiting,
      ApplySlashdash, V2!ApplySlashdash, SlashdashEndingAt, V2!SlashdashEndingAt,
      ValueTypes, EndsNode, MayBeKey, V2!MayBeKey, BareValue, V2!BareValue, EndNode,
      StartChildren, AnnotationOpen, PossibleKey, Entry, RejectEntry
<1>3. CASE V2!EndNode(tok) BY <1>1, <1>3 DEF V2!EndNode
<1>4. CASE V2!StartChildren(tok) BY <1>1, <1>4 DEF V2!StartChildren
<1>5. CASE V2!AnnotationOpen(tok) /\ EntryAllowed BY <1>1, <1>5 DEF V2!AnnotationOpen
<1>6. CASE V2!PossibleKey(tok) BY <1>1, <1>6 DEF V2!PossibleKey
<1>7. CASE V2!Entry(tok) BY ZenonT(60), <1>1, <1>7 DEF V2!Entry
<1>8. CASE V2!RejectEntry(tok) BY <1>1, <1>8 DEF V2!RejectEntry
<1> QED BY <1>2, <1>3, <1>4, <1>5, <1>6, <1>7, <1>8

LEMMA Dispatched2 ==
    ASSUME NEW tok, SameAsV2, version \in {"detect", "v2"}, Dispatch(tok), V2!Dispatch(tok)
    PROVE  Keeps2(tok)
<1>1. CASE InAnnotation /\ ~BeforeAnnotation(tok) BY <1>1, Annotation2
<1>2. CASE mode = "OUTSIDE_NODE"
  <2>1. ~BeforeAnnotation(tok) BY <1>2 DEF BeforeAnnotation
  <2> QED BY <1>1, <1>2, <2>1, Outside2
<1>3. CASE mode = "IN_NODE" /\ ~(InAnnotation /\ ~BeforeAnnotation(tok))
  <2>1. CASE "LINE_CONT" \in live \/ tok.type = "LINE_CONTINUATION"
    BY <1>3, <2>1, LineContinued2
  <2>2. CASE /\ "LINE_CONT" \notin live /\ tok.type # "LINE_CONTINUATION"
             /\ "MAYBE_IN_PROPERTY" \in live
    BY <1>3, <2>2, AfterString2
  <2>3. CASE /\ "LINE_CONT" \notin live /\ tok.type # "LINE_CONTINUATION"
             /\ "MAYBE_IN_PROPERTY" \notin live
    <3>1. ~BeforeAnnotation(tok) BY <2>3 DEF BeforeAnnotation
    <3> QED BY <1>3, <2>3, <3>1, InNode2
  <2> QED BY <2>1, <2>2, <2>3
<1>4. mode \in {"OUTSIDE_NODE", "IN_NODE"} \/ (InAnnotation /\ ~BeforeAnnotation(tok))
  BY DEF Dispatch, AnnotationName, AnnotationClose, RejectInAnnotation, NextNode,
         NextEventInNode, InAnnotation
<1> QED BY <1>1, <1>2, <1>3, <1>4

LEMMA Handled2 ==
    ASSUME NEW tok, SameAsV2, version \in {"detect", "v2"}, Handle(tok), V2!Handle(tok)
    PROVE  Keeps2(tok)
<1> USE Tables2, Guards2
<1>1. IsSpace(tok) \/ IsComment(tok) => ~IsSlashdash(tok)
  BY DEF IsSpace, IsComment, IsSlashdash
<1>2. CASE IsSpace(tok) \/ IsComment(tok)
  <2>1. Spacing(tok) \/ RejectBeforeDispatch(tok)
    BY <1>1, <1>2 DEF Handle, Slashdash, Dispatched
  <2>2. V2!Spacing(tok) \/ V2!RejectBeforeDispatch(tok)
    BY <1>1, <1>2 DEF V2!Handle, V2!Slashdash, V2!Dispatched
  <2> USE DEF Spacing, V2!Spacing, RejectBeforeDispatch, V2!RejectBeforeDispatch,
       SpacingAllowed, V2!SpacingAllowed, AcceptSpacing, V2!AcceptSpacing, Fail, V2!Fail,
       SameAsV2, Keeps2, Rejects, Loose, ParseError, Event, V2!Event, Consume, V2!Consume,
       place, V2!place, waiting, V2!waiting
  <2>3. CASE Spacing(tok) /\ V2!Spacing(tok) BY <2>3
  <2>4. CASE RejectBeforeDispatch(tok) BY <1>1, <1>2, <2>2, <2>4
  <2>5. CASE V2!RejectBeforeDispatch(tok) BY <1>1, <1>2, <2>1, <2>5
  <2> QED BY <2>1, <2>2, <2>3, <2>4, <2>5
<1>3. CASE IsSlashdash(tok)
  <2>1. Slashdash(tok) \/ RejectBeforeDispatch(tok)
    BY <1>1, <1>3 DEF Handle, Spacing, Dispatched
  <2>2. V2!Slashdash(tok) \/ V2!RejectBeforeDispatch(tok)
    BY <1>1, <1>3 DEF V2!Handle, V2!Spacing, V2!Dispatched
  <2> QED BY <1>1, <1>3, <2>1, <2>2 DEF Slashdash, V2!Slashdash, RejectBeforeDispatch,
       V2!RejectBeforeDispatch, Fail, V2!Fail, SameAsV2, Keeps2, Rejects, Loose,
       ParseError, Event, Consume, V2!Consume, place, V2!place, waiting, V2!waiting,
       HiddenFrom, V2!HiddenFrom
<1>4. CASE Dispatched(tok)
  <2>1. Dispatch(tok) BY <1>4 DEF Handle, Spacing, Slashdash, RejectBeforeDispatch,
       Dispatched
  <2>2. V2!Dispatch(tok)
    BY <1>4 DEF Dispatched, V2!Handle, V2!Spacing, V2!Slashdash, V2!RejectBeforeDispatch,
       V2!Dispatched
  <2> QED BY <2>1, <2>2, Dispatched2
<1> QED BY <1>2, <1>3, <1>4 DEF Dispatched

\* The end of the data.
LEMMA Ended2 ==
    ASSUME SameAsV2, version \in {"detect", "v2"}, EofInNode \/ EofOutsideNode,
           V2!EofInNode \/ V2!EofOutsideNode
    PROVE  Keeps2(EndOfInput)
<1>1. CASE mode = "IN_NODE"
  <2>1. Dispatch(EndOfInput) BY <1>1 DEF EofInNode, EofOutsideNode
  <2>2. V2!Dispatch(EndOfInput)
    BY <1>1, Tables2 DEF SameAsV2, V2!EofInNode, V2!EofOutsideNode
  <2> QED BY <2>1, <2>2, Dispatched2
<1>2. CASE mode # "IN_NODE"
  <2>1. EofOutsideNode BY <1>2 DEF EofInNode
  <2>2. V2!EofOutsideNode BY <1>2 DEF SameAsV2, V2!EofInNode
  <2> QED BY <2>1, <2>2, Tables2 DEF EofOutsideNode, V2!EofOutsideNode, Incomplete,
       V2!Incomplete, SameAsV2, Keeps2, Rejects, Loose, ParseError, EndOfDocument,
       V2!EndOfDocument, Event, V2!Event, place, V2!place, waiting, V2!waiting
<1> QED BY <1>1, <1>2

-----------------------------------------------------------------------------
(* The same for the parser that reads v1. *)

LEMMA Tables1 ==
    /\ V1!NoEvent = NoEvent /\ V1!ParseError = ParseError
    /\ V1!NoToken = NoToken /\ V1!EndOfInput = EndOfInput
    /\ V1!ValueTypes = ValueTypes
    /\ \A class : V1!Reading(class, "v1") = V1Reading(class)
    /\ \A class : V1!VersionAfter(class, "v1") = "v1"
BY DEF NoEvent, ParseError, NoToken, EndOfInput, ValueTypes, V1Reading, Event,
   Punctuation, V1!NoEvent, V1!ParseError, V1!NoToken, V1!EndOfInput, V1!ValueTypes,
   V1!Reading, V1!V1Reading, V1!VersionAfter, V1!Event, V1!Punctuation

\* What does not make the detecting parser read v2 is what it is in v1.
LEMMA ReadAlike1 ==
    ASSUME version \in {"detect", "v1"}, NEW class, class \notin {"looseV1", "looseV2"},
           VersionAfter(class, version) # "v2"
    PROVE  Reading(class, version) = V1Reading(class)
BY DEF V2Reading, V1Reading, Reading, VersionAfter

\* Guards are the same in the same state.
LEMMA Guards1 ==
    ASSUME NEW tok, SameAsV1
    PROVE  /\ V1!live = live /\ V1!InAnnotation = InAnnotation
           /\ V1!BeforeAnnotation(tok) = BeforeAnnotation(tok)
           /\ V1!IsSpace(tok) = IsSpace(tok) /\ V1!IsComment(tok) = IsComment(tok)
           /\ V1!IsSlashdash(tok) = IsSlashdash(tok)
           /\ V1!NeedsV2Spacing = NeedsV2Spacing /\ V1!EntryAllowed = EntryAllowed
           /\ V1!BlockAllowed = BlockAllowed /\ V1!EndsNode(tok) = EndsNode(tok)
           /\ V1!NodeCannotEndHere = NodeCannotEndHere
BY DEF SameAsV1, live, InAnnotation, BeforeAnnotation, IsSpace, IsComment, IsSlashdash,
       NeedsV2Spacing, EntryAllowed, BlockAllowed, EndsNode, NodeCannotEndHere,
       V1!live, V1!InAnnotation, V1!BeforeAnnotation, V1!IsSpace, V1!IsComment,
       V1!IsSlashdash, V1!NeedsV2Spacing, V1!EntryAllowed, V1!BlockAllowed, V1!EndsNode,
       V1!NodeCannotEndHere, WhitespaceBannedV1, V1!WhitespaceBannedV1

LEMMA Annotation1 ==
    ASSUME NEW tok, SameAsV1, version \in {"detect", "v1"},
           ~BeforeAnnotation(tok), InAnnotation, Dispatch(tok), V1!Dispatch(tok)
    PROVE  Keeps1(tok)
<1>1. AnnotationName(tok) \/ AnnotationClose(tok) \/ RejectInAnnotation(tok)
  BY DEF Dispatch, NextNode, NextEventInNode, BeforeAnnotation, InAnnotation, live,
         LineContinuationEnd, LineContinuation, RejectLineContinuation
<1>2. V1!AnnotationName(tok) \/ V1!AnnotationClose(tok) \/ V1!RejectInAnnotation(tok)
  BY Guards1 DEF V1!Dispatch, V1!NextNode, V1!NextEventInNode, BeforeAnnotation,
     InAnnotation, live, SameAsV1, V1!LineContinuationEnd, V1!LineContinuation,
     V1!RejectLineContinuation
<1>0. ~Loose(tok) /\ VersionAfter(tok.class, version) # "v2" =>
          Reading(tok.class, version) = V1Reading(tok.class)
  BY ReadAlike1 DEF Loose
<1>9. V1!VersionAfter(tok.class, version1) = "v1" /\
      V1!Reading(tok.class, version1) = V1Reading(tok.class)
  BY Tables1 DEF SameAsV1
<1> USE Tables1, <1>0, <1>9, Guards1
<1>3. CASE V1!AnnotationName(tok)
  <2>1. AnnotationName(tok) \/ RejectInAnnotation(tok)
    BY <1>1, <1>3 DEF V1!AnnotationName, AnnotationClose
  <2>2. CASE RejectInAnnotation(tok)
    BY <2>2 DEF RejectInAnnotation, Fail, Keeps1, Rejects, ParseError, Event
  <2>3. CASE AnnotationName(tok)
    BY <1>3, <2>3 DEF AnnotationName, V1!AnnotationName, Consume, V1!Consume, place,
       V1!place, Keeps1, SameAsV1
  <2> QED BY <2>1, <2>2, <2>3
<1>4. CASE V1!AnnotationClose(tok)
  BY <1>1, <1>4 DEF AnnotationName, AnnotationClose, RejectInAnnotation,
     V1!AnnotationClose, Fail, Consume, V1!Consume, SameAsV1, Keeps1, Rejects, Loose,
     place, V1!place, waiting, V1!waiting, ParseError, Event
<1>5. CASE V1!RejectInAnnotation(tok)
  BY <1>1, <1>5 DEF AnnotationName, AnnotationClose, RejectInAnnotation,
     V1!RejectInAnnotation, Fail, V1!Fail, Consume, SameAsV1, Keeps1, Rejects, Loose,
     ParseError, Event
<1> QED BY <1>2, <1>3, <1>4, <1>5

LEMMA Outside1 ==
    ASSUME NEW tok, SameAsV1, version \in {"detect", "v1"},
           mode = "OUTSIDE_NODE", ~InAnnotation, Dispatch(tok), V1!Dispatch(tok)
    PROVE  Keeps1(tok)
<1> DEFINE Any == \/ BlankLine(tok) \/ AnnotationOpen(tok) \/ StartNode(tok)
                  \/ EndChildren(tok) \/ LineContinuationOutside(tok) \/ RejectOutside(tok)
<1>1. Any
  BY DEF Dispatch, AnnotationName, AnnotationClose, RejectInAnnotation, NextNode,
         NextEventInNode, InAnnotation
<1>2. \/ V1!BlankLine(tok) \/ V1!AnnotationOpen(tok) \/ V1!StartNode(tok)
      \/ V1!EndChildren(tok) \/ V1!LineContinuationOutside(tok) \/ V1!RejectOutside(tok)
  BY Guards1 DEF V1!Dispatch, V1!AnnotationName, V1!AnnotationClose,
     V1!RejectInAnnotation, V1!NextNode, V1!NextEventInNode, InAnnotation, SameAsV1
<1>0. ~Loose(tok) /\ VersionAfter(tok.class, version) # "v2" =>
          Reading(tok.class, version) = V1Reading(tok.class)
  BY ReadAlike1 DEF Loose
<1>9. V1!VersionAfter(tok.class, version1) = "v1" /\
      V1!Reading(tok.class, version1) = V1Reading(tok.class)
  BY Tables1 DEF SameAsV1
<1> USE Tables1, <1>0, <1>9, Guards1
    DEF SameAsV1, Keeps1, Rejects, Loose, ParseError, Event, Fail, V1!Fail, Consume,
      V1!Consume, place, V1!place, waiting, V1!waiting, ValueTypes, ApplySlashdash,
      V1!ApplySlashdash, SlashdashEndingAt, V1!SlashdashEndingAt, V1!Event, BlankLine,
      AnnotationOpen, StartNode, EndChildren, LineContinuationOutside, RejectOutside
<1>3. CASE V1!BlankLine(tok) BY <1>1, <1>3 DEF V1!BlankLine
<1>4. CASE V1!AnnotationOpen(tok) BY <1>1, <1>4 DEF V1!AnnotationOpen
<1>5. CASE V1!StartNode(tok)
  <2>1. CASE StartNode(tok) BY <1>5, <2>1 DEF V1!StartNode
  <2>2. CASE ~StartNode(tok) BY <1>1, <1>5, <2>2 DEF V1!StartNode
  <2> QED BY <2>1, <2>2
<1>6. CASE V1!EndChildren(tok)
  BY <1>1, <1>6 DEF V1!EndChildren, ChildrenOpen, V1!ChildrenOpen, BlockEndedAt,
     V1!BlockEndedAt
<1>7. CASE V1!LineContinuationOutside(tok) BY <1>1, <1>7 DEF V1!LineContinuationOutside
<1>8. CASE V1!RejectOutside(tok)
  BY <1>1, <1>8 DEF V1!RejectOutside, ChildrenOpen, V1!ChildrenOpen
<1> QED BY <1>2, <1>3, <1>4, <1>5, <1>6, <1>7, <1>8

LEMMA LineContinued1 ==
    ASSUME NEW tok, SameAsV1, version \in {"detect", "v1"}, mode = "IN_NODE",
           "LINE_CONT" \in live \/ tok.type = "LINE_CONTINUATION",
           Dispatch(tok), V1!Dispatch(tok)
    PROVE  Keeps1(tok)
<1>1. LineContinuationEnd(tok) \/ LineContinuation(tok) \/ RejectLineContinuation(tok)
  BY DEF Dispatch, AnnotationName, AnnotationClose, RejectInAnnotation, NextNode,
         NextEventInNode, BeforeAnnotation
<1>2. V1!LineContinuationEnd(tok) \/ V1!LineContinuation(tok) \/ V1!RejectLineContinuation(tok)
  BY Guards1 DEF V1!Dispatch, V1!AnnotationName, V1!AnnotationClose,
     V1!RejectInAnnotation, V1!NextNode, V1!NextEventInNode, BeforeAnnotation, SameAsV1
<1> USE Tables1, Guards1
    DEF SameAsV1, Keeps1, Rejects, Loose, ParseError, Event, Fail, V1!Fail, Consume,
      V1!Consume, place, V1!place, waiting, V1!waiting, SpacingAllowed,
      V1!SpacingAllowed, AcceptSpacing, V1!AcceptSpacing, LineContinuationEnd,
      LineContinuation, RejectLineContinuation
<1>3. CASE V1!LineContinuationEnd(tok) BY <1>1, <1>3 DEF V1!LineContinuationEnd
<1>4. CASE V1!LineContinuation(tok) BY <1>1, <1>4 DEF V1!LineContinuation
<1>5. CASE V1!RejectLineContinuation(tok) BY <1>1, <1>5 DEF V1!RejectLineContinuation
<1> QED BY <1>2, <1>3, <1>4, <1>5

LEMMA AfterString1 ==
    ASSUME NEW tok, SameAsV1, version \in {"detect", "v1"}, mode = "IN_NODE",
           "LINE_CONT" \notin live, tok.type # "LINE_CONTINUATION",
           "MAYBE_IN_PROPERTY" \in live, Dispatch(tok), V1!Dispatch(tok)
    PROVE  Keeps1(tok)
<1>0. BeforeAnnotation(tok) BY DEF BeforeAnnotation
<1>1. PropertyKey(tok) \/ PendingArgument(tok) \/ RejectPending(tok)
  BY <1>0 DEF Dispatch, AnnotationName, AnnotationClose, RejectInAnnotation, NextNode,
         NextEventInNode, LineContinuationEnd, LineContinuation,
         RejectLineContinuation
<1>2. V1!PropertyKey(tok) \/ V1!PendingArgument(tok) \/ V1!RejectPending(tok)
  BY <1>0, Guards1 DEF V1!Dispatch, V1!AnnotationName, V1!AnnotationClose,
     V1!RejectInAnnotation, V1!NextNode, V1!NextEventInNode, SameAsV1,
     V1!LineContinuationEnd, V1!LineContinuation, V1!RejectLineContinuation
<1> USE Tables1, Guards1
    DEF SameAsV1, Keeps1, Rejects, Loose, ParseError, Event, V1!Event, Consume,
      V1!Consume, PutBack, V1!PutBack, place, V1!place, waiting, V1!waiting,
      ApplySlashdash, V1!ApplySlashdash, SlashdashEndingAt, V1!SlashdashEndingAt,
      VersionAfterArgument, V1!VersionAfterArgument, PropertyKey, PendingArgument,
      RejectPending
<1>3. CASE V1!PropertyKey(tok)
  BY <1>1, <1>3 DEF V1!PropertyKey, V1!KeySpacingAllowed, Fail
<1>4. CASE V1!PendingArgument(tok) BY <1>1, <1>4 DEF V1!PendingArgument
<1>5. CASE V1!RejectPending(tok)
  BY <1>1, <1>5 DEF V1!RejectPending, V1!KeySpacingAllowed, KeySpacingAllowed, Fail,
     V1!Fail
<1> QED BY <1>2, <1>3, <1>4, <1>5

LEMMA InNode1 ==
    ASSUME NEW tok, SameAsV1, version \in {"detect", "v1"}, mode = "IN_NODE",
           "LINE_CONT" \notin live, tok.type # "LINE_CONTINUATION",
           "MAYBE_IN_PROPERTY" \notin live, ~InAnnotation, Dispatch(tok), V1!Dispatch(tok)
    PROVE  Keeps1(tok)
<1>1. \/ EndNode(tok) \/ StartChildren(tok) \/ (AnnotationOpen(tok) /\ EntryAllowed)
      \/ PossibleKey(tok) \/ Entry(tok) \/ RejectEntry(tok)
  BY DEF Dispatch, AnnotationName, AnnotationClose, RejectInAnnotation, NextNode,
         NextEventInNode, InAnnotation, LineContinuationEnd, LineContinuation,
         RejectLineContinuation
<1>2. \/ V1!EndNode(tok) \/ V1!StartChildren(tok) \/ (V1!AnnotationOpen(tok) /\ EntryAllowed)
      \/ V1!PossibleKey(tok) \/ V1!Entry(tok) \/ V1!RejectEntry(tok)
  BY Guards1 DEF V1!Dispatch, V1!AnnotationName, V1!AnnotationClose,
     V1!RejectInAnnotation, V1!NextNode, V1!NextEventInNode, InAnnotation, SameAsV1,
     V1!LineContinuationEnd, V1!LineContinuation, V1!RejectLineContinuation
<1>0. ~Loose(tok) /\ VersionAfter(tok.class, version) # "v2" =>
          Reading(tok.class, version) = V1Reading(tok.class)
  BY ReadAlike1 DEF Loose
<1>9. V1!VersionAfter(tok.class, version1) = "v1" /\
      V1!Reading(tok.class, version1) = V1Reading(tok.class)
  BY Tables1 DEF SameAsV1
<1> USE Tables1, <1>0, <1>9, Guards1
    DEF SameAsV1, Keeps1, Rejects, Loose, ParseError, Event, V1!Event, Fail, V1!Fail,
      Consume, V1!Consume, PutBack, V1!PutBack, place, V1!place, waiting, V1!waiting,
      ApplySlashdash, V1!ApplySlashdash, SlashdashEndingAt, V1!SlashdashEndingAt,
      ValueTypes, EndsNode, MayBeKey, V1!MayBeKey, BareValue, V1!BareValue, EndNode,
      StartChildren, AnnotationOpen, PossibleKey, Entry, RejectEntry
<1>3. CASE V1!EndNode(tok) BY <1>1, <1>3 DEF V1!EndNode
<1>4. CASE V1!StartChildren(tok) BY <1>1, <1>4 DEF V1!StartChildren
<1>5. CASE V1!AnnotationOpen(tok) /\ EntryAllowed BY <1>1, <1>5 DEF V1!AnnotationOpen
<1>6. CASE V1!PossibleKey(tok)
  <2>1. CASE PossibleKey(tok) BY <1>6, <2>1 DEF V1!PossibleKey
  <2>2. CASE Entry(tok) BY <1>6, <2>2 DEF V1!PossibleKey
  <2>3. CASE RejectEntry(tok) BY <2>3
  <2> QED BY <1>1, <1>6, <2>1, <2>2, <2>3 DEF V1!PossibleKey
<1>7. CASE V1!Entry(tok)
  <2>1. CASE Entry(tok) BY <1>7, <2>1 DEF V1!Entry
  <2>2. CASE PossibleKey(tok) BY <1>7, <2>2 DEF V1!Entry
  <2>3. CASE RejectEntry(tok) BY <2>3
  <2> QED BY <1>1, <1>7, <2>1, <2>2, <2>3 DEF V1!Entry
<1>8. CASE V1!RejectEntry(tok) BY <1>1, <1>8 DEF V1!RejectEntry
<1> QED BY <1>2, <1>3, <1>4, <1>5, <1>6, <1>7, <1>8

LEMMA Dispatched1 ==
    ASSUME NEW tok, SameAsV1, version \in {"detect", "v1"}, Dispatch(tok), V1!Dispatch(tok)
    PROVE  Keeps1(tok)
<1>1. CASE InAnnotation /\ ~BeforeAnnotation(tok) BY <1>1, Annotation1
<1>2. CASE mode = "OUTSIDE_NODE"
  <2>1. ~BeforeAnnotation(tok) BY <1>2 DEF BeforeAnnotation
  <2> QED BY <1>1, <1>2, <2>1, Outside1
<1>3. CASE mode = "IN_NODE" /\ ~(InAnnotation /\ ~BeforeAnnotation(tok))
  <2>1. CASE "LINE_CONT" \in live \/ tok.type = "LINE_CONTINUATION"
    BY <1>3, <2>1, LineContinued1
  <2>2. CASE /\ "LINE_CONT" \notin live /\ tok.type # "LINE_CONTINUATION"
             /\ "MAYBE_IN_PROPERTY" \in live
    BY <1>3, <2>2, AfterString1
  <2>3. CASE /\ "LINE_CONT" \notin live /\ tok.type # "LINE_CONTINUATION"
             /\ "MAYBE_IN_PROPERTY" \notin live
    <3>1. ~BeforeAnnotation(tok) BY <2>3 DEF BeforeAnnotation
    <3> QED BY <1>3, <2>3, <3>1, InNode1
  <2> QED BY <2>1, <2>2, <2>3
<1>4. mode \in {"OUTSIDE_NODE", "IN_NODE"} \/ (InAnnotation /\ ~BeforeAnnotation(tok))
  BY DEF Dispatch, AnnotationName, AnnotationClose, RejectInAnnotation, NextNode,
         NextEventInNode, InAnnotation
<1> QED BY <1>1, <1>2, <1>3, <1>4

LEMMA Handled1 ==
    ASSUME NEW tok, SameAsV1, version \in {"detect", "v1"}, Handle(tok), V1!Handle(tok)
    PROVE  Keeps1(tok)
<1> USE Tables1, Guards1
<1>1. IsSpace(tok) \/ IsComment(tok) => ~IsSlashdash(tok)
  BY DEF IsSpace, IsComment, IsSlashdash
<1>2. CASE IsSpace(tok) \/ IsComment(tok)
  <2>1. Spacing(tok) \/ RejectBeforeDispatch(tok)
    BY <1>1, <1>2 DEF Handle, Slashdash, Dispatched
  <2>2. V1!Spacing(tok) \/ V1!RejectBeforeDispatch(tok)
    BY <1>1, <1>2 DEF V1!Handle, V1!Slashdash, V1!Dispatched
  <2> USE DEF Spacing, V1!Spacing, RejectBeforeDispatch, V1!RejectBeforeDispatch,
       SpacingAllowed, V1!SpacingAllowed, AcceptSpacing, V1!AcceptSpacing, Fail, V1!Fail,
       SameAsV1, Keeps1, Rejects, Loose, ParseError, Event, V1!Event, Consume, V1!Consume,
       place, V1!place, waiting, V1!waiting
  <2>3. CASE Spacing(tok) /\ V1!Spacing(tok) BY <2>3
  <2>4. CASE RejectBeforeDispatch(tok) BY <1>1, <1>2, <2>2, <2>4
  <2>5. CASE V1!RejectBeforeDispatch(tok) BY <1>1, <1>2, <2>1, <2>5
  <2> QED BY <2>1, <2>2, <2>3, <2>4, <2>5
<1>3. CASE IsSlashdash(tok)
  <2>1. Slashdash(tok) \/ RejectBeforeDispatch(tok)
    BY <1>1, <1>3 DEF Handle, Spacing, Dispatched
  <2>2. V1!Slashdash(tok) \/ V1!RejectBeforeDispatch(tok)
    BY <1>1, <1>3 DEF V1!Handle, V1!Spacing, V1!Dispatched
  <2> QED BY <1>1, <1>3, <2>1, <2>2 DEF Slashdash, V1!Slashdash, RejectBeforeDispatch,
       V1!RejectBeforeDispatch, Fail, V1!Fail, SameAsV1, Keeps1, Rejects, Loose,
       ParseError, Event, Consume, V1!Consume, place, V1!place, waiting, V1!waiting,
       HiddenFrom, V1!HiddenFrom
<1>4. CASE Dispatched(tok)
  <2>1. Dispatch(tok) BY <1>4 DEF Handle, Spacing, Slashdash, RejectBeforeDispatch,
       Dispatched
  <2>2. V1!Dispatch(tok)
    BY <1>4 DEF Dispatched, V1!Handle, V1!Spacing, V1!Slashdash, V1!RejectBeforeDispatch,
       V1!Dispatched
  <2> QED BY <2>1, <2>2, Dispatched1
<1> QED BY <1>2, <1>3, <1>4 DEF Dispatched

\* The end of the data.
LEMMA Ended1 ==
    ASSUME SameAsV1, version \in {"detect", "v1"}, EofInNode \/ EofOutsideNode,
           V1!EofInNode \/ V1!EofOutsideNode
    PROVE  Keeps1(EndOfInput)
<1>1. CASE mode = "IN_NODE"
  <2>1. Dispatch(EndOfInput) BY <1>1 DEF EofInNode, EofOutsideNode
  <2>2. V1!Dispatch(EndOfInput)
    BY <1>1, Tables1 DEF SameAsV1, V1!EofInNode, V1!EofOutsideNode
  <2> QED BY <2>1, <2>2, Dispatched1
<1>2. CASE mode # "IN_NODE"
  <2>1. EofOutsideNode BY <1>2 DEF EofInNode
  <2>2. V1!EofOutsideNode BY <1>2 DEF SameAsV1, V1!EofInNode
  <2> QED BY <2>1, <2>2, Tables1 DEF EofOutsideNode, V1!EofOutsideNode, Incomplete,
       V1!Incomplete, SameAsV1, Keeps1, Rejects, Loose, ParseError, EndOfDocument,
       V1!EndOfDocument, Event, V1!Event, place, V1!place, waiting, V1!waiting
<1> QED BY <1>1, <1>2

-----------------------------------------------------------------------------
(* A word that only v2 reads. *)

\* Whatever it meets, it makes the parser settle on v2, or is rejected, or ends an
\* argument and is put back.
LEMMA WordSettles ==
    ASSUME NEW tok, version = "detect", tok.type = "WORD", tok.class = "onlyV2", Handle(tok)
    PROVE  version' = "v2" \/ Rejects(event') \/ AboutToSettle'
<1>1. /\ Reading(tok.class, version) = "string" /\ VersionAfter(tok.class, version) = "v2"
      /\ tok.type \in ValueTypes
  BY DEF Reading, V2Reading, VersionAfter, ValueTypes
<1>2. ~IsSpace(tok) /\ ~IsComment(tok) /\ ~IsSlashdash(tok)
  BY DEF IsSpace, IsComment, IsSlashdash
<1>3. Dispatch(tok) BY <1>2 DEF Handle, Spacing, Slashdash, RejectBeforeDispatch
<1> USE <1>1 DEF Fail, Rejects, ParseError, Event
<1>4. CASE AnnotationName(tok) BY <1>4 DEF AnnotationName
<1>5. CASE AnnotationClose(tok) BY <1>5 DEF AnnotationClose
<1>6. CASE RejectInAnnotation(tok) BY <1>6 DEF RejectInAnnotation
<1>7. CASE NextNode(tok)
  BY <1>7 DEF NextNode, BlankLine, AnnotationOpen, StartNode, EndChildren,
     LineContinuationOutside, RejectOutside
<1>8. CASE NextEventInNode(tok)
  <2>1. CASE PendingArgument(tok) /\ mode = "IN_NODE"
    BY <2>1 DEF PendingArgument, VersionAfterArgument, PutBack, AboutToSettle
  <2>2. CASE Entry(tok) BY <2>2 DEF Entry, BareValue
  <2> QED BY <1>8, <2>1, <2>2 DEF NextEventInNode, LineContinuationEnd,
       LineContinuation, RejectLineContinuation, PropertyKey, RejectPending, EndNode,
       EndsNode, StartChildren, AnnotationOpen, PossibleKey, RejectEntry
<1> QED BY <1>3, <1>4, <1>5, <1>6, <1>7, <1>8 DEF Dispatch

-----------------------------------------------------------------------------
(* Every step. *)

\* What a step takes from the document, and gives to the parsers that still run.
Taken(tok) == Handle(tok) \/ (tok = EndOfInput /\ (EofInNode \/ EofOutsideNode))

TakenByV1(tok) ==
    IF V1!Finished THEN UNCHANGED vars1
    ELSE \/ Handle(tok) /\ V1!Handle(tok)
         \/ ~V1!InCharacterSet(tok) /\ Handle(tok) /\ next_token = NoToken
         \/ /\ tok = EndOfInput /\ (EofInNode \/ EofOutsideNode)
            /\ V1!EofInNode \/ V1!EofOutsideNode

TakenByV2(tok) ==
    IF V2!Finished THEN UNCHANGED vars2
    ELSE \/ Handle(tok) /\ V2!Handle(tok)
         \/ /\ tok = EndOfInput /\ (EofInNode \/ EofOutsideNode)
            /\ V2!EofInNode \/ V2!EofOutsideNode

LEMMA FinishedAlike ==
    /\ V1!Finished = (event1.kind \in {"EOF", "PARSE_ERROR"})
    /\ V2!Finished = (event2.kind \in {"EOF", "PARSE_ERROR"})
BY DEF V1!Finished, V2!Finished

LEMMA Follows2Step ==
    ASSUME DetectIInv, NEW tok, Taken(tok), TakenByV2(tok), VersionStep,
           ~loose' => ~loose /\ ~Loose(tok)
    PROVE  Follows2'
<1>1. ~Finished BY DEF Taken, Handle, Available, EofInNode, EofOutsideNode
<1>2. CASE Rejects(event2)
  <2>1. event2' = event2 BY <1>2, FinishedAlike DEF TakenByV2, vars2, Rejects
  <2>2. ~loose' /\ version' # "v1" => FALSE
    BY <1>1, <1>2 DEF DetectIInv, Follows2, Finished, Rejects, VersionStep
  <2> QED BY <1>2, <2>1, <2>2 DEF Follows2, Rejects
<1>3. CASE ~Rejects(event2)
  <2>1. SameAsV2 /\ version \in {"detect", "v2"} BY <1>3 DEF DetectIInv, Follows2
  <2>2. ~V2!Finished BY <1>1, <2>1, FinishedAlike DEF SameAsV2, Finished
  <2>3. Keeps2(tok) BY <2>1, <2>2, Handled2, Ended2 DEF TakenByV2
  <2> QED BY <2>3 DEF Keeps2, Follows2
<1> QED BY <1>2, <1>3

LEMMA Follows1Step ==
    ASSUME DetectIInv, NEW tok, Taken(tok), SameAsV1 => TakenByV1(tok), VersionStep,
           ~loose' => ~loose /\ ~Loose(tok), next_token # NoToken => tok = next_token
    PROVE  Follows1'
<1> SUFFICES ASSUME ~loose', version' # "v2", ~Rejects(event')
             PROVE  SameAsV1' \/ AboutToSettle'
  BY DEF Follows1
<1>1. ~Finished BY DEF Taken, Handle, Available, EofInNode, EofOutsideNode
<1>2. version \in {"detect", "v1"} BY DEF VersionStep, DetectIInv, ParserIInv, TypeOK
<1>3. SameAsV1 \/ AboutToSettle
  BY <1>1, <1>2 DEF DetectIInv, Follows1, Finished, Rejects
<1>4. CASE AboutToSettle
  <2>1. next_token # NoToken /\ tok = next_token
    BY <1>4 DEF AboutToSettle, NoToken, Punctuation
  <2>2. Handle(tok) BY <2>1 DEF Taken, EofInNode, EofOutsideNode
  <2> QED BY <1>4, <2>1, <2>2, WordSettles DEF AboutToSettle
<1>5. CASE SameAsV1
  <2>1. ~V1!Finished BY <1>1, <1>5, FinishedAlike DEF SameAsV1, Finished
  <2>2. CASE ~V1!InCharacterSet(tok) /\ Handle(tok) /\ next_token = NoToken
    <3>1. tok.type = "WORD" /\ tok.class = "onlyV2" /\ InCharacterSet(tok)
      BY <2>2 DEF V1!InCharacterSet, Handle, Available
    <3>2. version = "detect" BY <1>2, <3>1 DEF InCharacterSet
    <3> QED BY <2>2, <3>1, <3>2, WordSettles
  <2>3. CASE ~(~V1!InCharacterSet(tok) /\ Handle(tok) /\ next_token = NoToken)
    <3>1. Keeps1(tok) BY <1>2, <1>5, <2>1, <2>3, Handled1, Ended1 DEF TakenByV1
    <3> QED BY <3>1 DEF Keeps1
  <2> QED BY <2>2, <2>3
<1> QED BY <1>3, <1>4, <1>5

LEMMA TakenStep ==
    ASSUME DetectIInv, NEW tok \in Handled, Taken(tok), SameAsV1 => TakenByV1(tok),
           TakenByV2(tok),
           ~loose' => ~loose /\ ~Loose(tok), next_token # NoToken => tok = next_token
    PROVE  DetectIInv'
<1>1. StepOn(tok) BY DEF Taken, StepOn
<1>2. ParserIInv /\ TypeOK BY DEF DetectIInv, ParserIInv
<1>3. ParserIInv' BY <1>1, <1>2, ParserIInvStep
<1>4. VersionStep BY <1>1, <1>2, StepVersion
<1>5. next_token' \in {NoToken, tok} BY <1>1, <1>2, StepLexer DEF LexerStep
<1>6. ~Loose(NoToken) BY DEF Loose, NoToken, Punctuation
<1> QED BY <1>3, <1>4, <1>5, <1>6, Follows1Step, Follows2Step DEF DetectIInv

LEMMA DetectInitially == ASSUME DetectInit PROVE DetectIInv
<1>1. ParserIInv BY ParserIInvInit DEF DetectInit
<1>2. next_token = NoToken /\ ~Loose(NoToken)
  BY DEF DetectInit, Init, Loose, NoToken, Punctuation
<1>3. SameAsV1 BY Tables1 DEF DetectInit, Init, V1!Init, SameAsV1
<1>4. SameAsV2 BY Tables2 DEF DetectInit, Init, V2!Init, SameAsV2
<1>5. version = "detect" /\ event = NoEvent BY DetectAssumption DEF DetectInit, Init
<1>6. ~Rejects(event) /\ ~Rejects(event2)
  BY <1>4, <1>5 DEF SameAsV2, Rejects, NoEvent, Event
<1> QED BY <1>1, <1>2, <1>3, <1>4, <1>5, <1>6 DEF DetectIInv, Follows1, Follows2

LEMMA ReadTokenStep == ASSUME DetectIInv, ReadToken PROVE DetectIInv'
<1>1. PICK tok \in Vocabulary :
          Feed(tok) /\ loose' = (loose \/ tok.class \in {"looseV1", "looseV2"})
  BY DEF ReadToken
<1>2. tok \in Handled BY VocabularyAssumption DEF Handled
<1>3. next_token = NoToken BY DEF ReadToken, AllReadOn
<1>4. Taken(tok) BY <1>1 DEF Taken, Feed
<1>5. TakenByV1(tok) /\ TakenByV2(tok) BY <1>1, <1>3 DEF TakenByV1, TakenByV2, Feed
<1>6. ~loose' => ~loose /\ ~Loose(tok) BY <1>1 DEF Loose
<1> QED BY <1>2, <1>3, <1>4, <1>5, <1>6, TakenStep

LEMMA ReadEndStep == ASSUME DetectIInv, ReadEnd PROVE DetectIInv'
<1>1. EofInNode \/ EofOutsideNode BY DEF ReadEnd
<1>2. EndOfInput \in Handled BY DEF Handled
<1>3. next_token = NoToken BY DEF ReadEnd, AllReadOn
<1>4. Taken(EndOfInput) BY <1>1 DEF Taken
<1>5. TakenByV1(EndOfInput) /\ TakenByV2(EndOfInput)
  BY <1>1 DEF TakenByV1, TakenByV2, ReadEnd
<1>6. ~loose' => ~loose /\ ~Loose(EndOfInput) BY DEF ReadEnd, Loose, EndOfInput
<1> QED BY <1>2, <1>3, <1>4, <1>5, <1>6, TakenStep

LEMMA HandleAgainStep == ASSUME DetectIInv, HandleAgain PROVE DetectIInv'
<1>1. ~Finished /\ UNCHANGED loose BY DEF HandleAgain
<1>2. Rejects(event2) \/ SameAsV2 BY DEF DetectIInv, Follows2
<1>3. Rejects(event2) => V2!Finished BY FinishedAlike DEF Rejects
<1>4. SameAsV2 => ~V2!Finished BY <1>1, FinishedAlike DEF SameAsV2, Finished
<1>5. SameAsV1 => ~V1!Finished BY <1>1, FinishedAlike DEF SameAsV1, Finished
<1>6. CASE next_token # NoToken
  <2>1. Handle(next_token) BY <1>6 DEF HandleAgain
  <2>2. next_token \in Handled BY DEF DetectIInv, ParserIInv, TypeOK, Handled
  <2>3. Taken(next_token) BY <2>1 DEF Taken
  <2>4. TakenByV2(next_token)
    BY <1>2, <1>3, <1>4, <1>6, <2>1, Tables2 DEF HandleAgain, TakenByV2, SameAsV2
  <2>5. SameAsV1 => TakenByV1(next_token)
    BY <1>5, <1>6, <2>1, Tables1 DEF HandleAgain, TakenByV1, SameAsV1
  <2>6. ~loose' => ~loose /\ ~Loose(next_token) BY <1>1 DEF DetectIInv
  <2> QED BY <2>2, <2>3, <2>4, <2>5, <2>6, TakenStep
<1>7. CASE next_token = NoToken
  <2>1. UNCHANGED parserVars BY <1>7 DEF HandleAgain
  <2>2. ParserIInv' BY <2>1, ParserIInvStutter DEF DetectIInv
  <2>3. UNCHANGED vars2
    BY <1>2, <1>3, <1>7, Tables2 DEF HandleAgain, SameAsV2
  <2>4. SameAsV1 => UNCHANGED vars1
    BY <1>5, <1>7, Tables1 DEF HandleAgain, SameAsV1
  <2> USE <1>1, <2>1 DEF parserVars, place, waiting, lexer, DetectIInv
  <2>5. Follows2'
    BY <2>3 DEF Follows2, SameAsV2, vars2, Rejects
  <2>6. Follows1'
    BY <2>4, <1>7 DEF Follows1, SameAsV1, vars1, Rejects, AboutToSettle
  <2> QED BY <2>2, <2>5, <2>6 DEF Loose
<1> QED BY <1>6, <1>7

LEMMA DetectStutters == ASSUME DetectIInv, UNCHANGED detectVars PROVE DetectIInv'
<1> USE DEF detectVars, DetectIInv
<1>1. ParserIInv' BY ParserIInvStutter
<1>2. Follows1' /\ Follows2'
  BY DEF Follows1, Follows2, SameAsV1, SameAsV2, AboutToSettle, Rejects, parserVars,
     vars1, vars2, place, waiting, lexer
<1> QED BY <1>1, <1>2 DEF Loose, parserVars, lexer

-----------------------------------------------------------------------------
(* What detection promises. *)

\* The three parsers stay in step as long as the versions allow it.
THEOREM DetectInvariant == DetectSpec => []DetectIInv
<1>1. DetectInit => DetectIInv BY DetectInitially
<1>2. DetectIInv /\ [DetectNext]_detectVars => DetectIInv'
  BY ReadTokenStep, ReadEndStep, HandleAgainStep, DetectStutters DEF DetectNext
<1> QED BY <1>1, <1>2, PTL DEF DetectSpec

\* doc/ckdl-api.rst of KDL_DETECT_VERSION: nothing that a v2 document holds makes the
\* detecting parser read it in another way than a v2 parser does.
THEOREM ReadsV2AsV2 == DetectSpec => []FollowsV2
<1>1. DetectIInv => FollowsV2
  BY DEF DetectIInv, Follows2, SameAsV2, FollowsV2, place, waiting, V2!place, V2!waiting
<1> QED BY <1>1, DetectInvariant, PTL

\* What was read before the parser settled on v1 was read as v1 reads it.
THEOREM ReadsV1AsV1 == DetectSpec => []FollowsV1OnceSettled
<1>1. DetectIInv => FollowsV1OnceSettled
  BY DEF DetectIInv, Follows1, SameAsV1, AboutToSettle, FollowsV1OnceSettled, place,
     waiting, V1!place, V1!waiting
<1> QED BY <1>1, DetectInvariant, PTL

\* No document passes that neither version accepts.
THEOREM AcceptsOneVersion == DetectSpec => []AcceptedInOneVersionIfSettled
<1>1. DetectIInv => AcceptedInOneVersionIfSettled
  <2> SUFFICES ASSUME DetectIInv, ~loose, Accepts(event) PROVE AnyVersionAccepts
    BY DEF AcceptedInOneVersionIfSettled, AcceptedInOneVersion
  <2>1. ~Rejects(event) BY DEF Accepts, Rejects
  <2>2. ~Rejects(event2) => Accepts(event2)
    BY DEF DetectIInv, Follows2, SameAsV2
  <2>3. CASE version = "v2" BY <2>1, <2>2, <2>3 DEF DetectIInv, Follows2,
       AnyVersionAccepts
  <2>4. CASE version = "detect" /\ ~Rejects(event2) BY <2>2, <2>4 DEF AnyVersionAccepts
  <2>5. CASE version = "v1"
    <3>1. SameAsV1 BY <2>1, <2>5 DEF DetectIInv, Follows1, AboutToSettle
    <3> QED BY <2>2, <3>1 DEF SameAsV1, AnyVersionAccepts
  <2> QED BY <2>1, <2>3, <2>4, <2>5 DEF DetectIInv, Follows2, ParserIInv, TypeOK
<1> QED BY <1>1, DetectInvariant, PTL
=============================================================================
