------------------------------ MODULE KdlParser ------------------------------
(***************************************************************************)
(* The pull parser of src/parser.c: kdl_parser_next_event and the handlers *)
(* it dispatches to.  One step handles one token.  `event` is what the     *)
(* step made of it: an event for the caller, or NoEvent when the loop of   *)
(* kdl_parser_next_event just goes round again.  KDL_EMIT_COMMENTS is left *)
(* open: it decides whether comments and slashdashed events are returned   *)
(* or eaten, and no other field of the parser depends on it.               *)
(*                                                                         *)
(* The document is open: each step may read any token the tokenizer could  *)
(* produce after the previous one, so a behaviour is a document together   *)
(* with the parser's run over it.                                          *)
(***************************************************************************)
EXTENDS Integers

CONSTANTS
    Vocabulary,     \* the tokens documents are made of
    Versions,       \* the versions a parser may be created with
    MaxBlocks       \* bound: children blocks nest at most this deep

-----------------------------------------------------------------------------
(***************************************************************************)
(* Tokens.  A token is its type and, for the types that carry a value, the *)
(* class of that value: all that _parse_value can tell apart.              *)
(*                                                                         *)
(*   either     a string in both versions (identifier, plain string)       *)
(*   onlyV1     a string in v1, rejected in v2 (inf, #foo, r"...")         *)
(*   onlyV2     a string in v2, rejected in v1 (a<b, "\s", #"..."#)        *)
(*   looseV1    string in v1, rejected in v2, commits to neither (.5)      *)
(*   looseV2    string in v2, rejected in v1, commits to neither           *)
(*   number     a number                                                   *)
(*   keywordV1  null, true, false                                          *)
(*   keywordV2  #null, #true, #inf, ...: an identifier in v1               *)
(*   malformed  rejected by both versions                                  *)
(***************************************************************************)
Classes == {"either", "onlyV1", "onlyV2", "looseV1", "looseV2", "number",
            "keywordV1", "keywordV2", "malformed"}

ValueTypes == {"WORD", "STRING", "MULTILINE_STRING", "RAW_STRING_V1",
               "RAW_STRING_V2", "RAW_MULTILINE_STRING"}

PunctuationTypes ==
    {"WHITESPACE", "NEWLINE", "SEMICOLON", "MULTI_LINE_COMMENT",
     "SINGLE_LINE_COMMENT", "SLASHDASH", "LINE_CONTINUATION", "EQUALS",
     "START_TYPE", "END_TYPE", "START_CHILDREN", "END_CHILDREN"}

Punctuation(type) == [type |-> type, class |-> "none"]

Tokens ==
    {Punctuation(t) : t \in PunctuationTypes} \cup
    [type : {"WORD"}, class : Classes \ {"looseV2"}] \cup
    [type : {"STRING"}, class : {"either", "onlyV1", "onlyV2", "malformed"}] \cup
    [type : {"MULTILINE_STRING"}, class : {"looseV2", "malformed"}] \cup
    [type : {"RAW_STRING_V1"}, class : {"onlyV1"}] \cup
    [type : {"RAW_STRING_V2", "RAW_MULTILINE_STRING"}, class : {"onlyV2", "malformed"}]

NoToken == Punctuation("NONE")

\* The newline made up at the end of the data to close the current node.
EndOfInput == [type |-> "NEWLINE", class |-> "end of input"]

ASSUME VocabularyAssumption == Vocabulary \subseteq Tokens
ASSUME VersionsAssumption == Versions \subseteq {"v1", "v2", "detect"}
ASSUME MaxBlocksAssumption == MaxBlocks \in Nat

-----------------------------------------------------------------------------
(***************************************************************************)
(* Parser state.  `mode` and `flags` are the two halves of `state`: its    *)
(* low byte and the set of PARSER_FLAG_ bits that are on.                  *)
(***************************************************************************)
Flags == {"LINE_CONT", "TYPE_ANNOTATION_START", "TYPE_ANNOTATION_END",
          "TYPE_ANNOTATION_ENDED", "IN_PROPERTY", "MAYBE_IN_PROPERTY",
          "BARE_PROPERTY_NAME", "NEWLINES_ARE_WHITESPACE", "END_OF_NODE",
          "END_OF_NODE_OR_CHILD_BLOCK", "WHITESPACE_REQUIRED",
          "CONTEXTUALLY_ILLEGAL_WHITESPACE"}

WhitespaceBannedV1 == {"TYPE_ANNOTATION_START", "TYPE_ANNOTATION_END",
                       "TYPE_ANNOTATION_ENDED", "IN_PROPERTY"}
NodeCannotEndHere == WhitespaceBannedV1 \cup {"MAYBE_IN_PROPERTY"}

VARIABLES
    mode,                    \* OUTSIDE_NODE or IN_NODE
    flags,                   \* the flag bits of the state
    depth,                   \* nodes and children blocks now open
    slashdash_depth,         \* depth of what /- removes, -1 when inactive
    child_block_at_depth,    \* depth of the node whose block just ended, or -1
    version,                 \* the version bits of opt: v1, v2 or detect
    waiting_type_annotation, \* a type annotation is waiting for its owner
    waiting_prop_name,       \* a string is waiting to become key or argument
    next_token,              \* the token to process again, or NoToken
    event,                   \* what this step made of its token
    last,                    \* type of the last token read, or "EOF"
    lexedAs                  \* character set that token was read under

place == <<depth, slashdash_depth, child_block_at_depth>>
waiting == <<waiting_type_annotation, waiting_prop_name>>
lexer == <<next_token, last, lexedAs>>
parserVars == <<mode, flags, place, version, waiting, event, lexer>>

\* `slashdashed` events are those that _apply_slashdash turns into comments.
Event(kind, slashdashed, annotated) ==
    [kind |-> kind, slashdashed |-> slashdashed, annotated |-> annotated]

NoEvent == Event("NONE", FALSE, FALSE)
ParseError == Event("PARSE_ERROR", FALSE, FALSE)
EndOfDocument == Event("EOF", FALSE, FALSE)
EventKinds == {"NONE", "START_NODE", "END_NODE", "ARGUMENT", "PROPERTY",
               "COMMENT", "EOF", "PARSE_ERROR"}

\* Callers stop at EOF and at PARSE_ERROR: nothing is read after either.
Finished == event.kind \in {"EOF", "PARSE_ERROR"}

\* Mutant of CharacterSet: asks whether v1 is allowed before it asks for v2.
CharacterSetV1First(v) == IF v = "v2" THEN "V2" ELSE "V1"

CharacterSet(v) == IF v = "v1" THEN "V1" ELSE "V2"

TypeOK ==
    /\ mode \in {"OUTSIDE_NODE", "IN_NODE"}
    /\ flags \subseteq Flags
    /\ depth \in 0..(2 * MaxBlocks + 1)
    /\ slashdash_depth \in -1..(2 * MaxBlocks + 2)
    /\ child_block_at_depth \in -1..(2 * MaxBlocks)
    /\ version \in {"v1", "v2", "detect"}
    /\ waiting_type_annotation \in BOOLEAN
    /\ waiting_prop_name \in BOOLEAN
    /\ next_token \in Tokens \cup {NoToken, EndOfInput}
    /\ event \in [kind : EventKinds, slashdashed : BOOLEAN, annotated : BOOLEAN]
    /\ last \in PunctuationTypes \cup ValueTypes \cup {"NONE", "EOF"}
    /\ lexedAs \in {"V1", "V2"}

Init ==
    /\ mode = "OUTSIDE_NODE"
    /\ flags = {}
    /\ depth = 0
    /\ slashdash_depth = -1
    /\ child_block_at_depth = -1
    /\ version \in Versions
    /\ waiting_type_annotation = FALSE
    /\ waiting_prop_name = FALSE
    /\ next_token = NoToken
    /\ event = NoEvent
    /\ last = "NONE"
    /\ lexedAs = CharacterSet(version)

-----------------------------------------------------------------------------
(***************************************************************************)
(* The tokenizer's side.                                                   *)
(***************************************************************************)

\* A run of whitespace is one token, a // comment extends to the end of its
\* line, and a word only ends before something that can end a word.
CanFollow(prev, type) ==
    /\ prev # "EOF"
    /\ prev = "WHITESPACE" => type # "WHITESPACE"
    /\ prev = "SINGLE_LINE_COMMENT" => type = "NEWLINE"
    /\ prev = "WORD" => type \in {"WHITESPACE", "NEWLINE", "SEMICOLON", "END_TYPE",
                                  "END_CHILDREN", "SLASHDASH", "MULTI_LINE_COMMENT",
                                  "SINGLE_LINE_COMMENT", "LINE_CONTINUATION", "EQUALS"}

\* < > and , are not word characters in the v1 character set.
InCharacterSet(tok) == tok.type = "WORD" /\ tok.class = "onlyV2" => version # "v1"

WithinBounds(tok) == tok.type = "START_CHILDREN" => depth < 2 * MaxBlocks

\* The token to handle next: the one put back, else any the document may hold.
Available(tok) ==
    /\ ~Finished
    /\ IF next_token # NoToken
       THEN tok = next_token
       ELSE /\ CanFollow(last, tok.type)
            /\ InCharacterSet(tok)
            /\ WithinBounds(tok)

Advance(tok) ==
    IF next_token # NoToken
    THEN UNCHANGED <<last, lexedAs>>
    ELSE /\ last' = IF tok = EndOfInput THEN "EOF" ELSE tok.type
         /\ lexedAs' = CharacterSet(version)

Consume(tok) == next_token' = NoToken /\ Advance(tok)
PutBack(tok) == next_token' = tok /\ Advance(tok)

-----------------------------------------------------------------------------
(***************************************************************************)
(* Shared parts of the handlers.                                           *)
(***************************************************************************)

\* A failed parser is not used again, so only its event is of interest.
Fail(tok) ==
    /\ event' = ParseError
    /\ Consume(tok)
    /\ UNCHANGED <<mode, flags, place, version, waiting>>

\* _parse_value: what a value is for a parser reading version v ...
V1Reading(class) ==
    CASE class \in {"either", "onlyV1", "looseV1", "keywordV2"} -> "string"
      [] class \in {"number", "keywordV1"} -> "other"
      [] OTHER -> "rejected"
V2Reading(class) ==
    CASE class \in {"either", "onlyV2", "looseV2"} -> "string"
      [] class \in {"number", "keywordV2"} -> "other"
      [] OTHER -> "rejected"

\* Mutant of Reading: where both versions read a value, v1 is preferred.
ReadingV1First(class, v) ==
    CASE v = "v1" -> V1Reading(class)
      [] v = "v2" -> V2Reading(class)
      [] OTHER -> IF V1Reading(class) # "rejected" THEN V1Reading(class)
                                                   ELSE V2Reading(class)

Reading(class, v) ==
    CASE v = "v1" -> V1Reading(class)
      [] v = "v2" -> V2Reading(class)
      [] OTHER -> IF V2Reading(class) # "rejected" THEN V2Reading(class)
                                                   ELSE V1Reading(class)

\* Mutant of VersionAfter: null, true and false do not settle the version.
VersionAfterString(class, v) ==
    CASE v = "detect" /\ class = "onlyV1" -> "v1"
      [] v = "detect" /\ class \in {"onlyV2", "keywordV2"} -> "v2"
      [] OTHER -> v

\* ... and the version it reads from then on.
VersionAfter(class, v) ==
    CASE v = "detect" /\ class \in {"onlyV1", "keywordV1"} -> "v1"
      [] v = "detect" /\ class \in {"onlyV2", "keywordV2"} -> "v2"
      [] OTHER -> v

\* Mutant of SlashdashEndingAt: a slashdash ends one level too deep.
SlashdashEndingInside(newDepth) ==
    IF slashdash_depth = newDepth THEN -1 ELSE slashdash_depth

\* A slashdash ends with what it hides, when depth comes back to where it stood.
SlashdashEndingAt(newDepth) ==
    IF slashdash_depth = newDepth + 1 THEN -1 ELSE slashdash_depth

\* Mutant of ApplySlashdash: whether to hide the event is asked after the reset.
ApplySlashdashLate(kind, annotated, newDepth) ==
    /\ slashdash_depth' = SlashdashEndingAt(newDepth)
    /\ event' = Event(kind, SlashdashEndingAt(newDepth) >= 0, annotated)

\* _apply_slashdash, called with the depth the event leaves the parser at.
ApplySlashdash(kind, annotated, newDepth) ==
    /\ slashdash_depth' = SlashdashEndingAt(newDepth)
    /\ event' = Event(kind, slashdash_depth >= 0, annotated)

\* Whitespace, comments and line continuations where v1 allows none.
NeedsV2Spacing == flags \cap WhitespaceBannedV1 # {}
SpacingAllowed == NeedsV2Spacing => version # "v1"
AcceptSpacing(before) ==
    /\ version' = IF NeedsV2Spacing THEN "v2" ELSE version
    /\ flags' = (before \ {"WHITESPACE_REQUIRED"}) \cup
                (IF ~NeedsV2Spacing /\ "MAYBE_IN_PROPERTY" \in flags
                 THEN {"CONTEXTUALLY_ILLEGAL_WHITESPACE"} ELSE {})

-----------------------------------------------------------------------------
(***************************************************************************)
(* kdl_parser_next_event: spacing, comments, slashdash, end of input.      *)
(***************************************************************************)
IsSpace(tok) ==
    \/ tok.type = "WHITESPACE"
    \/ tok.type = "NEWLINE" /\ "NEWLINES_ARE_WHITESPACE" \in flags
IsComment(tok) == tok.type \in {"MULTI_LINE_COMMENT", "SINGLE_LINE_COMMENT"}

\* A /- after a possible property key goes on to the handler of that key.
IsSlashdash(tok) == tok.type = "SLASHDASH" /\ "MAYBE_IN_PROPERTY" \notin flags

Dispatched(tok) == ~IsSpace(tok) /\ ~IsComment(tok) /\ ~IsSlashdash(tok)
live == flags \ {"NEWLINES_ARE_WHITESPACE"}    \* the flags a handler sees

Spacing(tok) ==
    /\ IsSpace(tok) \/ IsComment(tok)
    /\ SpacingAllowed
    /\ AcceptSpacing(flags)
    /\ event' = IF IsComment(tok) THEN Event("COMMENT", FALSE, FALSE) ELSE NoEvent
    /\ Consume(tok)
    /\ UNCHANGED <<mode, place, waiting>>

\* Mutant of HiddenFrom: an inner slashdash takes over from the one that is active.
HiddenFromInnermost == depth + 1

\* A slashdash inside what another one hides changes nothing.
HiddenFrom == IF slashdash_depth < 0 THEN depth + 1 ELSE slashdash_depth

Slashdash(tok) ==
    /\ IsSlashdash(tok)
    /\ flags \cap (NodeCannotEndHere \cup {"WHITESPACE_REQUIRED"}) = {}
    /\ slashdash_depth' = HiddenFrom
    /\ flags' = flags \cup {"NEWLINES_ARE_WHITESPACE"}
    /\ event' = NoEvent
    /\ Consume(tok)
    /\ UNCHANGED <<mode, depth, child_block_at_depth, version, waiting>>

RejectBeforeDispatch(tok) ==
    /\ \/ (IsSpace(tok) \/ IsComment(tok)) /\ ~SpacingAllowed
       \/ /\ IsSlashdash(tok)
          /\ flags \cap (NodeCannotEndHere \cup {"WHITESPACE_REQUIRED"}) # {}
    /\ Fail(tok)

\* KDL_TOKENIZER_ERROR.
TokenizerError ==
    /\ ~Finished /\ next_token = NoToken /\ last # "EOF"
    /\ Fail(NoToken)

\* Mutant of Incomplete: unclosed children blocks go unnoticed.
IncompleteUnlessNested == slashdash_depth > 0 \/ flags # {}

\* The data may not end here.
Incomplete == depth > 0 \/ slashdash_depth > 0 \/ flags # {}

\* KDL_TOKENIZER_EOF outside any node.
EofOutsideNode ==
    /\ ~Finished /\ next_token = NoToken /\ mode = "OUTSIDE_NODE"
    /\ last' = "EOF"
    /\ event' = IF Incomplete THEN ParseError ELSE EndOfDocument
    /\ UNCHANGED <<mode, flags, place, version, waiting, next_token, lexedAs>>

-----------------------------------------------------------------------------
(***************************************************************************)
(* Type annotations, read alike by _next_node and _next_event_in_node.     *)
(***************************************************************************)

\* In a node, these tests come first (parser.c, top of _next_event_in_node).
BeforeAnnotation(tok) ==
    /\ mode = "IN_NODE"
    /\ \/ live \cap {"LINE_CONT", "MAYBE_IN_PROPERTY"} # {}
       \/ tok.type = "LINE_CONTINUATION"

InAnnotation == live \cap {"TYPE_ANNOTATION_START", "TYPE_ANNOTATION_END"} # {}

AnnotationName(tok) ==
    /\ ~BeforeAnnotation(tok)
    /\ "TYPE_ANNOTATION_START" \in live
    /\ tok.type \in ValueTypes
    /\ Reading(tok.class, version) = "string"
    /\ version' = VersionAfter(tok.class, version)
    /\ flags' = (live \ {"TYPE_ANNOTATION_START"}) \cup {"TYPE_ANNOTATION_END"}
    /\ waiting_type_annotation' = TRUE
    /\ event' = NoEvent
    /\ Consume(tok)
    /\ UNCHANGED <<mode, place, waiting_prop_name>>

AnnotationClose(tok) ==
    /\ ~BeforeAnnotation(tok)
    /\ InAnnotation /\ "TYPE_ANNOTATION_START" \notin live
    /\ tok.type = "END_TYPE"
    /\ flags' = (live \ {"TYPE_ANNOTATION_END"}) \cup {"TYPE_ANNOTATION_ENDED"}
    /\ event' = NoEvent
    /\ Consume(tok)
    /\ UNCHANGED <<mode, place, version, waiting>>

RejectInAnnotation(tok) ==
    /\ ~BeforeAnnotation(tok)
    /\ InAnnotation
    /\ IF "TYPE_ANNOTATION_START" \in live
       THEN tok.type \in ValueTypes => Reading(tok.class, version) # "string"
       ELSE tok.type # "END_TYPE"
    /\ Fail(tok)

\* The test for a second annotation looks at the event under construction,
\* which never holds one here: any "(" is accepted.
AnnotationOpen(tok) ==
    /\ tok.type = "START_TYPE"
    /\ flags' = live \cup {"TYPE_ANNOTATION_START"}
    /\ event' = NoEvent
    /\ Consume(tok)
    /\ UNCHANGED <<mode, place, version, waiting>>

-----------------------------------------------------------------------------
(***************************************************************************)
(* _next_node, past the annotation.                                        *)
(***************************************************************************)
BlankLine(tok) ==
    /\ tok.type \in {"NEWLINE", "SEMICOLON"}
    /\ live \cap NodeCannotEndHere = {}
    /\ flags' = live \ {"WHITESPACE_REQUIRED"}
    /\ event' = NoEvent
    /\ Consume(tok)
    /\ UNCHANGED <<mode, place, version, waiting>>

StartNode(tok) ==
    /\ tok.type \in ValueTypes
    /\ Reading(tok.class, version) = "string"
    /\ version' = VersionAfter(tok.class, version)
    /\ mode' = "IN_NODE"
    /\ flags' = {"WHITESPACE_REQUIRED"}
    /\ depth' = depth + 1
    /\ waiting_type_annotation' = FALSE
    /\ ApplySlashdash("START_NODE", waiting_type_annotation, depth + 1)
    /\ Consume(tok)
    /\ UNCHANGED <<child_block_at_depth, waiting_prop_name>>

\* Mutant of ChildrenOpen: a } is taken to have its {.
ChildrenAssumedOpen == TRUE

ChildrenOpen == depth > 0

\* Mutant of BlockEndedAt: that a block has been kept is not noted.
BlockNotNoted == child_block_at_depth

\* A block that is kept is noted with the depth of the node it belongs to.
BlockEndedAt == IF slashdash_depth < 0 THEN depth - 1 ELSE child_block_at_depth

EndChildren(tok) ==
    /\ tok.type = "END_CHILDREN"
    /\ ChildrenOpen
    /\ mode' = "IN_NODE"
    /\ depth' = depth - 1
    /\ flags' = IF slashdash_depth < 0 \/ child_block_at_depth = depth - 1
                THEN {"END_OF_NODE"} ELSE {"END_OF_NODE_OR_CHILD_BLOCK"}
    /\ child_block_at_depth' = BlockEndedAt
    /\ slashdash_depth' = SlashdashEndingAt(depth - 1)
    /\ event' = NoEvent
    /\ Consume(tok)
    /\ UNCHANGED <<version, waiting>>

LineContinuationOutside(tok) ==
    /\ tok.type = "LINE_CONTINUATION"
    /\ version # "v1"
    /\ version' = "v2"
    /\ flags' = live
    /\ event' = NoEvent
    /\ Consume(tok)
    /\ UNCHANGED <<mode, place, waiting>>

RejectOutside(tok) ==
    /\ \/ /\ tok.type \in {"NEWLINE", "SEMICOLON"}
          /\ live \cap NodeCannotEndHere # {}
       \/ tok.type \in ValueTypes /\ Reading(tok.class, version) # "string"
       \/ tok.type = "END_CHILDREN" /\ ~ChildrenOpen
       \/ tok.type = "LINE_CONTINUATION" /\ version = "v1"
       \/ tok.type \in {"EQUALS", "END_TYPE", "START_CHILDREN"}
    /\ Fail(tok)

NextNode(tok) ==
    /\ mode = "OUTSIDE_NODE"
    /\ ~InAnnotation
    /\ \/ BlankLine(tok)
       \/ AnnotationOpen(tok)
       \/ StartNode(tok)
       \/ EndChildren(tok)
       \/ LineContinuationOutside(tok)
       \/ RejectOutside(tok)

-----------------------------------------------------------------------------
(***************************************************************************)
(* _next_event_in_node: line continuations and possible property keys.     *)
(***************************************************************************)
LineContinuationEnd(tok) ==
    /\ "LINE_CONT" \in live
    /\ tok.type = "NEWLINE"
    /\ flags' = live \ {"LINE_CONT"}
    /\ event' = NoEvent
    /\ Consume(tok)
    /\ UNCHANGED <<mode, place, version, waiting>>

LineContinuation(tok) ==
    /\ "LINE_CONT" \notin live
    /\ tok.type = "LINE_CONTINUATION"
    /\ SpacingAllowed
    /\ AcceptSpacing(live \cup {"LINE_CONT"})
    /\ event' = NoEvent
    /\ Consume(tok)
    /\ UNCHANGED <<mode, place, waiting>>

RejectLineContinuation(tok) ==
    /\ \/ "LINE_CONT" \in live /\ tok.type # "NEWLINE"
       \/ "LINE_CONT" \notin live /\ tok.type = "LINE_CONTINUATION" /\ ~SpacingAllowed
    /\ Fail(tok)

\* Mutant of KeySpacingAllowed: v1 parsers accept space before the = sign.
KeySpacingIgnored == TRUE

KeySpacingAllowed == "CONTEXTUALLY_ILLEGAL_WHITESPACE" \in live => version # "v1"

PropertyKey(tok) ==
    /\ tok.type = "EQUALS"
    /\ KeySpacingAllowed
    /\ version' = IF "CONTEXTUALLY_ILLEGAL_WHITESPACE" \in live THEN "v2" ELSE version
    /\ flags' = (live \ {"MAYBE_IN_PROPERTY", "CONTEXTUALLY_ILLEGAL_WHITESPACE"})
                \cup {"IN_PROPERTY"}
    /\ event' = NoEvent
    /\ Consume(tok)
    /\ UNCHANGED <<mode, place, waiting>>

\* Mutant of VersionAfterArgument: a bare word as an argument settles nothing.
VersionUnsettled == version

\* Bare words are no arguments in v1.
VersionAfterArgument == IF "BARE_PROPERTY_NAME" \in live THEN "v2" ELSE version

\* No "=" follows: the string was an argument, and tok is handled again.
PendingArgument(tok) ==
    /\ tok.type # "EQUALS"
    /\ "BARE_PROPERTY_NAME" \in live => version # "v1"
    /\ version' = VersionAfterArgument
    /\ waiting_prop_name' = FALSE
    /\ ApplySlashdash("ARGUMENT", FALSE, depth)
    /\ flags' = IF "CONTEXTUALLY_ILLEGAL_WHITESPACE" \in live
                THEN {} ELSE {"WHITESPACE_REQUIRED"}
    /\ PutBack(tok)
    /\ UNCHANGED <<mode, depth, child_block_at_depth, waiting_type_annotation>>

RejectPending(tok) ==
    /\ version = "v1"
    /\ IF tok.type = "EQUALS" THEN ~KeySpacingAllowed ELSE "BARE_PROPERTY_NAME" \in live
    /\ Fail(tok)

-----------------------------------------------------------------------------
(***************************************************************************)
(* _next_event_in_node: end of node, children, arguments and properties.   *)
(***************************************************************************)
EndsNode(tok) == tok.type \in {"END_CHILDREN", "NEWLINE", "SEMICOLON"}

EndNode(tok) ==
    /\ EndsNode(tok)
    /\ live \cap NodeCannotEndHere = {}
    /\ mode' = "OUTSIDE_NODE"
    /\ flags' = {}
    /\ depth' = depth - 1
    /\ child_block_at_depth' = IF child_block_at_depth > depth - 1
                               THEN -1 ELSE child_block_at_depth
    /\ ApplySlashdash("END_NODE", FALSE, depth - 1)
    /\ IF tok.type = "END_CHILDREN" THEN PutBack(tok) ELSE Consume(tok)
    /\ UNCHANGED <<version, waiting>>

\* A second children block needs a slashdash once one has been kept.
BlockAllowed == "END_OF_NODE" \in live => slashdash_depth >= 0

\* Mutant of StartChildren: depth counts nodes only.
StartChildrenUncounted(tok) ==
    /\ tok.type = "START_CHILDREN"
    /\ BlockAllowed
    /\ mode' = "OUTSIDE_NODE"
    /\ flags' = {}
    /\ event' = NoEvent
    /\ Consume(tok)
    /\ UNCHANGED <<place, version, waiting>>

StartChildren(tok) ==
    /\ tok.type = "START_CHILDREN"
    /\ BlockAllowed
    /\ mode' = "OUTSIDE_NODE"
    /\ flags' = {}
    /\ depth' = depth + 1
    /\ event' = NoEvent
    /\ Consume(tok)
    /\ UNCHANGED <<slashdash_depth, child_block_at_depth, version, waiting>>

EntryAllowed ==
    live \cap {"END_OF_NODE", "END_OF_NODE_OR_CHILD_BLOCK", "WHITESPACE_REQUIRED"} = {}

MayBeKey(tok) ==
    /\ ~waiting_type_annotation
    /\ "IN_PROPERTY" \notin live
    /\ Reading(tok.class, version) = "string"

PossibleKey(tok) ==
    /\ tok.type \in ValueTypes
    /\ EntryAllowed /\ MayBeKey(tok)
    /\ version' = VersionAfter(tok.class, version)
    /\ flags' = live \cup {"MAYBE_IN_PROPERTY"} \cup
                (IF tok.type = "WORD" THEN {"BARE_PROPERTY_NAME"} ELSE {})
    /\ waiting_prop_name' = TRUE
    /\ event' = NoEvent
    /\ Consume(tok)
    /\ UNCHANGED <<mode, place, waiting_type_annotation>>

\* An identifier is no value in v1: reading one as a value commits to v2.
BareValue(tok) == tok.type = "WORD" /\ Reading(tok.class, version) = "string"

Entry(tok) ==
    /\ tok.type \in ValueTypes
    /\ EntryAllowed /\ ~MayBeKey(tok)
    /\ Reading(tok.class, version) # "rejected"
    /\ BareValue(tok) => VersionAfter(tok.class, version) # "v1"
    /\ version' = IF BareValue(tok) THEN "v2" ELSE VersionAfter(tok.class, version)
    /\ waiting_type_annotation' = FALSE
    /\ IF "IN_PROPERTY" \in live
       THEN /\ waiting_prop_name' = FALSE
            /\ ApplySlashdash("PROPERTY", waiting_type_annotation, depth)
       ELSE /\ waiting_prop_name' = waiting_prop_name
            /\ ApplySlashdash("ARGUMENT", waiting_type_annotation, depth)
    /\ flags' = {"WHITESPACE_REQUIRED"}
    /\ Consume(tok)
    /\ UNCHANGED <<mode, depth, child_block_at_depth>>

RejectEntry(tok) ==
    /\ \/ EndsNode(tok) /\ live \cap NodeCannotEndHere # {}
       \/ tok.type = "START_CHILDREN" /\ ~BlockAllowed
       \/ tok.type \in ValueTypes \cup {"START_TYPE"} /\ ~EntryAllowed
       \/ /\ tok.type \in ValueTypes
          /\ \/ Reading(tok.class, version) = "rejected"
             \/ /\ ~MayBeKey(tok) /\ BareValue(tok)
                /\ VersionAfter(tok.class, version) = "v1"
       \/ tok.type \in {"EQUALS", "END_TYPE"}
    /\ Fail(tok)

NextEventInNode(tok) ==
    /\ mode = "IN_NODE"
    /\ \/ LineContinuationEnd(tok)
       \/ LineContinuation(tok)
       \/ RejectLineContinuation(tok)
       \/ /\ "LINE_CONT" \notin live /\ tok.type # "LINE_CONTINUATION"
          /\ \/ /\ "MAYBE_IN_PROPERTY" \in live
                /\ PropertyKey(tok) \/ PendingArgument(tok) \/ RejectPending(tok)
             \/ /\ "MAYBE_IN_PROPERTY" \notin live
                /\ ~InAnnotation
                /\ \/ EndNode(tok)
                   \/ StartChildren(tok)
                   \/ AnnotationOpen(tok) /\ EntryAllowed
                   \/ PossibleKey(tok)
                   \/ Entry(tok)
                   \/ RejectEntry(tok)

-----------------------------------------------------------------------------
Dispatch(tok) ==
    \/ AnnotationName(tok)
    \/ AnnotationClose(tok)
    \/ RejectInAnnotation(tok)
    \/ NextNode(tok)
    \/ NextEventInNode(tok)

Handle(tok) ==
    /\ Available(tok)
    /\ \/ Spacing(tok)
       \/ Slashdash(tok)
       \/ RejectBeforeDispatch(tok)
       \/ Dispatched(tok) /\ Dispatch(tok)

\* Mutant of EofInNode: that newline may still count as whitespace.
EofInNodeAfterSlashdash ==
    /\ ~Finished /\ next_token = NoToken /\ mode = "IN_NODE"
    /\ \/ Spacing(EndOfInput)
       \/ Dispatched(EndOfInput) /\ Dispatch(EndOfInput)

\* KDL_TOKENIZER_EOF inside a node: a newline ends the node first.
EofInNode ==
    /\ ~Finished /\ next_token = NoToken /\ mode = "IN_NODE"
    /\ Dispatch(EndOfInput)

Next ==
    \/ \E tok \in Vocabulary : Handle(tok)
    \/ EofInNode
    \/ next_token = EndOfInput /\ Handle(EndOfInput)
    \/ EofOutsideNode
    \/ TokenizerError

Spec == Init /\ [][Next]_parserVars

-----------------------------------------------------------------------------
\* The parser is in a node exactly at odd depth: `depth` counts nodes and
\* children blocks alike, and the two alternate.
ModeFollowsDepth == (mode = "IN_NODE") <=> (depth % 2 = 1)

\* A token that was put back is handled under the character set it was read with:
\* no commitment to a version in between makes it stale.
PutBackTokenIsCurrent ==
    next_token # NoToken => lexedAs = CharacterSet(version)
==============================================================================
