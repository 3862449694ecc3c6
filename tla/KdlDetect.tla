------------------------------ MODULE KdlDetect ------------------------------
(***************************************************************************)
(* Three parsers read the same document: one created with                  *)
(* KDL_DETECT_VERSION (the variables of KdlParser), one that reads v1 only *)
(* and one that reads v2 only (the same parser, instantiated twice).  The  *)
(* last two are also what the bindings run, one after the other, when they *)
(* are asked for any version.                                              *)
(***************************************************************************)
EXTENDS KdlParser

\* The parser that detects is created with KDL_DETECT_VERSION.
ASSUME DetectAssumption == Versions = {"detect"}

VARIABLES
    mode1, flags1, depth1, slashdash_depth1, child_block_at_depth1, version1,
    waiting_type_annotation1, waiting_prop_name1, next_token1, event1, last1, lexedAs1,
    mode2, flags2, depth2, slashdash_depth2, child_block_at_depth2, version2,
    waiting_type_annotation2, waiting_prop_name2, next_token2, event2, last2, lexedAs2,
    loose       \* auxiliary: a value has been read that only one version allows but that
                \* does not make the detecting parser settle on it

V1 == INSTANCE KdlParser WITH
    Versions <- {"v1"}, mode <- mode1, flags <- flags1, depth <- depth1,
    slashdash_depth <- slashdash_depth1, child_block_at_depth <- child_block_at_depth1,
    version <- version1, waiting_type_annotation <- waiting_type_annotation1,
    waiting_prop_name <- waiting_prop_name1, next_token <- next_token1,
    event <- event1, last <- last1, lexedAs <- lexedAs1

V2 == INSTANCE KdlParser WITH
    Versions <- {"v2"}, mode <- mode2, flags <- flags2, depth <- depth2,
    slashdash_depth <- slashdash_depth2, child_block_at_depth <- child_block_at_depth2,
    version <- version2, waiting_type_annotation <- waiting_type_annotation2,
    waiting_prop_name <- waiting_prop_name2, next_token <- next_token2,
    event <- event2, last <- last2, lexedAs <- lexedAs2

vars1 == <<mode1, flags1, depth1, slashdash_depth1, child_block_at_depth1, version1,
           waiting_type_annotation1, waiting_prop_name1, next_token1, event1, last1, lexedAs1>>
vars2 == <<mode2, flags2, depth2, slashdash_depth2, child_block_at_depth2, version2,
           waiting_type_annotation2, waiting_prop_name2, next_token2, event2, last2, lexedAs2>>
detectVars == <<parserVars, vars1, vars2, loose>>

DetectInit == Init /\ V1!Init /\ V2!Init /\ loose = FALSE

-----------------------------------------------------------------------------
\* Every parser that is still running takes the next token of the document.  What
\* is no word in the character set of the v1 parser is an error of its tokenizer.
Feed(tok) ==
    /\ Handle(tok)
    /\ IF V1!Finished THEN UNCHANGED vars1
       ELSE V1!Handle(tok) \/ (~V1!InCharacterSet(tok) /\ V1!TokenizerError)
    /\ IF V2!Finished THEN UNCHANGED vars2 ELSE V2!Handle(tok)

AllReadOn ==
    /\ next_token = NoToken
    /\ V1!Finished \/ next_token1 = NoToken
    /\ V2!Finished \/ next_token2 = NoToken

ReadToken ==
    /\ AllReadOn
    /\ \E tok \in Vocabulary :
           Feed(tok) /\ loose' = (loose \/ tok.class \in {"looseV1", "looseV2"})

ReadEnd ==
    /\ AllReadOn
    /\ EofInNode \/ EofOutsideNode
    /\ IF V1!Finished THEN UNCHANGED vars1
       ELSE V1!EofInNode \/ V1!EofOutsideNode
    /\ IF V2!Finished THEN UNCHANGED vars2
       ELSE V2!EofInNode \/ V2!EofOutsideNode
    /\ UNCHANGED loose

\* Parsers that put their token back handle it before anyone reads on.
HandleAgain ==
    /\ ~Finished /\ ~AllReadOn
    /\ IF next_token = NoToken THEN UNCHANGED parserVars ELSE Handle(next_token)
    /\ IF V1!Finished \/ next_token1 = NoToken THEN UNCHANGED vars1
       ELSE V1!Handle(next_token1)
    /\ IF V2!Finished \/ next_token2 = NoToken THEN UNCHANGED vars2
       ELSE V2!Handle(next_token2)
    /\ UNCHANGED loose

DetectNext ==
    \/ ReadToken
    \/ ReadEnd
    \/ HandleAgain
    \/ Finished /\ UNCHANGED detectVars

DetectSpec == DetectInit /\ [][DetectNext]_detectVars

-----------------------------------------------------------------------------
Rejects(e) == e.kind = "PARSE_ERROR"
Accepts(e) == e.kind = "EOF"

\* parse(text, KdlVersion::Any): read v2, and v1 when that throws a ParseError.
AnyVersionAccepts == Accepts(event2) \/ (Rejects(event2) /\ Accepts(event1))

\* doc/ckdl-api.rst of KDL_DETECT_VERSION: "This mode aims to produce entirely correct
\* output for all KDLv2 documents".  As long as the v2 parser has no objection, the
\* detecting parser is in the same state, gives the same events, and is not on v1.
FollowsV2 ==
    ~Rejects(event2) =>
        /\ <<mode, flags, place, waiting, next_token, event>> =
           <<mode2, flags2, V2!place, V2!waiting, next_token2, event2>>
        /\ version \in {"detect", "v2"}

\* Once it has settled on v1 it is the v1 parser: what it read before it made up
\* its mind was read as v1 reads it, if every value that only one version allows
\* made it settle.
FollowsV1OnceSettled ==
    ~loose /\ version = "v1" /\ ~Rejects(event) =>
        <<mode, flags, place, waiting, next_token, event>> =
        <<mode1, flags1, V1!place, V1!waiting, next_token1, event1>>

\* tests/kdlv2_test.c:367 (test_parser_hashtag_null_is_v2): a document that mixes the two
\* versions is an error.  What the detecting parser accepts as a whole, the
\* bindings' parse(..., Any) accepts too.  Multi-line strings, which do not settle the
\* version, are the exception (parser.c:783).
AcceptedInOneVersion == Accepts(event) => AnyVersionAccepts

\* The same for documents in which every value that only one version allows makes the
\* detecting parser settle.
AcceptedInOneVersionIfSettled == ~loose => AcceptedInOneVersion
==============================================================================
