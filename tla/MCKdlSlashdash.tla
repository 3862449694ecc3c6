--------------------------- MODULE MCKdlSlashdash ---------------------------
(* Documents over one token of each kind that the slashdash rules tell apart. *)
EXTENDS KdlSlashdash

\* Type annotations and malformed values play no part in what /- removes.
StructuralTokens ==
    {Punctuation(t) : t \in PunctuationTypes \ {"START_TYPE", "END_TYPE",
                                                "SINGLE_LINE_COMMENT"}}
    \cup [type : {"WORD", "STRING"}, class : {"either"}]
    \cup [type : {"WORD"}, class : {"number"}]
==============================================================================
