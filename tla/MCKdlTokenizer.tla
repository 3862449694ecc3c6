--------------------------- MODULE MCKdlTokenizer ---------------------------
(***************************************************************************)
(* Short documents for TLC: every text up to a length over the bytes that  *)
(* one kind of token is about, and longer ones made of whole delimiters.   *)
(***************************************************************************)
EXTENDS KdlTokenizer, SequencesExt

Texts(bytes, length) == BoundedSeq(bytes, length)
Joined(pieces, length) == {FlattenSeq(s) : s \in BoundedSeq(pieces, length)}

\* Spaces, line ends and words, with characters of two and three bytes.
Plain == Texts({"a", " ", "CR", "LF", ";"}, 3)
         \cup Joined({<<"a">>, <<"C2">>, <<"85">>, <<"A9">>, <<"EF", "BB">>, <<"BF">>}, 3)
         \cup Joined({<<"EF", "BB", "BF">>, <<"VT">>, <<"NUL">>, <<",">>, <<"[">>}, 2)

\* All the rest that takes one character.
Signs == Texts({"{", "}", "(", ")", "=", "\\", "/", "-", "a"}, 2)

Comments == Texts({"/", "*", "LF"}, 5) \cup Joined({<<"/", "*">>, <<"*", "/">>, <<"/">>, <<"NUL">>}, 3)

Strings == Texts({"\"", "\\", "a"}, 5)
           \cup Texts({"\"", "#", "r"}, 5)
           \cup Joined({<<"\"", "\"", "\"">>, <<"#">>, <<"\"">>, <<"\\">>}, 4)

\* Bodies between the delimiters of raw strings.
RawStrings ==
    {open \o body \o close :
        open \in {<<"#", "\"", "\"", "\"">>, <<"#", "#", "\"">>, <<"r", "#", "\"">>},
        body \in Texts({"\"", "#"}, 2),
        close \in {<<"\"", "\"", "\"", "#">>, <<"\"", "#", "#">>}}

AllTexts == Plain \cup Signs \cup Comments \cup Strings \cup RawStrings
=============================================================================
