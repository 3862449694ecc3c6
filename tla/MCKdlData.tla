----------------------------- MODULE MCKdlData -----------------------------
(* The data for TLC: what each kind of data is made of, and how much of it. *)
EXTENDS KdlData

AllSubjects == {"characters", "escapes", "lines", "pushes", "words", "whole", "based", "decimal",
                "properties", "events"}

\* A character or an escape, and what it stands for in each version.
Both(spelled, meant) == [spelled |-> spelled, swallows |-> FALSE, V1 |-> meant, V2 |-> meant]
OnlyV1(spelled, meant) == [spelled |-> spelled, swallows |-> FALSE, V1 |-> meant, V2 |-> Null]
OnlyV2(spelled, meant) == [spelled |-> spelled, swallows |-> FALSE, V1 |-> Null, V2 |-> meant]
Escaped(c) == <<"\\", c>>
Swallowing(spelled) == [OnlyV2(spelled, Owned(<<>>)) EXCEPT !.swallows = TRUE]
Numbered(digits) == <<"\\", "u", "{">> \o digits \o <<"}">>

Escapes == {
    Both(<<"n">>, Owned(<<"n">>)), Both(<<" ">>, Owned(<<" ">>)), OnlyV1(<<"LF">>, Owned(<<"LF">>)),
    Both(Escaped("n"), Owned(<<"LF">>)), Both(Escaped("\\"), Owned(<<"\\">>)),
    OnlyV1(Escaped("/"), Owned(<<"/">>)), OnlyV2(Escaped("s"), Owned(<<" ">>)),
    Both(Escaped("a"), Null),
    Swallowing(Escaped(" ")), Swallowing(<<"\\", "LF", "TAB">>),
    Both(Numbered(<<>>), Owned(<<"NUL">>)), Both(Numbered(<<"0", "4", "1">>), Owned(<<"A">>)),
    OnlyV1(Numbered(<<"d", "8", "0", "0">>), Owned(<<"U+55296">>)),
    Both(Numbered(<<"1", "0", "f", "f", "f", "f">>), Owned(<<"U+1114111">>)),
    Both(Numbered(<<"1", "1", "0", "0", "0", "0">>), Null),
    Both(<<"\\", "u", "4">>, Null) }

AllElements == [
    characters |-> {"n", "\\", "\"", "LF", "CR", "TAB", "FF", "BS", "VT", "NUL", "DEL", "NEL", "NBSP",
                    "other", "BOM", "BAD"},
    escapes |-> Escapes,
    lines |-> {"a", " ", "TAB", "LF"},
    pushes |-> [kind : {"CHARS"}, count : 0..5] \cup [kind : {"CODEPOINT"}, count : 1..4],
    words |-> {<<"n", "u", "l", "l">>, <<"i", "n", "f">>, <<"n", "a", "n">>, <<"#">>, <<"-">>,
               <<"+">>, <<".">>, <<"1">>, <<",">>},
    whole |-> {"9", "0", "_", "-", "+"},
    based |-> {"0", "x", "o", "b", "1", "f", "_", "-"},
    decimal |-> {"1", "0", ".", "e", "-", "_"},
    properties |-> [name : 1..3],
    events |-> {[kind |-> k, label |-> n] : k \in Kinds \ {"END_NODE"}, n \in {1, 2}}
               \cup {[kind |-> "END_NODE", label |-> 0]} ]

AllLengths == [characters |-> 3, escapes |-> 3, lines |-> 5, pushes |-> 4, words |-> 4, whole |-> 6,
               based |-> 5, decimal |-> 6, properties |-> 9, events |-> 7]
=============================================================================
