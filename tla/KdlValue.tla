------------------------------ MODULE KdlValue ------------------------------
(***************************************************************************)
(* _parse_value of parser.c: what a token stands for as a value, under the *)
(* versions that are still allowed, and which of them are left afterwards. *)
(* KdlParser takes the outcome of this as the class of a token.            *)
(***************************************************************************)
EXTENDS KdlNumber

KString(text) == [ok |-> TRUE, type |-> "STRING", string |-> text]
Boolean(b) == [ok |-> TRUE, type |-> "BOOLEAN", boolean |-> b]
NullValue == [ok |-> TRUE, type |-> "NULL"]
Special(name) == [ok |-> TRUE, type |-> "FLOATING_POINT", special |-> name]

\* A token that was read; versions are those it leaves allowed.
Reading(versions, value) == [versions |-> versions, value |-> value]
NoReading(versions) == Reading(versions, NoValue)

\* A string that was or was not made sense of.
StringOr(string) == IF string.ok THEN KString(string.text) ELSE NoValue

\* What only the version v has.
OnlyIn(v, allowed, value) ==
    IF v \in allowed THEN Reading({v}, value) ELSE NoReading(allowed)

-----------------------------------------------------------------------------
\* Mutant of VersionsOfString: a string that only one version allows settles nothing.
VersionsOfStringUnsettled(allowed, v1, v2) == allowed

VersionsOfString(allowed, v1, v2) ==
    CASE v2.ok /\ ~v1.ok -> {"V2"} [] v1.ok /\ ~v2.ok -> {"V1"} [] OTHER -> allowed

\* Of two that can be made sense of, version 2's is kept.
QuotedString(allowed, text) ==
    LET v1 == IF "V1" \in allowed THEN UnescapeV1(text) ELSE Null
        v2 == IF "V2" \in allowed THEN UnescapeV2SingleLine(text) ELSE Null
    IN Reading(VersionsOfString(allowed, v1, v2), StringOr(IF v2.ok THEN v2 ELSE v1))

RawStringV2(text) == IF ContainsNewline(text) THEN NoValue ELSE KString(text)

\* Does not settle the version.
MultilineString(allowed, text) ==
    Reading(allowed, IF "V2" \in allowed THEN StringOr(UnescapeV2MultiLine(text)) ELSE NoValue)

-----------------------------------------------------------------------------
KeywordsV1 ==
    LET null == <<"n", "u", "l", "l">>
        true == <<"t", "r", "u", "e">>
        false == <<"f", "a", "l", "s", "e">>
    IN [w \in {null, true, false} |-> IF w = null THEN NullValue ELSE Boolean(w = true)]

KeywordsV2 ==
    LET null == <<"#", "n", "u", "l", "l">>
        true == <<"#", "t", "r", "u", "e">>
        false == <<"#", "f", "a", "l", "s", "e">>
        inf == <<"#", "i", "n", "f">>
        minus_inf == <<"#", "-", "i", "n", "f">>
        nan == <<"#", "n", "a", "n">>
    IN [w \in {null, true, false, inf, minus_inf, nan} |->
            CASE w = null -> NullValue
              [] w \in {true, false} -> Boolean(w = true)
              [] w = inf -> Special("inf")
              [] w = minus_inf -> Special("-inf")
              [] OTHER -> Special("nan")]

\* _identifier_is_valid_v1
IdentifierIsValidV1(s) ==
    /\ s # <<>> /\ IsIdentifierStart("V1", s[1])
    /\ \A i \in DOMAIN s : IsIdentifierChar("V1", s[i])

\* _identifier_is_valid_v2
IdentifierIsValidV2(s) ==
    /\ s \notin DOMAIN KeywordsV1 \cup {Tail(w) : w \in DOMAIN KeywordsV2}
    /\ s # <<>> /\ IsIdentifierStart("V2", s[1])
    /\ \A i \in DOMAIN s : IsIdentifierChar("V2", s[i])

Identifier(allowed, text) ==
    LET valid == {v \in allowed : IF v = "V1" THEN IdentifierIsValidV1(text)
                                              ELSE IdentifierIsValidV2(text)}
    IN IF valid = {} THEN NoReading(allowed) ELSE Reading(valid, KString(text))

\* A digit comes first, or second after a sign.
IsNumeric(text) == Unsigned(text) # <<>> /\ Unsigned(text)[1] \in Digits

\* Almost a number, as .5 is: no identifier once only version 2 is left.
IsAlmostNumeric(text) ==
    LET u == Unsigned(text) IN Len(u) > 1 /\ u[1] = "." /\ u[2] \in Digits

Word(allowed, text) ==
    CASE text \in DOMAIN KeywordsV1 -> OnlyIn("V1", allowed, KeywordsV1[text])
      [] text \in DOMAIN KeywordsV2 /\ "V2" \in allowed -> Reading({"V2"}, KeywordsV2[text])
      [] IsNumeric(text) -> Reading(allowed, ParseNumber(text))
      [] allowed = {"V2"} /\ IsAlmostNumeric(text) -> NoReading(allowed)
      [] OTHER -> Identifier(allowed, text)

ParseValue(allowed, type, text) ==
    CASE type = "RAW_STRING_V1" -> OnlyIn("V1", allowed, KString(text))
      [] type = "RAW_STRING_V2" -> OnlyIn("V2", allowed, RawStringV2(text))
      [] type = "RAW_MULTILINE_STRING" ->
            OnlyIn("V2", allowed, StringOr(DedentMultilineString(text)))
      [] type = "STRING" -> QuotedString(allowed, text)
      [] type = "MULTILINE_STRING" -> MultilineString(allowed, text)
      [] type = "WORD" -> Word(allowed, text)
      [] OTHER -> NoReading(allowed)
=============================================================================
