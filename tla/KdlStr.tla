------------------------------- MODULE KdlStr -------------------------------
(***************************************************************************)
(* Escapes in strings, and the indentation of multi-line strings (str.c).  *)
(* A string is a sequence of characters; "BAD" stands where its bytes are  *)
(* no UTF-8.                                                               *)
(***************************************************************************)
EXTENDS KdlCharacters, SequencesExt

CONSTANTS
    AccumulatorBits,    \* width of the number a \u{...} is read into; 32 in the code
    BufferIncrement     \* BUFFER_SIZE_INCREMENT of str.c, 1 or 1024 in the code

Largest == 1114111      \* 0x10ffff

\* Every code point fits.
ASSUME AccumulatorBitsAssumption == AccumulatorBits \in Nat /\ 2^AccumulatorBits > Largest
ASSUME BufferIncrementAssumption == BufferIncrement \in Nat \ {0}

\* A kdl_owned_string; data is NULL if it is not ok.
Null == [ok |-> FALSE, text |-> <<>>]
Owned(text) == [ok |-> TRUE, text |-> text]
Prefixed(c, string) == IF string.ok THEN Owned(<<c>> \o string.text) ELSE Null

\* kdl_escape_mode, as the set of its bits; 0x170 has them all.
EscapeModes ==
    SUBSET {"CONTROL", "NEWLINE", "TAB"} \cup {{"CONTROL", "NEWLINE", "TAB", "ASCII"}}

HexDigits ==
    <<"0", "1", "2", "3", "4", "5", "6", "7", "8", "9", "a", "b", "c", "d", "e", "f">>

HexValue == [d \in ToSet(HexDigits) |-> (CHOOSE i \in 1..16 : HexDigits[i] = d) - 1]

\* What a digit is worth at each place of a code point.
HexPlaces == <<1048576, 65536, 4096, 256, 16, 1>>

\* "%x", of a code point
Hex(n) ==
    LET first == CHOOSE i \in 1..6 : /\ i = 6 \/ n >= HexPlaces[i]
                                   /\ \A j \in 1..(i - 1) : n < HexPlaces[j]
    IN [k \in 1..(7 - first) |-> HexDigits[((n \div HexPlaces[first + k - 1]) % 16) + 1]]

\* Code points of the characters that are escaped, or written with a \u.
Code ==
    LET below == [NUL |-> 0, BS |-> 8, TAB |-> 9, LF |-> 10, VT |-> 11, FF |-> 12, CR |-> 13,
                  A |-> 65, a |-> 97]
        beyond == [DEL |-> 127, NEL |-> 133, NBSP |-> 160, other |-> 169, BOM |-> 65279]
    IN [c \in DOMAIN below \cup DOMAIN beyond |->
            IF c \in DOMAIN below THEN below[c] ELSE beyond[c]]

CharacterAt(n) ==
    IF \E c \in DOMAIN Code : Code[c] = n THEN CHOOSE c \in DOMAIN Code : Code[c] = n
                                          ELSE "U+" \o ToString(n)

Surrogates == 55296..57343      \* 0xD800..0xDFFF

-----------------------------------------------------------------------------
(***************************************************************************)
(* Write buffers, in which all strings are put together: how much memory   *)
(* there is and how much is in use.  Every allocation succeeds.            *)
(***************************************************************************)
NewWriteBuffer(size) == [buf_len |-> size, str_len |-> 0]

\* Mutant of WithRoomFor: the increment is taken to be enough.
WithRoomForIncrement(buf, count) ==
    IF buf.buf_len - buf.str_len < count
    THEN [buf EXCEPT !.buf_len = @ + BufferIncrement]
    ELSE buf

WithRoomFor(buf, count) ==
    IF buf.buf_len - buf.str_len < count
    THEN [buf EXCEPT !.buf_len = @ + Max({BufferIncrement, count})]
    ELSE buf

PushChars(buf, count) == [WithRoomFor(buf, count) EXCEPT !.str_len = @ + count]

\* Room is made for the longest character there is.
PushCodepoint(buf, width) == [WithRoomFor(buf, 4) EXCEPT !.str_len = @ + width]

-----------------------------------------------------------------------------
(***************************************************************************)
(* kdl_escape_v1, kdl_escape_v2                                            *)
(***************************************************************************)
Letter ==
    [c \in {"LF", "CR", "TAB", "BS", "FF", "\\", "\""} |->
        CASE c = "LF" -> "n" [] c = "CR" -> "r" [] c = "TAB" -> "t" [] c = "BS" -> "b"
          [] c = "FF" -> "f" [] OTHER -> c]

\* Mutant of ByLetter: quotes are left to the mode of control characters.
ByLetterIfControl(mode, c) ==
    \/ c = "\\"
    \/ "NEWLINE" \in mode /\ c \in {"LF", "CR", "FF"}
    \/ "TAB" \in mode /\ c = "TAB"
    \/ "CONTROL" \in mode /\ c \in {"BS", "\""}

ByLetter(mode, c) ==
    \/ c \in {"\\", "\""}
    \/ "NEWLINE" \in mode /\ c \in {"LF", "CR", "FF"}
    \/ "TAB" \in mode /\ c = "TAB"
    \/ "CONTROL" \in mode /\ c = "BS"

Beyond(mode, c) ==
    \/ "NEWLINE" \in mode /\ c = "NEL"
    \/ "ASCII" \in mode /\ c \in DOMAIN Code /\ Code[c] >= 127

ByNumberV1(mode, c) ==
    Beyond(mode, c) \/ ("CONTROL" \in mode /\ c \in {"NUL", "BS", "VT", "DEL"})

ByNumberV2(mode, c) ==
    Beyond(mode, c) \/ IsIllegal("V2", c) \/ ("CONTROL" \in mode /\ c = "VT")

Spelled(c, byLetter, byNumber) ==
    CASE byLetter -> <<"\\", Letter[c]>>
      [] ~byLetter /\ byNumber -> <<"\\", "u", "{">> \o Hex(Code[c]) \o <<"}">>
      [] OTHER -> <<c>>

EscapeV1(s, mode) ==
    IF Contains(s, "BAD") THEN Null
    ELSE Owned(FlattenSeq([i \in DOMAIN s |->
                    Spelled(s[i], ByLetter(mode, s[i]), ByNumberV1(mode, s[i]))]))

EscapeV2(s, mode) ==
    IF Contains(s, "BAD") THEN Null
    ELSE Owned(FlattenSeq([i \in DOMAIN s |->
                    Spelled(s[i], ByLetter(mode, s[i]), ByNumberV2(mode, s[i]))]))

\* kdl_escape_v
Escape(version, s, mode) == IF version = "V1" THEN EscapeV1(s, mode) ELSE EscapeV2(s, mode)

-----------------------------------------------------------------------------
(***************************************************************************)
(* kdl_unescape_v1, _kdl_resolve_escapes_v2                                *)
(***************************************************************************)
\* What a letter after a backslash stands for.
Meaning ==
    LET meant(c) == CASE c = "n" -> "LF" [] c = "r" -> "CR" [] c = "t" -> "TAB"
                      [] c = "b" -> "BS" [] c = "f" -> "FF" [] c = "s" -> " " [] OTHER -> c
        both == {"n", "r", "t", "b", "f", "\\", "\""}
    IN [V1 |-> [c \in both \cup {"/"} |-> meant(c)],
        V2 |-> [c \in both \cup {"s"} |-> meant(c)]]

Accumulated(digits) ==
    LET read[k \in 0..Len(digits)] ==
            IF k = 0 THEN 0 ELSE (read[k - 1] * 16 + HexValue[digits[k]]) % 2^AccumulatorBits
    IN read[Len(digits)]

\* Position of the first character from i on that is no hexadecimal digit.
AfterDigits(s, i) ==
    CHOOSE k \in i..(Len(s) + 1) :
        /\ \A j \in i..(k - 1) : s[j] \in DOMAIN HexValue
        /\ k = Len(s) + 1 \/ s[k] \notin DOMAIN HexValue

NoEscape == [ok |-> FALSE]
EscapeFor(c, next) == [ok |-> TRUE, c |-> c, next |-> next]

\* Mutant of InRange: the bound is left out.
InRangeUnbounded(version, n) == ~(version = "V2" /\ n \in Surrogates)

\* The code point a \u may stand for.
InRange(version, n) == n <= Largest /\ ~(version = "V2" /\ n \in Surrogates)

NumberEscapeAt(version, s, i) ==
    LET close == AfterDigits(s, i + 2)
        n == Accumulated(SubSeq(s, i + 2, close - 1))
    IN IF Len(s) < i + 2 \/ s[i + 1] # "{" THEN NoEscape
       ELSE IF close <= Len(s) /\ s[close] = "}" /\ InRange(version, n)
            THEN EscapeFor(CharacterAt(n), close + 1)
            ELSE NoEscape

\* The escape whose backslash stands before position i.
EscapeAt(version, s, i) ==
    CASE i > Len(s) -> NoEscape
      [] i <= Len(s) /\ s[i] \in DOMAIN Meaning[version] ->
            EscapeFor(Meaning[version][s[i]], i + 1)
      [] i <= Len(s) /\ s[i] = "u" -> NumberEscapeAt(version, s, i)
      [] OTHER -> NoEscape

Resolved(version, s) ==
    LET from[i \in 1..(Len(s) + 1)] ==
            IF i > Len(s) THEN Owned(<<>>)
            ELSE IF version = "V2" /\ (s[i] = "BAD" \/ IsIllegal("V2", s[i])) THEN Null
            ELSE IF s[i] # "\\" THEN Prefixed(s[i], from[i + 1])
            ELSE LET e == EscapeAt(version, s, i + 1)
                 IN IF e.ok THEN Prefixed(e.c, from[e.next]) ELSE Null
    IN from[1]

UnescapeV1(s) == Resolved("V1", s)
ResolveEscapesV2(s) == Resolved("V2", s)

-----------------------------------------------------------------------------
(***************************************************************************)
(* The rest of version 2.                                                  *)
(***************************************************************************)
\* _kdl_str_contains_newline
ContainsNewline(s) == \E i \in DOMAIN s : IsNewline(s[i]) /\ ~Contains(SubSeq(s, 1, i), "BAD")

IsSpacing(c) == IsWhitespace("V2", c) \/ IsNewline(c)

\* Position of the first character from i on that is no whitespace or newline.
AfterSpacing(s, i) ==
    CHOOSE k \in i..(Len(s) + 1) :
        /\ \A j \in i..(k - 1) : IsSpacing(s[j])
        /\ k = Len(s) + 1 \/ ~IsSpacing(s[k])

\* _kdl_remove_escaped_whitespace.  An escape of another kind stays, whole.
RemoveEscapedWhitespace(s) ==
    LET from[i \in 1..(Len(s) + 1)] ==
            IF i > Len(s) THEN Owned(<<>>)
            ELSE IF s[i] = "BAD" \/ IsIllegal("V2", s[i]) THEN Null
            ELSE IF s[i] # "\\" \/ i = Len(s) THEN Prefixed(s[i], from[i + 1])
            ELSE LET k == AfterSpacing(s, i + 1) IN
                 CASE k <= Len(s) /\ s[k] = "BAD" -> Null
                   [] ~(k <= Len(s) /\ s[k] = "BAD") /\ k > i + 1 -> from[k]
                   [] OTHER -> Prefixed("\\", Prefixed(s[k], from[k + 1]))
    IN from[1]

\* Nothing that failed is passed on but an empty string.
UnescapeV2SingleLine(s) ==
    LET escaped == RemoveEscapedWhitespace(s).text
    IN IF ContainsNewline(escaped) THEN Null ELSE ResolveEscapesV2(escaped)

\* Every newline becomes a line feed.
Normalized(s) ==
    FlattenSeq([i \in DOMAIN s |->
        CASE s[i] = "LF" /\ i > 1 /\ s[i - 1] = "CR" -> <<>>
          [] IsNewline(s[i]) /\ ~(s[i] = "LF" /\ i > 1 /\ s[i - 1] = "CR") -> <<"LF">>
          [] OTHER -> <<s[i]>>])

\* The parts of s between its line feeds.
Lines(s) ==
    LET ends == <<0>> \o SelectSeq([i \in 1..(Len(s) + 1) |-> i],
                                   LAMBDA i : i = Len(s) + 1 \/ s[i] = "LF")
    IN [n \in 1..(Len(ends) - 1) |-> SubSeq(s, ends[n] + 1, ends[n + 1] - 1)]

IsBlank(line) == \A i \in DOMAIN line : IsWhitespace("V2", line[i])

\* Mutant of Dedented: blank lines keep what goes beyond the indentation.
DedentedBlankToo(line, indent) ==
    SubSeq(line, Len(indent) + 1, Len(line)) \o <<"LF">>

\* A line of the value, with its line feed.
Dedented(line, indent) ==
    IF IsBlank(line) THEN <<"LF">> ELSE SubSeq(line, Len(indent) + 1, Len(line)) \o <<"LF">>

\* _kdl_dedent_multiline_string.  The last line is the indentation, the first is empty,
\* and the last line feed of what lies between belongs to the delimiter.
DedentMultilineString(s) ==
    LET lines == Lines(Normalized(s))
        indent == Last(lines)
        body == SubSeq(lines, 2, Len(lines) - 1)
        out == FlattenSeq([n \in DOMAIN body |-> Dedented(body[n], indent)])
    IN IF /\ ~Contains(s, "BAD")
          /\ Len(lines) > 1 /\ lines[1] = <<>> /\ IsBlank(indent)
          /\ \A n \in DOMAIN body : IsBlank(body[n]) \/ IsPrefix(indent, body[n])
       THEN Owned(IF out = <<>> THEN out ELSE Front(out))
       ELSE Null

UnescapeV2MultiLine(s) ==
    LET dedented == DedentMultilineString(RemoveEscapedWhitespace(s).text)
    IN IF dedented.ok THEN ResolveEscapesV2(dedented.text) ELSE Null

\* kdl_unescape_v, kdl_unescape_multi_line
Unescape(version, s) == IF version = "V1" THEN UnescapeV1(s) ELSE UnescapeV2SingleLine(s)
UnescapeMultiLine(version, s) ==
    IF version = "V1" THEN UnescapeV1(s) ELSE UnescapeV2MultiLine(s)
=============================================================================
