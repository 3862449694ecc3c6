------------------------------- MODULE KdlData -------------------------------
(***************************************************************************)
(* What the program computes from one piece of data, without any state of  *)
(* its own: strings, numbers, the properties of a node, the events of a    *)
(* document.  The piece is built one element at a time, so that each piece *)
(* is a state, and what is computed from it is compared with a definition  *)
(* of what it should be.                                                   *)
(***************************************************************************)
EXTENDS KdlValue, KdlProplist, KdlDocuments

CONSTANTS
    Subjects,   \* what the data may be
    Elements,   \* what each of them is made of
    MaxLength   \* bound: how many elements a piece may have

\* What is in quotes has no characters but these while the version is being detected:
\* the tokenizer has refused the others (tokenizer.c:585).
Legal == {c \in STRING : c # "BAD" /\ ~IsIllegal("V2", c)}

ASSUME SpellingsAssumption ==
    /\ \A element \in Elements["escapes"] : element.spelled \in Seq(Legal)
    /\ Elements["lines"] \subseteq Legal

\* A property has a name; holes have none.
ASSUME PropertiesAssumption == Elements["properties"] \subseteq [name : Nat \ {NoName}]

\* A character is at most four bytes long.
Pushes == [kind : {"CHARS"}, count : Nat] \cup [kind : {"CODEPOINT"}, count : 1..4]

ASSUME PushesAssumption == Elements["pushes"] \subseteq Pushes /\ MaxLength["pushes"] \in Nat

\* The events that make up a document; at the end of a node there is no label.
Kinds == {"START_NODE", "END_NODE", "ARGUMENT", "PROPERTY"}

ASSUME EventsAssumption == Elements["events"] \subseteq [kind : Kinds, label : Nat]

VARIABLES subject, input

dataVars == <<subject, input>>

Tokens == INSTANCE KdlTokens WITH rest <- input, charset <- "V2", out <- subject

Count(kind) == Cardinality({i \in DOMAIN input : input[i].kind = kind})
Open == Count("START_NODE") - Count("END_NODE")

\* Events come as KdlEvents promises, and no entry right after the end of a node.
MayFollow(element) ==
    subject = "events" =>
        /\ element.kind # "START_NODE" => Open > 0
        /\ element.kind \in {"ARGUMENT", "PROPERTY"} => Last(input).kind # "END_NODE"

\* The value of a property or an argument is its place.
Placed(element) ==
    IF subject \in {"events", "properties"}
    THEN [k \in DOMAIN element \cup {"value"} |->
             IF k = "value" THEN Len(input) + 1 ELSE element[k]]
    ELSE element

DataInit == subject \in Subjects /\ input = <<>>

Extend ==
    /\ Len(input) < MaxLength[subject]
    /\ \E element \in Elements[subject] : MayFollow(element) /\ input' = Append(input, Placed(element))
    /\ UNCHANGED subject

DataSpec == DataInit /\ [][Extend]_dataVars

-----------------------------------------------------------------------------
(***************************************************************************)
(* Strings.                                                                *)
(***************************************************************************)
\* Whatever a string holds, and whichever characters are to be escaped, it can be put
\* between quotes (doc/ckdl-api.rst:152): that is one token, and reading it gives the
\* string back.  In version 2 that needs KDL_ESCAPE_NEWLINE if there are newlines.
EscapedTextComesBack ==
    subject = "characters" =>
        \A version \in {"V1", "V2"}, mode \in EscapeModes :
            LET escaped == Escape(version, input, mode)
                quoted == <<"\"">> \o escaped.text \o <<"\"">>
            IN /\ escaped.ok <=> ~Contains(input, "BAD")
               /\ escaped.ok /\ (version = "V2" => "NEWLINE" \in mode \/ ~ContainsNewline(input)) =>
                      /\ Unescape(version, escaped.text) = Owned(input)
                      /\ Tokens!Answer(version, quoted)
                           = Tokens!Taking(Len(quoted), Tokens!Token("STRING", escaped.text))

Spelling == FlattenSeq([i \in DOMAIN input |-> input[i].spelled])

\* Whitespace and newlines after an escape of whitespace belong to it.
Swallowed(i) ==
    \E j \in 1..(i - 1) :
        /\ input[j].swallows
        /\ \A k \in (j + 1)..i : \A c \in ToSet(input[k].spelled) : IsSpacing(c)

Meant(version, i) ==
    IF version = "V2" /\ Swallowed(i) THEN Owned(<<>>) ELSE input[i][version]

\* A text put together of characters and escapes stands for what each of them stands
\* for, one after the other, and for nothing if one of them is not allowed in the
\* version; as long as the digits of a \u fit into the number they are read into.
UnescapesWhatIsWritten ==
    subject = "escapes" =>
        \A version \in {"V1", "V2"} :
            Unescape(version, Spelling) =
                IF \A i \in DOMAIN input : Meant(version, i).ok
                THEN Owned(FlattenSeq([i \in DOMAIN input |-> Meant(version, i).text]))
                ELSE Null

\* A text laid out as a multi-line string: its lines are indented, the last one closes it.
LaidOut(text, indent, closing, newline) ==
    newline \o FlattenSeq([n \in DOMAIN Lines(text) |->
                   (IF IsBlank(Lines(text)[n]) THEN Lines(text)[n] ELSE indent \o Lines(text)[n])
                   \o newline])
            \o closing

\* What it stands for: everything but the closing line's indentation.
Unindented(text, indent, closing) ==
    LET full(line) == indent \o line
        lines == {line \in ToSet(Lines(text)) : ~IsBlank(line)}
        short(line) == IF IsBlank(line) THEN <<>>
                       ELSE SubSeq(full(line), Len(closing) + 1, Len(full(line)))
        first == short(Lines(text)[1])
    IN IF \A line \in lines : IsPrefix(closing, full(line))
       THEN Owned(first \o FlattenSeq([n \in 1..(Len(Lines(text)) - 1) |->
                                          <<"LF">> \o short(Lines(text)[n + 1])]))
       ELSE Null

Push(buf, push) ==
    IF push.kind = "CHARS" THEN PushChars(buf, push.count) ELSE PushCodepoint(buf, push.count)

\* The write buffer of a size after all pushes of a list
Pushed(size, pushes) ==
    LET after[i \in 0..Len(pushes)] ==
            IF i = 0 THEN NewWriteBuffer(size) ELSE Push(after[i - 1], pushes[i])
    IN after[Len(pushes)]

\* Whatever is put into a write buffer, of any size to begin with, there is room for it
\* in memory (str.c:61, 79).
WritesStayInTheBuffer ==
    subject = "pushes" =>
        \A size \in 0..MaxLength.pushes :
            LET buf == Pushed(size, input) IN buf.str_len <= buf.buf_len

\* Indenting the lines of a text, with any whitespace and any newlines, is undone by
\* what reads multi-line strings; a line with less indentation than the closing line,
\* or with another one, is refused.
DedentUndoesIndenting ==
    subject = "lines" =>
        \A indent, closing \in {<<>>, <<" ">>, <<"TAB">>, <<" ", "TAB">>},
           newline \in {<<"LF">>, <<"CR">>, <<"CR", "LF">>, <<"NEL">>} :
            DedentMultilineString(LaidOut(input, indent, closing, newline))
                = Unindented(input, indent, closing)

-----------------------------------------------------------------------------
(***************************************************************************)
(* Values of either version.                                               *)
(***************************************************************************)
Text == CASE subject = "escapes" -> Spelling
          [] subject = "words" -> FlattenSeq(input)
          [] OTHER -> input

TokenTypes ==
    CASE subject = "escapes" -> {"STRING"}
      [] subject = "lines" -> {"STRING", "RAW_STRING_V1", "RAW_STRING_V2", "RAW_MULTILINE_STRING"}
      [] subject \in {"words", "whole", "based", "decimal"} -> {"WORD"}
      [] OTHER -> {}

\* While the version is being detected, a value is read as each of the versions that
\* are left reads it, and it is refused only if both refuse it: whichever version the
\* document turns out to have, its earlier values are right.  .5 is not (parser.c:869),
\* nor are strings in three quotes, which settle nothing (parser.c:783).
ReadsAsEveryVersionLeft ==
    \A type \in TokenTypes :
        LET read == ParseValue({"V1", "V2"}, type, Text)
        IN IF read.value.ok
           THEN \A version \in read.versions :
                    \/ ParseValue({version}, type, Text) = Reading({version}, read.value)
                    \/ type = "WORD" /\ version = "V2" /\ IsAlmostNumeric(Text)
           ELSE \A version \in {"V1", "V2"} : ~ParseValue({version}, type, Text).value.ok

-----------------------------------------------------------------------------
(***************************************************************************)
(* Numbers.                                                                *)
(***************************************************************************)
IsDigits(s, base) ==
    /\ s # <<>> /\ s[1] # "_"
    /\ \A i \in DOMAIN s : s[i] = "_" \/ s[i] \in ToSet(SubSeq(HexDigits, 1, base))

Worth(s, base) ==
    FoldLeft(LAMBDA n, c : IF c = "_" THEN n ELSE n * base + HexValue[c], 0, s)

DecimalText(n) ==
    LET digits[k \in Nat] == IF k < 10 THEN <<HexDigits[k + 1]>>
                             ELSE Append(digits[k \div 10], HexDigits[(k % 10) + 1])
    IN digits[n]

Before(s, c) == SubSeq(s, 1, (CHOOSE k \in 1..(Len(s) + 1) :
                                  /\ \A i \in 1..(k - 1) : s[i] # c
                                  /\ k <= Len(s) => s[k] = c) - 1)
After(s, c) == SubSeq(s, Len(Before(s, c)) + 2, Len(s))

Base(u) ==
    LET letter == IF Len(u) > 2 /\ u[1] = "0" THEN u[2] ELSE "none"
    IN CASE letter = "x" -> 16 [] letter = "o" -> 8 [] letter = "b" -> 2 [] OTHER -> 10

\* A whole number, of either sign, that is worth n: in the digits of a long long if they
\* hold it, and if not as text, which takes no more room than was planned for.
IsWhole(value, negative, n) ==
    CASE value.type = "INTEGER" ->
            /\ n < 2^(LimbsPerLongLong * DigitBits - 1)
            /\ value.integer = IF negative THEN -n ELSE n
      [] value.type = "STRING_ENCODED" ->
            /\ n >= 2^(DigitBits - 1)
            /\ value.string = (IF negative THEN <<"-">> ELSE <<>>) \o DecimalText(n)
            /\ \E limbs \in Nat \cap 1..8 :
                   /\ Limb^(limbs - 1) <= n /\ n < Limb^limbs
                   /\ Len(DecimalText(n)) <= limbs * MaxDecimals
      [] OTHER -> FALSE

\* Marks and signs before the digits of the exponent; the code takes more marks than
\* one (parser.c:1033).
MarkedExponent(s, k) ==
    /\ IsDigits(SubSeq(s, k, Len(s)), 10)
    /\ \A i \in 1..(k - 1) : s[i] \in {"e", "-", "+"}
    /\ \A i \in 2..(k - 1) : s[i] = "e" \/ s[i - 1] = "e"

IsFloat(u) ==
    LET head == Before(u, "e") IN
    /\ IsDigits(Before(head, "."), 10)
    /\ Contains(head, ".") => IsDigits(After(head, "."), 10)
    /\ Contains(u, "e") => \E k \in 1..Len(After(u, "e")) : MarkedExponent(After(u, "e"), k)

\* A decimal that is worth worth * 10^exponent.
IsDecimal(value, negative, worth, exponent) ==
    /\ value.negative = negative
    /\ \E z \in 0..MaxLength.decimal :
           value.exponent = exponent + z /\ value.mantissa * 10^z = worth

\* The words that start with a digit are read if they are numbers, and as the numbers
\* that they are: whole ones of any size exactly, in limbs or not; decimals exactly as
\* long as a double holds them, and else as they are written.
NumbersAreRead ==
    subject \in {"whole", "based", "decimal"} /\ IsNumeric(input) =>
        LET u == Unsigned(input)
            value == ParseNumber(input)
            digits == IF Base(u) = 10 THEN u ELSE SubSeq(u, 3, Len(u))
            head == Before(u, "e")
            tail == After(u, "e")
            k == CHOOSE j \in 1..(Len(tail) + 1) : j > Len(tail) \/ MarkedExponent(tail, j)
            exponent == Worth(SubSeq(tail, k, Len(tail)), 10)
            net == (IF Contains(SubSeq(tail, 1, k - 1), "-") THEN -exponent ELSE exponent)
                   - Len(SelectSeq(After(head, "."), LAMBDA c : c # "_"))
            written == SelectSeq(head, LAMBDA c : c \in Digits)
        IN CASE IsDigits(digits, Base(u)) ->
                    value.ok /\ IsWhole(value, Negative(input), Worth(digits, Base(u)))
             [] ~IsDigits(digits, Base(u)) /\ Base(u) = 10 /\ IsFloat(u) ->
                    /\ value.ok
                    /\ IF Len(written) <= ExactDigits /\ exponent < ExponentLimit
                       THEN IsDecimal(value, Negative(input), Worth(written, 10), net)
                       ELSE value.string = (IF Negative(input) THEN <<"-">> ELSE <<>>)
                                           \o SelectSeq(u, LAMBDA c : c # "_")
             [] OTHER -> ~value.ok

-----------------------------------------------------------------------------
(***************************************************************************)
(* Properties of a node, as ckdl-cat writes them.                          *)
(***************************************************************************)
\* ckdl-cat.c:217, of proplist_emit: "emit the properties without duplicates, in
\* lexical order".  Each name is written once, in order, with the value given last.
EmitsInOrderWithoutDuplicates ==
    subject = "properties" =>
        InOrderWithoutDuplicates(Emission(input), input)

\* proplist_clear frees as many properties as have not been dropped, from the front
\* of the array: those are the ones that have a name, wherever holes were in between.
HoldsFreeableInFront ==
    subject = "properties" => HolesComeLast(Sorted(input))

-----------------------------------------------------------------------------
(***************************************************************************)
(* Documents.                                                              *)
(***************************************************************************)
\* kdlpp.cpp:183-189 goes on with a pointer into a vector that it took before it put
\* other nodes into that or another one.  None was put behind the one it points to.
PointersStayGood ==
    subject = "events" =>
        LET r == ReadFrom(input)
        IN \A path \in ToSet(r.stack) \cup ({r.current_node} \ {NoNode}) :
               IsLatest(r.nodes, path)

\* The C++ and the Python reader make the same document of the same events, though
\* they differ in what they remember at the end of a node.
ReadersAgree ==
    subject = "events" => ReadFrom(input).nodes = PyParse(input).nodes

\* A document that is written and read again is the same document.
DocumentComesBack ==
    subject = "events" =>
        LET nodes == ReadFrom(input).nodes
        IN ReadFrom(EmitNodes(nodes)).nodes = nodes
=============================================================================
