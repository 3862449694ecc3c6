----------------------------- MODULE KdlTokens -----------------------------
(***************************************************************************)
(* What kdl_pop_token promises: the next token of the document, found by   *)
(* looking at all of the rest of it at once, as a sequence of characters.  *)
(* No buffer, no reading, and a token is described by where it ends.       *)
(*                                                                         *)
(* A document that stops being UTF-8 ends in "BAD".                        *)
(***************************************************************************)
EXTENDS KdlCharacters, FiniteSets

VARIABLES
    rest,       \* characters not yet made into tokens
    charset,    \* "V1" or "V2"
    out         \* what the latest call returned, or that one is running

tokensVars == <<rest, charset, out>>

Opening == [status |-> "OPENING"]
Pending == [status |-> "PENDING"]
Ready == [status |-> "READY"]
Eof == [status |-> "EOF"]
Error == [status |-> "ERROR"]
Token(type, value) == [status |-> "OK", type |-> type, value |-> value]

\* The answer to a call, and how many characters it takes off the document.
Taking(n, answer) == [answer |-> answer, taken |-> n]
Refusal == Taking(0, Error)

Acceptable(cs, s) == \A i \in DOMAIN s : s[i] # "BAD" /\ ~IsIllegal(cs, s[i])

Least(S) == CHOOSE n \in S : \A m \in S : n <= m

\* Number of characters at the front of s for which Test holds.
Run(s, Test(_)) ==
    Least({n \in 0..Len(s) : n = Len(s) \/ ~Test(s[n + 1])})

Whitespace(cs, s) ==
    LET n == Run(s, LAMBDA c : IsWhitespace(cs, c))
    IN Taking(n, Token("WHITESPACE", SubSeq(s, 1, n)))

Newline(s) ==
    LET n == IF Len(s) > 1 /\ s[1] = "CR" /\ s[2] = "LF" THEN 2 ELSE 1
    IN Taking(n, Token("NEWLINE", SubSeq(s, 1, n)))

Word(cs, s) ==
    LET n == Run(s, LAMBDA c : c # "BAD" /\ IsWordChar(cs, c))
    IN IF n = Len(s) \/ IsEndOfWord(cs, s[n + 1])
       THEN Taking(n, Token("WORD", SubSeq(s, 1, n)))
       ELSE Refusal

LineComment(cs, s) ==
    LET n == Run(s, LAMBDA c : ~IsNewline(c))
    IN IF Acceptable(cs, SubSeq(s, 1, n))
       THEN Taking(n, Token("SINGLE_LINE_COMMENT", SubSeq(s, 1, n)))
       ELSE Refusal

\* Comments nest.  The delimiters are the disjoint pairs of characters found from
\* left to right; the comment ends where as many have closed as have opened.
BlockComment(cs, s) ==
    LET pair(k) == <<s[k], s[k + 1]>>
        delimiter[k \in 0..(Len(s) - 1)] ==
            k > 0 /\ pair(k) \in {<<"/", "*">>, <<"*", "/">>} /\ ~delimiter[k - 1]
        count(n, p) == {k \in 1..(n - 1) : delimiter[k] /\ pair(k) = p}
        ends == {n \in 3..Len(s) : Cardinality(count(n, <<"/", "*">>))
                                      = Cardinality(count(n, <<"*", "/">>))}
    IN IF ends # {} /\ Acceptable(cs, SubSeq(s, 1, Least(ends)))
       THEN LET n == Least(ends) IN Taking(n, Token("MULTI_LINE_COMMENT", SubSeq(s, 1, n)))
       ELSE Refusal

Comment(cs, s) ==
    CASE Len(s) > 1 /\ s[2] = "-" -> Taking(2, Token("SLASHDASH", <<"/", "-">>))
      [] Len(s) > 1 /\ s[2] = "/" -> LineComment(cs, s)
      [] Len(s) > 1 /\ s[2] = "*" -> BlockComment(cs, s)
      [] OTHER -> Refusal

-----------------------------------------------------------------------------
All(s, from, to, c) == \A i \in from..to : s[i] = c

\* How many quotes open the string whose first quote is at i: three or one.  Two are
\* an empty string, one that opens and one that closes it.
Quotes(s, i, most) ==
    IF most = 3 /\ Len(s) >= i + 2 /\ All(s, i, i + 2, "\"") THEN 3 ELSE 1

\* The quote at k is escaped: an odd number of backslashes stands before it.
Escaped(s, start, k) ==
    Run([i \in 1..(k - start) |-> s[k - i]], LAMBDA c : c = "\\") % 2 = 1

\* A string that begins at start, after its quotes, and ends with the character at
\* the least of ends, with so many quotes and hashes behind its value.
Closed(cs, s, type, start, ends, marks) ==
    IF ends # {} /\ Acceptable(cs, SubSeq(s, start, Least(ends)))
    THEN Taking(Least(ends), Token(type, SubSeq(s, start, Least(ends) - marks)))
    ELSE Refusal

PlainString(cs, s) ==
    LET q == Quotes(s, 1, 3)
        start == q + 1
        ends == {k \in (start + q - 1)..Len(s) :
                     \A i \in (k - q + 1)..k : s[i] = "\"" /\ ~Escaped(s, start, i)}
    IN \* whether "" opens a string of three is seen by the character after it
       IF Len(s) > 2 /\ s[2] = "\"" /\ s[3] = "BAD" THEN Refusal
       ELSE Closed(cs, s, IF q = 3 THEN "MULTILINE_STRING" ELSE "STRING", start, ends, q)

\* r"..." and r#"..."# of version 1, #"..."# and #"""..."""# of version 2
RawString(cs, s) ==
    LET prefix == IF s[1] = "r" THEN 1 ELSE 0
        hashes == Run(SubSeq(s, prefix + 1, Len(s)), LAMBDA c : c = "#")
        first == prefix + hashes + 1
        q == Quotes(s, first, IF s[1] = "r" THEN 1 ELSE 3)
        start == first + q
        marks == q + hashes
        ends == {k \in (start + marks - 1)..Len(s) :
                     /\ All(s, k - hashes + 1, k, "#")
                     /\ All(s, k - marks + 1, k - hashes, "\"")}
        type == CASE q = 3 -> "RAW_MULTILINE_STRING"
                  [] q = 1 /\ s[1] = "r" -> "RAW_STRING_V1"
                  [] OTHER -> "RAW_STRING_V2"
    IN IF first > Len(s) \/ s[first] # "\"" THEN Refusal
       ELSE Closed(cs, s, type, start, ends, marks)

-----------------------------------------------------------------------------
Punctuation ==
    [c \in {"\\", "(", ")", "{", "}", "="} |->
        CASE c = "\\" -> "LINE_CONTINUATION" [] c = "(" -> "START_TYPE"
          [] c = ")" -> "END_TYPE" [] c = "{" -> "START_CHILDREN"
          [] c = "}" -> "END_CHILDREN" [] OTHER -> "EQUALS"]

Answer(cs, s) ==
    CASE s = <<>> -> Taking(0, Eof)
      [] s # <<>> /\ ~Acceptable(cs, <<s[1]>>) -> Refusal
      [] OTHER ->
         CASE IsWhitespace(cs, s[1]) -> Whitespace(cs, s)
           [] IsNewline(s[1]) -> Newline(s)
           [] s[1] = ";" -> Taking(1, Token("SEMICOLON", <<>>))
           [] s[1] \in DOMAIN Punctuation -> Taking(1, Token(Punctuation[s[1]], <<s[1]>>))
           [] s[1] = "/" -> Comment(cs, s)
           [] s[1] = "\"" -> PlainString(cs, s)
           [] s[1] \in {"r", "#"} ->
                IF RawString(cs, s) # Refusal THEN RawString(cs, s) ELSE Word(cs, s)
           [] IsWordChar(cs, s[1]) /\ s[1] \notin {"r", "#"} -> Word(cs, s)
           [] OTHER -> Refusal

After(s, n) == SubSeq(s, n + 1, Len(s))

Idle == out \notin {Opening, Pending}

\* A byte-order mark at the very beginning belongs to no token.
Open ==
    /\ out = Opening
    /\ out' = Ready
    /\ rest' = IF rest # <<>> /\ rest[1] = "BOM" THEN Tail(rest) ELSE rest
    /\ UNCHANGED charset

Ask == Idle /\ out' = Pending /\ UNCHANGED <<rest, charset>>

Reply ==
    /\ out = Pending /\ out' # Pending
    /\ LET a == Answer(charset, rest)
       IN out' = a.answer /\ rest' = After(rest, a.taken)
    /\ UNCHANGED charset

SetCharacterSet ==
    /\ Idle
    /\ charset' \in {"V1", "V2"}
    /\ UNCHANGED <<rest, out>>

Init == out = Opening /\ charset = "V2"

Next == Open \/ Ask \/ Reply \/ SetCharacterSet
=============================================================================
