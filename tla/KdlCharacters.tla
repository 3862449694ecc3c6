--------------------------- MODULE KdlCharacters ---------------------------
(***************************************************************************)
(* The characters ckdl tells apart (tokenizer.c, str.c) and how they are   *)
(* coded in bytes (utf8.c).  A character stands for all that are treated   *)
(* alike; those that take one byte are their own byte.  "C2" and "EF" are  *)
(* the first bytes of a sequence of two and of three.                      *)
(***************************************************************************)
EXTENDS Naturals, Sequences

\* A byte that is no text: memory that was never written, or no longer counts.
Garbage == "?"

Continuation == {"85", "A0", "A9", "BB", "BF"}

SequenceLength(byte) == CASE byte = "C2" -> 2 [] byte = "EF" -> 3 [] OTHER -> 1

\* The character coded by a complete sequence of bytes.
Character(bytes) ==
    CASE Len(bytes) = 1 -> bytes[1]
      [] bytes = <<"C2", "85">> -> "NEL"
      [] bytes = <<"C2", "A0">> -> "NBSP"
      [] bytes = <<"EF", "BB", "BF">> -> "BOM"
      [] OTHER -> "other"

\* Mutant of PopCodepoint: of a sequence that is not all there, only the part that
\* is there is looked at.
PopCodepointShort(bytes) ==
    IF bytes = <<>> THEN [status |-> "EOF", c |-> Garbage, width |-> 0]
    ELSE LET width == SequenceLength(bytes[1]) IN
         IF bytes[1] \in Continuation \cup {Garbage} \/ Len(bytes) < width
         THEN [status |-> "DECODE_ERROR", c |-> Garbage, width |-> 0]
         ELSE [status |-> "OK", c |-> Character(SubSeq(bytes, 1, width)), width |-> width]

\* _kdl_pop_codepoint: the first character and the number of its bytes.
PopCodepoint(bytes) ==
    IF bytes = <<>> THEN [status |-> "EOF", c |-> Garbage, width |-> 0]
    ELSE LET width == SequenceLength(bytes[1]) IN
         CASE bytes[1] \in Continuation \cup {Garbage} ->
                [status |-> "DECODE_ERROR", c |-> Garbage, width |-> 0]
           [] bytes[1] \notin Continuation \cup {Garbage} /\ Len(bytes) < width ->
                [status |-> "INCOMPLETE", c |-> Garbage, width |-> 0]
           [] OTHER ->
                IF \A i \in 2..width : bytes[i] \in Continuation
                THEN [status |-> "OK", c |-> Character(SubSeq(bytes, 1, width)), width |-> width]
                ELSE [status |-> "DECODE_ERROR", c |-> Garbage, width |-> 0]

-----------------------------------------------------------------------------
\* _kdl_is_whitespace, of a character set
IsWhitespace(charset, c) ==
    \/ c \in {" ", "TAB", "NBSP"}
    \/ charset = "V1" /\ c = "BOM"
    \/ charset = "V2" /\ c = "VT"

\* _kdl_is_newline
IsNewline(c) == c \in {"CR", "LF", "NEL", "FF"}

\* _kdl_is_illegal_char
IsIllegal(charset, c) == charset = "V2" /\ c \in {"NUL", "BS", "DEL", "BOM"}

\* Characters that are in no word in either set: up to U+0020, or reserved.
Separators == {"NUL", "BS", "TAB", "LF", "VT", "FF", "CR", " "}
Reserved == {"\\", "/", "(", ")", "{", "}", ";", "[", "]", "\"", "="}

\* _kdl_is_word_char
IsWordChar(charset, c) ==
    /\ c \notin Separators \cup Reserved \cup {Garbage}
    /\ ~(charset = "V1" /\ c \in {"<", ">", ","})
    /\ ~IsWhitespace(charset, c) /\ ~IsNewline(c) /\ ~IsIllegal(charset, c)

Digits == {"0", "1", "2", "3", "4", "5", "6", "7", "8", "9"}

\* _kdl_is_id: what may be in a name that is not in quotes.
IsIdentifierChar(charset, c) == IsWordChar(charset, c) /\ ~(charset = "V2" /\ c = "#")

\* _kdl_is_id_start
IsIdentifierStart(charset, c) == IsIdentifierChar(charset, c) /\ c \notin Digits

\* _kdl_is_end_of_word
IsEndOfWord(charset, c) ==
    IsWhitespace(charset, c) \/ IsNewline(c) \/ c \in {";", ")", "}", "/", "\\", "="}
=============================================================================
