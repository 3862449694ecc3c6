--------------------------- MODULE KdlTokenizer ---------------------------
(***************************************************************************)
(* The tokenizer (tokenizer.c).  kdl_pop_token and the functions it calls  *)
(* look at one character after the other with _tok_get_char, which refills *)
(* the buffer whenever it comes to its end, and by that moves what is in   *)
(* it.  One turn of one of their loops is a step; a refill is a step of    *)
(* its own.                                                                *)
(*                                                                         *)
(* A pointer is an address, a number.  Memory that document.data may point *)
(* into is one block at a time: the caller's string, or the buffer.  What  *)
(* has been made into tokens is replaced by Garbage in the next call.      *)
(***************************************************************************)
EXTENDS KdlCharacters, Integers

CONSTANTS
    Documents,      \* what may be in the file or string, sequences of bytes
    Increment,      \* BUFFER_SIZE_INCREMENT
    MinSize,        \* MIN_BUFFER_SIZE
    MaxFailures     \* bound: how many allocations may fail

ASSUME DocumentsAssumption == Documents \subseteq Seq(STRING)
ASSUME IncrementAssumption == Increment \in Nat \ {0}
ASSUME MinSizeAssumption == MinSize \in 1..Increment
ASSUME MaxFailuresAssumption == MaxFailures \in Nat

VARIABLES
    file,       \* what read_func has not returned yet
    stream,     \* created with a read_func, not with a string
    allocated,  \* buffer # NULL
    base,       \* address of the block
    mem,        \* its contents; for a buffer, buffer_size is its length
    doc,        \* document, a kdl_str: an address and a length
    charset,    \* "V1" or "V2"
    at,         \* the loop that runs, "idle" if none does
    l,          \* its local variables
    token,      \* status and *dest of the latest call
    failures    \* allocations that failed

bufferVars == <<file, stream, allocated, base, mem, doc, failures>>
tokenizerVars == <<bufferVars, charset, at, l, token>>

-----------------------------------------------------------------------------
(***************************************************************************)
(* Memory.                                                                 *)
(***************************************************************************)
\* Of two blocks that exist at once, the one that is not at address a.
Elsewhere(a) == IF a = 0 THEN 100 ELSE 0

Blank(n) == [i \in 1..n |-> Garbage]

\* n bytes from address a on, Garbage where there is no memory of ours.
Bytes(a, n) ==
    [i \in 1..n |-> IF a + i - 1 - base + 1 \in DOMAIN mem THEN mem[a + i - base] ELSE Garbage]

Unread == Bytes(doc.data, doc.len)

\* The character at cur, as _kdl_pop_codepoint finds it.
Here == PopCodepoint(Bytes(l.cur, doc.len - (l.cur - doc.data)))

\* The loop's local variables when a function begins; all but cur are found unused in
\* the functions that do not have them.
Locals(cur) ==
    [cur |-> cur, dry |-> FALSE, prev |-> "none", depth |-> 0, raw |-> FALSE, v1 |-> FALSE,
     hashes |-> 0, quotes |-> 0, start |-> 0, hashes_found |-> 0, quotes_found |-> 0,
     end |-> 0]

-----------------------------------------------------------------------------
(***************************************************************************)
(* _tok_get_char.                                                          *)
(***************************************************************************)
\* There is no whole character at cur, and more may come.
Starved == at # "idle" /\ Here.status \in {"EOF", "INCOMPLETE"} /\ ~l.dry

\* There is a character, a byte that begins none, or nothing more to come.
Answered == at # "idle" /\ ~Starved

\* Mutant of MovedUp: the data stays where it is in the buffer.
MovedUpUnmoved == IF allocated THEN mem ELSE Blank(Increment)

\* What is unread, at the top of the buffer.
MovedUp == IF allocated THEN Unread \o Blank(Len(mem) - doc.len) ELSE Blank(Increment)

NeedsRoom == Len(MovedUp) - doc.len < MinSize

\* Mutant of Repoint: cur is left where it was.
RepointLate(a, added) ==
    /\ doc' = [data |-> a, len |-> doc.len + added]
    /\ l' = [l EXCEPT !.dry = (added = 0)]

\* Mutant of Repoint: the loop asks again although nothing was added.
RepointHopeful(a, added) ==
    /\ doc' = [data |-> a, len |-> doc.len + added]
    /\ l' = [l EXCEPT !.cur = a + (l.cur - doc.data)]

\* document and cur after the buffer has come to be at address a
Repoint(a, added) ==
    /\ doc' = [data |-> a, len |-> doc.len + added]
    /\ l' = [l EXCEPT !.cur = a + (l.cur - doc.data), !.dry = (added = 0)]

\* A string has all there is.
RefillFromString ==
    /\ Starved /\ ~stream
    /\ l' = [l EXCEPT !.dry = TRUE]
    /\ UNCHANGED <<bufferVars, charset, at, token>>

\* read_func puts n bytes into the buffer, or none if there are none.  realloc gives
\* the larger buffer another address.
RefillFromFile ==
    /\ Starved /\ stream
    /\ LET room == IF NeedsRoom THEN MovedUp \o Blank(Increment) ELSE MovedUp
           top == IF NeedsRoom THEN Elsewhere(base) ELSE base
           most == IF Len(file) < Len(room) - doc.len THEN Len(file) ELSE Len(room) - doc.len
       IN \E n \in (IF file = <<>> THEN {0} ELSE 1..most) :
              /\ mem' = SubSeq(room, 1, doc.len) \o SubSeq(file, 1, n)
                        \o SubSeq(room, doc.len + n + 1, Len(room))
              /\ file' = SubSeq(file, n + 1, Len(file))
              /\ base' = top /\ allocated' = TRUE
              /\ Repoint(top, n)
    /\ UNCHANGED <<stream, charset, at, token, failures>>

\* malloc or realloc returns NULL, and _refill_tokenizer 0.
RefillFails ==
    /\ Starved /\ stream /\ failures < MaxFailures
    /\ ~allocated \/ NeedsRoom
    /\ IF allocated THEN mem' = MovedUp /\ Repoint(base, 0)
                    ELSE l' = [l EXCEPT !.dry = TRUE] /\ UNCHANGED <<mem, doc>>
    /\ failures' = failures + 1
    /\ UNCHANGED <<file, stream, allocated, base, charset, at, token>>

-----------------------------------------------------------------------------
(***************************************************************************)
(* How a turn of a loop ends.                                              *)
(***************************************************************************)
Continue(loop, locals) ==
    /\ at' = loop
    /\ l' = [locals EXCEPT !.dry = FALSE]
    /\ UNCHANGED <<bufferVars, charset, token>>

Return(result) ==
    /\ at' = "idle" /\ l' = Locals(0) /\ token' = result
    /\ UNCHANGED <<file, stream, allocated, base, mem, charset, failures>>

Fail == Return([status |-> "ERROR"]) /\ UNCHANGED doc

\* _update_doc_ptr
Advance(to) == doc' = [data |-> to, len |-> doc.len - (to - doc.data)]

\* A token of the type, whose value is len bytes at from; the document goes on at to.
ReturnToken(type, from, len, to) ==
    /\ Return([status |-> "OK", type |-> type, from |-> from, len |-> len])
    /\ Advance(to)

\* cur, moved over the character at it
next == l.cur + Here.width

Accepting(locals) == [locals EXCEPT !.cur = next]

\* Everything up to cur is the token.
ReturnUpToCur(type) == ReturnToken(type, doc.data, l.cur - doc.data, l.cur)

-----------------------------------------------------------------------------
(***************************************************************************)
(* The loops, each at the point where _tok_get_char has returned.          *)
(***************************************************************************)
RemoveInitialBom ==
    /\ at = "bom" /\ Answered
    /\ Return([status |-> "READY"])
    /\ IF Here.status = "OK" /\ Here.c = "BOM" THEN Advance(next) ELSE UNCHANGED doc

\* The first character of a string or raw string has been seen, by kdl_pop_token.
BeginString(c) ==
    IF c = "\"" THEN Continue("quotes", Locals(l.cur))
    ELSE Continue("hashes", [Locals(IF c = "r" THEN next ELSE l.cur)
                                EXCEPT !.raw = TRUE, !.v1 = (c = "r")])

Punctuation ==
    [c \in {"\\", "(", ")", "{", "}", "="} |->
        CASE c = "\\" -> "LINE_CONTINUATION" [] c = "(" -> "START_TYPE"
          [] c = ")" -> "END_TYPE" [] c = "{" -> "START_CHILDREN"
          [] c = "}" -> "END_CHILDREN" [] OTHER -> "EQUALS"]

PopToken ==
    /\ at = "token" /\ Answered
    /\ LET c == Here.c IN
       CASE Here.status = "EOF" -> Return([status |-> "EOF"]) /\ UNCHANGED doc
         [] Here.status \in {"INCOMPLETE", "DECODE_ERROR"} -> Fail
         [] Here.status = "OK" ->
            CASE IsIllegal(charset, c) -> Fail
              [] ~IsIllegal(charset, c) /\ IsWhitespace(charset, c) ->
                    Continue("whitespace", Accepting(l))
              [] c = "CR" -> Continue("cr", Accepting(l))
              [] c # "CR" /\ IsNewline(c) ->
                    ReturnToken("NEWLINE", l.cur, Here.width, next)
              [] c = ";" -> ReturnToken("SEMICOLON", doc.data, l.cur - doc.data, next)
              [] c \in DOMAIN Punctuation ->
                    ReturnToken(Punctuation[c], l.cur, Here.width, next)
              [] c = "/" -> Continue("slash", Accepting(l))
              [] c \in {"\"", "r", "#"} -> BeginString(c)
              [] c \notin {"\"", "r", "#"} /\ IsWordChar(charset, c) ->
                    Continue("word", l)
              [] OTHER -> Fail

PopWhitespace ==
    /\ at = "whitespace" /\ Answered
    /\ IF Here.status = "OK" /\ IsWhitespace(charset, Here.c)
       THEN Continue("whitespace", Accepting(l))
       ELSE ReturnUpToCur("WHITESPACE")

\* CR LF is one newline.  cur is the character after CR, which takes one byte.
PopNewline ==
    /\ at = "cr" /\ Answered
    /\ LET end == IF Here.status = "OK" /\ Here.c = "LF" THEN next ELSE l.cur
       IN ReturnToken("NEWLINE", l.cur - 1, end - (l.cur - 1), end)

PopWord ==
    /\ at = "word" /\ Answered
    /\ CASE Here.status = "EOF" -> ReturnUpToCur("WORD")
         [] Here.status \in {"INCOMPLETE", "DECODE_ERROR"} -> Fail
         [] Here.status = "OK" ->
            CASE IsEndOfWord(charset, Here.c) -> ReturnUpToCur("WORD")
              [] ~IsEndOfWord(charset, Here.c) /\ IsWordChar(charset, Here.c) ->
                    Continue("word", Accepting(l))
              [] OTHER -> Fail

PopComment ==
    /\ at = "slash" /\ Answered
    /\ CASE Here.status = "OK" /\ Here.c = "-" -> ReturnToken("SLASHDASH", doc.data, 2, next)
         [] Here.status = "OK" /\ Here.c = "/" -> Continue("line", Accepting(l))
         [] Here.status = "OK" /\ Here.c = "*" ->
                Continue("block", [Accepting(l) EXCEPT !.depth = 1])
         [] OTHER -> Fail

PopLineComment ==
    /\ at = "line" /\ Answered
    /\ CASE Here.status = "EOF" -> ReturnUpToCur("SINGLE_LINE_COMMENT")
         [] Here.status \in {"INCOMPLETE", "DECODE_ERROR"} -> Fail
         [] Here.status = "OK" ->
            CASE IsIllegal(charset, Here.c) -> Fail
              [] IsNewline(Here.c) -> ReturnUpToCur("SINGLE_LINE_COMMENT")
              [] OTHER -> Continue("line", Accepting(l))

\* The second character of a delimiter is not the first of the next one.
PopBlockComment ==
    /\ at = "block" /\ Answered
    /\ LET c == Here.c
           opens == c = "*" /\ l.prev = "/"
           closes == c = "/" /\ l.prev = "*"
           depth == CASE opens -> l.depth + 1 [] closes -> l.depth - 1 [] OTHER -> l.depth
       IN IF Here.status # "OK" \/ IsIllegal(charset, c) THEN Fail
          ELSE IF depth = 0
          THEN ReturnToken("MULTI_LINE_COMMENT", doc.data, next - doc.data, next)
          ELSE Continue("block", [Accepting(l) EXCEPT
                    !.depth = depth, !.prev = IF opens \/ closes THEN "none" ELSE c])

\* _pop_string gives up: what looked like a raw string may still be a word.
NoString == IF l.raw THEN Continue("word", Locals(doc.data)) ELSE Fail

CountHashes ==
    /\ at = "hashes" /\ Answered
    /\ CASE Here.status = "OK" /\ Here.c = "#" ->
                Continue("hashes", [Accepting(l) EXCEPT !.hashes = @ + 1])
         [] Here.status = "OK" /\ Here.c = "\"" -> Continue("quotes", l)
         [] OTHER -> NoString

\* The string itself begins at cur.  Of two quotes the second one closes it.
BeginBody(locals) ==
    LET over == IF locals.quotes = 2 THEN 1 ELSE 0
    IN Continue("string", [locals EXCEPT !.cur = @ - over, !.quotes = @ - over,
                                         !.start = locals.cur - over - doc.data])

CountQuotes ==
    /\ at = "quotes" /\ Answered
    /\ LET counted == [Accepting(l) EXCEPT !.quotes = @ + 1]
       IN CASE Here.status = "EOF" /\ ~l.raw /\ l.quotes = 2 ->
                    ReturnToken("STRING", doc.data, 0, l.cur)
            [] Here.status # "OK" /\ ~(Here.status = "EOF" /\ ~l.raw /\ l.quotes = 2) -> NoString
            [] Here.status = "OK" /\ Here.c = "\"" ->
                    IF counted.quotes = (IF l.v1 THEN 1 ELSE 3) THEN BeginBody(counted)
                                                                ELSE Continue("quotes", counted)
            [] OTHER -> BeginBody(l)

\* What c does to the counts of quotes and hashes that may close the string.
Counted(c) ==
    CASE ~l.raw /\ c = "\\" /\ l.prev = "\\" ->
            [l EXCEPT !.prev = "none", !.quotes_found = 0, !.hashes_found = 0, !.end = 0]
      [] c = "\"" /\ (l.raw \/ l.prev # "\\") ->
            [l EXCEPT !.prev = c, !.hashes_found = 0,
                      !.end = (IF l.quotes_found = 0 THEN l.cur - doc.data ELSE @)
                              + (IF l.quotes_found < l.quotes THEN 0 ELSE 1),
                      !.quotes_found = IF @ < l.quotes THEN @ + 1 ELSE @]
      [] c = "#" /\ (l.hashes_found # 0 \/ l.quotes_found = l.quotes) ->
            [l EXCEPT !.prev = c, !.hashes_found = @ + 1, !.quotes_found = 0]
      [] OTHER ->
            [l EXCEPT !.prev = c, !.quotes_found = 0, !.hashes_found = 0, !.end = 0]

StringType ==
    CASE l.quotes = 3 -> IF l.raw THEN "RAW_MULTILINE_STRING" ELSE "MULTILINE_STRING"
      [] l.quotes # 3 /\ l.raw -> IF l.v1 THEN "RAW_STRING_V1" ELSE "RAW_STRING_V2"
      [] OTHER -> "STRING"

PopString ==
    /\ at = "string" /\ Answered
    /\ LET n == Counted(Here.c)
           closed == /\ n.end # 0
                     /\ IF l.hashes = 0 THEN n.quotes_found = l.quotes
                                        ELSE n.hashes_found = l.hashes
       IN IF Here.status # "OK" \/ IsIllegal(charset, Here.c) THEN NoString
          ELSE IF closed
          THEN ReturnToken(StringType, doc.data + l.start, n.end - l.start, next)
          ELSE Continue("string", Accepting(n))

-----------------------------------------------------------------------------
(***************************************************************************)
(* The whole tokenizer.                                                    *)
(***************************************************************************)
\* kdl_create_string_tokenizer and kdl_create_stream_tokenizer, up to the call of
\* _remove_initial_bom.
Init ==
    \E document \in Documents :
        /\ stream \in BOOLEAN
        /\ allocated = FALSE /\ base = 0 /\ failures = 0
        /\ IF stream THEN file = document /\ mem = <<>> ELSE file = <<>> /\ mem = document
        /\ doc = [data |-> 0, len |-> Len(mem)]
        /\ charset = "V2"
        /\ at = "bom" /\ l = Locals(0) /\ token = [status |-> "NONE"]

\* kdl_pop_token is called.  The value of the previous token has been used: its memory
\* is given up, as the next refill may.
Call ==
    /\ at = "idle"
    /\ at' = "token" /\ l' = Locals(doc.data) /\ token' = [status |-> "NONE"]
    /\ mem' = [i \in DOMAIN mem |-> IF i - 1 + base < doc.data THEN Garbage ELSE mem[i]]
    /\ UNCHANGED <<file, stream, allocated, base, doc, charset, failures>>

\* kdl_tokenizer_set_character_set, between two calls
SetCharacterSet ==
    /\ at = "idle"
    /\ charset' \in {"V1", "V2"}
    /\ UNCHANGED <<bufferVars, at, l, token>>

Refill == RefillFromString \/ RefillFromFile \/ RefillFails

Turn ==
    \/ RemoveInitialBom \/ PopToken \/ PopWhitespace \/ PopNewline \/ PopWord
    \/ PopComment \/ PopLineComment \/ PopBlockComment
    \/ CountHashes \/ CountQuotes \/ PopString

Next == Call \/ SetCharacterSet \/ Refill \/ Turn

\* The loops run, read_func returns, and the parser asks for the next token until it
\* is told that there is none.
Fairness == WF_tokenizerVars(Refill \/ Turn \/ Call)

TokenizerSafety == Init /\ [][Next]_tokenizerVars
TokenizerSpec == TokenizerSafety /\ Fairness

-----------------------------------------------------------------------------
(***************************************************************************)
(* Properties.                                                             *)
(***************************************************************************)
\* Every pointer that is used after a refill points into the block that there is then
\* (tokenizer.c:213-216): the document lies in it, cur lies in the document, and so
\* does the value of a token once it is returned, which ends no earlier than it begins;
\* though each refill may have moved everything, and a failed one half of it.
PointersStayInside ==
    /\ base <= doc.data /\ doc.data + doc.len <= base + Len(mem)
    /\ at # "idle" => l.cur \in doc.data..(doc.data + doc.len)
    /\ at = "idle" /\ token.status = "OK" =>
           /\ base <= token.from /\ 0 <= token.len
           /\ token.from + token.len <= doc.data

\* What has not been made into tokens: in memory and in the file.
Remaining == Unread \o file

\* Nothing is lost, read twice or garbled by a refill, one that fails included, and
\* each token takes at least a character with it: what remains is always an end of
\* what remained before, and a shorter one after each token.
EveryByteIsReadOnce ==
    [][LET n == Len(Remaining) - Len(Remaining')
       IN /\ n >= 0 /\ Remaining' = SubSeq(Remaining, n + 1, Len(Remaining))
          /\ (at # "idle" /\ token'.status = "OK") <=> (n > 0 /\ at # "bom")]_tokenizerVars

\* The characters that bytes stand for, with "BAD" where they stand for none.
Decoded(bytes) ==
    LET from[i \in 1..(Len(bytes) + 1)] ==
            LET first == PopCodepoint(SubSeq(bytes, i, Len(bytes)))
            IN CASE i > Len(bytes) -> <<>>
                 [] i <= Len(bytes) /\ first.status = "OK" -> <<first.c>> \o from[i + first.width]
                 [] OTHER -> <<"BAD">>
    IN from[1]

\* What the caller sees: the value of a token is read from memory.
Outcome ==
    CASE at = "bom" -> [status |-> "OPENING"]
      [] at \notin {"bom", "idle"} -> [status |-> "PENDING"]
      [] at = "idle" /\ token.status = "OK" ->
            [status |-> "OK", type |-> token.type,
             value |-> Decoded(Bytes(token.from, token.len))]
      [] OTHER -> token

WholeText == INSTANCE KdlTokens WITH rest <- Decoded(Remaining), out <- Outcome

\* However the data is cut into reads, wherever the buffer is moved and whichever
\* version's characters are asked for, each call returns the token that the whole of
\* the text has at that place; as long as no allocation has failed.
ReadsTheWholeText ==
    /\ WholeText!Init
    /\ [][failures' = 0 => WholeText!Next]_<<Remaining, charset, Outcome>>

\* The parser gets to the end of every document, or to an error in it.
ComesToAnEnd == <>(token.status \in {"EOF", "ERROR"})
=============================================================================
