# ckdl in TLA+

ckdl reads and writes [KDL](https://kdl.dev) documents, versions 1 and 2. It is a C library
(`src/`, `include/kdl/`), a few command-line tools on top of it (`src/utils/`), and bindings for
C++ (`bindings/cpp/`) and Python (`bindings/python/`). The library is sequential: no threads, no
I/O of its own, no persistence. What is hard about it is elsewhere. The reader is a *pull* parser
whose handlers communicate through a bit set, a handful of integers and one put-back token; each of
those is moved by several handlers, and a long sequence of legal tokens is what brings them out of
step. The parser also decides, while it is reading, which of two languages it reads.

Contents: [the system](#the-system) · [the models](#the-models) · [what the runs show](#what-the-runs-show) ·
[what is proved](#what-is-proved) · [findings](#findings) · [not modelled](#not-modelled) · [plan](#plan)

## The system

```
  bytes --> tokenizer --> parser --> event stream --> readers: C++ Document::read_from,
            (utf8,        (strings,                            Python _parse,
             grammar)      numbers, bigint)                    ckdl-cat, ckdl-parse-events
                                                                   |
  bytes <-- write function / buffer <-- emitter <------------------+ (documents, ckdl-cat)
```

All interaction is by calls from right to left: a reader calls `kdl_parser_next_event`, which calls
`kdl_pop_token`, which may call the caller's read function; a writer calls `kdl_emit_*`, which calls
the caller's write function. Three pieces of state are shared between layers: the parser changes the
tokenizer's character set in the middle of a document (`kdl_tokenizer_set_character_set`), an event points
into buffers that the parser owns and reuses at the next call, and ckdl-cat relies on the emitter's
`depth` to follow the nesting of the events it reads.

| component | state | operations | what is hard | what makes it correct |
|---|---|---|---|---|
| **parser** `src/parser.c` | `state` (mode and flag bits), `depth`, `slashdash_depth`, `child_block_at_depth`, version bits of `opt`, `waiting_type_annotation`, `waiting_prop_name`, `next_token`, `event` | `kdl_create_*_parser`, `kdl_parser_next_event` (`_next_node`, `_next_event_in_node`, `_apply_slashdash`, `_set_version`) | counters moved by several handlers; `/-` kept as one integer for any nesting; a token handled twice; version detection mid-document; the newline made up at the end of the data | events nest; nothing is delivered that `/-` removes and everything else is; detection agrees with the version it settles on; every document ends in EOF or PARSE_ERROR |
| **event stream and C++ reader** `kdlpp.cpp`, `parser.h` | stack of open nodes, `current_node` | `Document::read_from`, `parse`, `parse(.., Any)` | trusts the stream: pops an empty vector or follows a null pointer if it is unbalanced | never pops an empty stack, no entry without a node, nothing open at EOF |
| **tokenizer** `src/tokenizer.c` | buffer and read position, `charset` | `kdl_pop_token`, `_refill_tokenizer`, `kdl_tokenizer_set_character_set` | refill in the middle of a token moves the buffer; raw-string and comment nesting; character set changes between two tokens | the same tokens however the data is cut into reads; no character lost or read twice |
| **strings** `src/str.c` | write buffers | `kdl_escape(_v)`, `kdl_unescape(_v*)`, dedent of multi-line strings | dedent relates every line to the last one; `\u{}` in 32 bits; two sets of escapes | unescape inverts escape; dedent removes exactly the common prefix |
| **numbers** `parser.c` 899-1297 | local automaton state, 64-bit accumulators | `_parse_number` and its four notations | fall-back from integer to big integer to string; overflow before the length check | the value read is the value written, or the text is kept as a string |
| **big integers** `src/bigint.c` | limbs and sign | multiply, add, to 64 bits, to text | 32-bit limbs, sign bit of the top limb | equals arithmetic on integers |
| **UTF-8, grammar** `src/utf8.c`, `grammar.h` | none | push and pop one code point | truncated and overlong sequences | pop inverts push |
| **emitter** `src/emitter.c` | `depth`, `start_of_line`, buffer | `kdl_emit_node`, `_arg`, `_property`, `kdl_start/finish_emitting_children`, `kdl_emit_end` | state changed before a write that may fail; no check of the order of calls; closes blocks in its destructor | what a legal sequence of calls writes parses back to that sequence |
| **ckdl-cat** `utils/ckdl-cat.c` | `proplist`, a node-in-progress | `kdl_cat_file_to_file_opt` | properties held back and sorted until the node's first child or end; duplicates | its output parses to the same document, later duplicate wins |
| **ckdl-parse-events, ckdl-tokenize** | none | print what they are given | none | none |
| **Python bindings** `_ckdl.pyx` | stack of nodes, `current_node` | `parse`, `Emitter`s | a second reader of the stream that differs from the C++ one after the end of a node | the same document as the C++ reader |
| **compat, headers** | none | `reallocf` | none | none |

`PROJECT.json` lists every hazard at the line where it bites, with the properties that watch it.

## The models

| module | models | stands on |
|---|---|---|
| `KdlParser` | the parser: `kdl_parser_next_event` and every handler below it | – |
| `KdlEvents` | abstract: what an event stream promises its reader | – |
| `KdlReader` | the parser together with the loop of `Document::read_from` | `KdlParser`, implements `KdlEvents` |
| `KdlStrings` | the reader's parser with its four owned strings and the pointers that borrow from them | `KdlReader` |
| `KdlSlashdash` | the parser with auxiliary variables that remember every open node and block | `KdlParser` |
| `KdlDetect` | a detecting parser, a v1 parser and a v2 parser reading the same document | three instances of `KdlParser` |
| `KdlEmitter` | the emitter, as operators on its state, and as a specification of any documented order of calls over a sink that may fail | – |
| `KdlProplist` | the merge sort of ckdl-cat, which drops duplicates and leaves holes | – |
| `KdlCat` | ckdl-cat: event stream in, emitter calls out | `KdlEvents` (as its source), `KdlEmitter`, `KdlProplist` |
| `KdlRoundTrip` | what ckdl-cat writes, read back by the parser | `KdlCat`, `KdlParser` |
| `KdlCharacters` | the characters the program tells apart, their classes (`_kdl_is_...`) and their UTF-8 | – |
| `KdlTokens` | abstract: the next token of a text, found in all of the rest of it at once | `KdlCharacters` |
| `KdlTokenizer` | the tokenizer: its loops, its buffer and the refills in the middle of them | `KdlCharacters`, implements `KdlTokens` |
| `KdlStr` | escaping, unescaping, multi-line strings, write buffers | `KdlCharacters` |
| `KdlBigint`, `KdlNumber` | arithmetic in limbs; the four notations of numbers | `KdlStr` |
| `KdlValue` | `_parse_value`: the value of a token, and the versions it leaves | `KdlNumber` |
| `KdlDocuments` | the documents that the C++ and the Python reader build, and the C++ writer | – |
| `KdlData` | pieces of data, and what the last five make of them | `KdlValue`, `KdlProplist`, `KdlDocuments`, `KdlTokens` |
| `KdlParserProofs` | lemmas: what one step of the parser can do | `KdlParser` |
| `KdlReaderProofs` | theorems about the reader and the strings | `KdlStrings`, `KdlParserProofs` |
| `KdlSlashdashProofs`, `KdlDetectProofs` | theorems about `KdlSlashdash` and `KdlDetect` | these, `KdlParserProofs` |
| `KdlTokenizerProofs` | theorems about the tokenizer's pointers and bytes | `KdlTokenizer` |
| `KdlProplistProofs` | induction, loops, and the merge sort for lists of any length | `KdlProplist` |
| `KdlWriterProofs` | theorems about the emitter, ckdl-cat and the round trip | `KdlRoundTrip`, `KdlProplistProofs` |
| `KdlDataProofs` | theorems about properties, write buffers, documents and values in `KdlData`, and about numbers in limbs | `KdlData`, `KdlProplistProofs` |
| `MCKdlReader`, `MCKdlSlashdash`, `MCKdlDetect`, `MCKdlEmitter`, `MCKdlCat`, `MCKdlRoundTrip`, `MCKdlTokenizer`, `MCKdlData` | small sets of tokens, strings, values, texts and options, and views, for TLC | the module in their name |

### The parser (`KdlParser`)

*One step handles one token.* `kdl_parser_next_event` is a loop that fetches a token and dispatches
on its type and on the state; a step of the model is one turn of that loop. `event` is what the turn
made of the token, `NoEvent` when the loop goes round. The calls of `kdl_parser_next_event` are thus
sequences of steps that end in a delivered event.

| in the code | in the model |
|---|---|
| `state & 0xff`, the `PARSER_FLAG_` bits of `state` | `mode`, `flags` |
| `depth`, `slashdash_depth`, `child_block_at_depth` | the same |
| version bits of `opt` | `version`: `v1`, `v2`, `detect` |
| `waiting_type_annotation`, `waiting_prop_name` non-null | the same, Boolean |
| `have_next_token`, `next_token` | `next_token`, `NoToken` when there is none |
| `event` and what `_apply_slashdash` makes of it | `event.kind`, `event.slashdashed`, `event.annotated` |
| the tokenizer's character set when it read the token | `lexedAs` |
| – (auxiliary) | `last`, the type of the last token, `"EOF"` after the data has ended |

| code | action |
|---|---|
| whitespace, comments, newlines after `/-` | `Spacing` (`AcceptSpacing` for the version rules) |
| `/-` | `Slashdash`; after a possible key it goes on to the handler of that key |
| end of data in a node: a made-up newline | `EofInNode` |
| end of data outside | `EofOutsideNode` |
| tokenizer error | `TokenizerError` |
| type annotations in both handlers | `AnnotationOpen`, `AnnotationName`, `AnnotationClose` |
| `_next_node` | `BlankLine`, `StartNode`, `EndChildren`, `LineContinuationOutside` |
| `_next_event_in_node` | `LineContinuation(End)`, `PropertyKey`, `PendingArgument`, `EndNode`, `StartChildren`, `PossibleKey`, `Entry` |
| every `_set_parse_error` | the `Reject...` disjunct next to the actions it guards |
| `_apply_slashdash`, `_set_version`, `_v1_only` | `ApplySlashdash`, `VersionAfter`, guards on `version` |

*Documents.* The document is not fixed in advance: every step may read any token of `Vocabulary`
that the tokenizer could produce after the previous one (`CanFollow`: two runs of whitespace are
never adjacent, a word ends only before something that can end a word, a `//` comment is followed
by a newline or the end), and the data may end anywhere. One behaviour is one document *and* the
parser's run over it, so the runs cover all documents over the vocabulary, of any length, up to
`MaxBlocks` levels of children blocks. `MaxBlocks` is the only bound: without it `depth` is an
unbounded integer.

*Data.* A token is its type and, for words and strings, the class of its value: which versions
accept it as a string, a number or a keyword, and whether reading it settles the version. That is
all `_parse_value` distinguishes for the rest of the parser; how it comes to it is `KdlValue`. Both settings of `KDL_EMIT_COMMENTS`
are covered at once: the option decides only whether comments and slashdashed events are returned
or eaten, and no other field depends on it.

The model was compared with the program while it was written: the token sequences of the test
documents and of some twenty thousand random ones, run through both, give the same events and the
same verdicts in all three version modes.

### The reader and its promise (`KdlReader`, `KdlEvents`)

`KdlReader` adds the height of the C++ reader's stack (`open`) and the latest event it acted on.
`KdlEvents` knows nothing of tokens: nodes start and end, entries arrive only while a node is open,
EOF comes only when none is, and nothing follows EOF or PARSE_ERROR. `KdlReader` implements it
(`KeepsPromises`) with the identity mapping on `open` and `latest`: turns of the loop that deliver
nothing are stuttering.

### Who owns the strings (`KdlStrings`)

An event is put together over several turns, and often calls: the annotation is read first, then a string that may be a
key, then the value. Each is kept in one of four owned strings (`tmp_string_type`, `tmp_string_key`, `tmp_string_value`,
`waiting_prop_name`), and `_parse_value` frees what its owner held before. The module adds which owners hold a string and
where each pointer of the event, and `waiting_type_annotation`, points. A string is named by its owner, so assigning one
owner to another takes the pointers along (`MoveString`), and what is overwritten without being freed is `lost`. Its
specification has the reader's steps and fairness; the runs of the reader use it, and check `KdlReader`'s properties of it too.

### What `/-` removes (`KdlSlashdash`)

The parser has one integer for "how far does the removal reach" and one for "where was a children
block kept". The module adds, as auxiliary variables, what they stand for: the stack `scope` of open
nodes and blocks, each marked hidden or shown and with the blocks it has had, `armed` for a `/-` that
waits for its element, and `dangled` for one that met the end of its node instead. After that has
happened the properties claim nothing (finding 1 shows what it leads to).

### Version detection (`KdlDetect`)

Three parsers read the same tokens in lockstep: one with `KDL_DETECT_VERSION`, one v1, one v2. The
second and third are also what `parse(text, KdlVersion::Any)` and the Python `parse` run one after the
other. A parser that has rejected the document stands still.

### The emitter (`KdlEmitter`)

The emitter has no loop of its own: it is a record (`opt`, `depth`, `start_of_line`) that each
`kdl_emit_*` function changes. The model writes each function as an operator from the emitter before
the call to the emitter after it, so that the specifications of its callers can compose calls the way
the code does.

| in the code | in the model |
|---|---|
| `kdl_emit_node`, `kdl_emit_node_with_type` | `EmitNode` (`Preamble`, `Annotation`, `BareString`) |
| `kdl_emit_arg`, `kdl_emit_property` | `EmitArg`, `EmitProperty` (`Value`) |
| `kdl_start_emitting_children`, `kdl_finish_emitting_children` | `StartEmittingChildren`, `FinishEmittingChildren` |
| `kdl_emit_end`, `kdl_destroy_emitter` | `EmitEnd`, `DestroyEmitter` (in `KdlCat`) |
| the write function, and `&&` and `return false` after it | `Write`, `ok` |

What is written is a sequence of *lexemes*, the tokens the text would be read as. `out` and `room` only
live within one step: `out` is what this step's calls wrote, `room` how many lexemes the sink still
takes in it. A sink with too little room takes what fits and reports failure, from then on the calls of
this step write nothing, as `&&` and the early returns have it; the next step may find room again, so a
sink may fail and recover between any two lexemes. `broken` remembers that some write has failed.
`nesting` and `fresh` are auxiliary: what the text itself says about open braces and line starts. They are
no longer tracked once a write has failed, as half a write leaves no text to speak of.

Strings are their kind (`TextKinds`): what matters is whether each character may be in an identifier of
the version written, whether it is ASCII, and what a bare word of it would be read as.

### ckdl-cat (`KdlCat`, `KdlProplist`) and back (`KdlRoundTrip`)

`KdlCat` takes its events from any stream that implements `KdlEvents` and gives the entries of a node
before its children. `KdlReader` shows that the parser keeps the first promise; the second it breaks only
after a dangling slashdash (finding 1). An action of `KdlCat` is one turn of the loop of `kdl_cat_impl`
with all the calls of the emitter it makes, then `DestroyEmitter`. `in_node_list`, `props` and `result`
are the variables and the returned value of that function.

`KdlProplist` holds the merge sort as functions from arrays to arrays: `Pass` is one pass over windows of
a given width, `OverwritingMerge` is the loop over two runs, and `Hole` an entry whose name has been set
to NULL. The code moves the entries between two buffers; the model keeps the contents only. `Compare`
is `kdl_str_cmp` with names as numbers.

`KdlRoundTrip` gives the lexemes of each step to the parser before the next step is made, and keeps in
`said` the events that were written but not read back. The parser makes the same of a text whatever
comes after it, so this is the same as reading the whole text in the end, with far less to remember. The
parser is set to the version the emitter was given, or left to detect it. The view `WithoutOutput` hides
`emitter.out`: every step overwrites it before it is read.

### The tokenizer (`KdlTokenizer`, `KdlTokens`)

Every function below `kdl_pop_token` is a loop that asks `_tok_get_char` for the next character. That
call may refill the buffer, which moves what is in it, in the middle of anything. *One turn of a loop is a
step, and a refill is a step of its own*: `Starved` says that there is no whole character at `cur` and more
may come, `Answered` that the loop can go on. `at` names the loop that runs, `l` is its local variables.

| code | action |
|---|---|
| `kdl_create_*_tokenizer`, `_remove_initial_bom` | `Init`, `RemoveInitialBom` |
| a call of `kdl_pop_token`, of `kdl_tokenizer_set_character_set` | `Call`, `SetCharacterSet` |
| `_refill_tokenizer` | `RefillFromString`, `RefillFromFile`, `RefillFails` |
| `kdl_pop_token` | `PopToken`, `PopWhitespace`, `PopNewline` |
| `_pop_word` | `PopWord` |
| `_pop_comment` | `PopComment`, `PopLineComment`, `PopBlockComment` |
| `_pop_string` | `BeginString`, `CountHashes`, `CountQuotes`, `BeginBody`, `PopString`, `NoString` |

A pointer is an address: `document.data`, `cur` and the value of a token are numbers, `mem` is what lies at
`base`, and `realloc` gives the larger buffer another base. A read may return any number of bytes. What has
been made into tokens becomes `Garbage` at the next call, as the next refill may overwrite it; a pointer that
was not moved along thus reads something no text has in it. Documents are sequences of *bytes*, some of
which are the first or a later byte of a character, so a read may cut a character, a `CR LF` or a delimiter.

`KdlTokens` knows no buffer. It says for each kind of token where it ends in the text: a comment where as
many delimiters have closed as have opened, a raw string at the first row of as many quotes and hashes as it
began with, a plain one at the first quotes that no odd number of backslashes precedes. `KdlTokenizer`
implements it as long as no allocation has failed (`ReadsTheWholeText`), by the mapping `rest <- what the unread
bytes in memory and in the file stand for`, `out <- the answer to the latest call, its value read from memory`.
Turns of loops and refills are stuttering.

### Data (`KdlStr`, `KdlBigint`, `KdlNumber`, `KdlValue`, `KdlDocuments`, `KdlData`)

What a string, a number or a list of properties is turned into is a function of it, so these modules hold
operators. `KdlData` builds a piece of data one element at a time, which makes every piece up to a length a
state, and its invariants compare what the program computes with a definition written without looking at how:
a text is what its characters and escapes stand for one after the other; a decimal is worth its digits.

Strings are sequences of characters, with `"BAD"` where the bytes are no UTF-8. A character stands for all
that are treated alike. A limb has `DigitBits` bits, `Plus` and `Times` are functions of the carries, `Decimals` divides as often as its buffer
has room for a digit, and a
`double` is kept as the mantissa and the power of ten it is computed from. `KdlValue` follows `_parse_value` for a
set of versions that are still allowed and returns the value and the versions that are left. In `KdlDocuments`
a node's path says which child of which child it is; the readers' pointers are paths, and a document is a
function from paths to nodes.

## What the runs show

| run | states | what TLC checks |
|---|---|---|
| `reader` | 433 281 | all 35 tokens, blocks nested two deep, three version modes: `ReaderTypeOK`, `ModeFollowsDepth`, `OpenNodesAreBalanced`, `PutBackTokenIsCurrent`, `EventStringsLive`, `KeepsPromises`, `VersionIsFinal`; liveness: `EndOfDataIsReported` |
| `slashdash` | 59 247 | `CounterIsOutermostHidden`, `ExactlyTheHiddenIsRemoved`, `OneShownBlockAfterTheEntries`, blocks nested three deep |
| `detect` | 42 829 | all 35 tokens, three parsers: `FollowsV2`, `FollowsV1OnceSettled`, `AcceptedInOneVersionIfSettled` |
| `emitter` | 7 416 | any documented order of calls, failing sinks, blocks three deep: `EmitterTypeOK`, `BracesMatchDepth`, `LineStartIsKnown`, `EndFinishesTheText` |
| `cat` | 2 844 | any event stream, failing sinks, nodes three deep: `EmitterFollowsTheNodes`, `PropertiesStayWithTheirNode`, `TrueMeansWritten`, `TextIsClosedInTheEnd` |
| `tokenizer` | 215 971 | every short text over the bytes each kind of token is about, as a string and cut into reads in every way, one failing allocation, both character sets: `PointersStayInside`, `EveryByteIsReadOnce`, `ReadsTheWholeText`; liveness: `ComesToAnEnd` |
| `data` | 342 087 | every piece of data up to a length. Strings: `EscapedTextComesBack`, `UnescapesWhatIsWritten`, `DedentUndoesIndenting`, `WritesStayInTheBuffer`. Values: `ReadsAsEveryVersionLeft`, `NumbersAreRead`. Properties: `EmitsInOrderWithoutDuplicates`, `HoldsFreeableInFront`. Documents: `PointersStayGood`, `ReadersAgree`, `DocumentComesBack` |
| `round_trip` | 629 342 | nodes two deep, both versions and detection, all identifier modes: `ReadsWhatWasWritten`, `ReadsAllThatWasWritten`, `WrittenTextIsAccepted` |
| `reader_entries`, `reader_waiting`, `reader_strings`, `round_trip_bare` | – | one violation each: the [findings](#findings) |

- `ModeFollowsDepth`: the parser is in a node exactly at odd depth. Four handlers move `depth`, three
  move the mode; nothing in the code ties the two together.
- `OpenNodesAreBalanced`: the reader has `(depth + 1) / 2` nodes open or, while a slashdash is active,
  as many as where the slashdash stands. It is what makes `stack.pop_back()` safe.
- `PutBackTokenIsCurrent`: a token that is handled a second time would be read the same way now,
  although a handler may have changed the version, and with it the character set, in between.
- `EventStringsLive`: when an event is delivered, what it points to has not been freed or moved away since it was read, and
  neither has the annotation that waits.
- `VersionIsFinal`: no handler moves a parser from one version to the other.
- `EndOfDataIsReported`: the newline made up at the end of the data is never swallowed as whitespace.
- `CounterIsOutermostHidden`, `ExactlyTheHiddenIsRemoved`: the integer always equals the depth of the
  outermost hidden element, and an event is removed exactly when its element is hidden.
- `OneShownBlockAfterTheEntries`: a shown node has at most one shown block, and no argument or property
  is shown after any block, however hidden blocks alternate and whatever the nodes inside them do to
  `child_block_at_depth`.
- `FollowsV2`: as long as the v2 parser does not object, the detecting parser is in the same state;
  nothing a v2 document holds can push it to v1.
- `FollowsV1OnceSettled`: once it is on v1, what it read before is what v1 would have read.
- `AcceptedInOneVersionIfSettled`: it accepts nothing that neither version accepts. Both hold of documents
  in which every value that only one version allows makes the parser settle; the auxiliary variable
  `loose` remembers when one does not, as a multi-line string does not (`parser.c:783`).
- `BracesMatchDepth`, `LineStartIsKnown`: while every write has gone through, `depth` and `start_of_line`
  describe the text, although both are set before the write they stand for, in some functions, and after
  it in others. `EndFinishesTheText`: then a successful `kdl_emit_end` leaves closed braces and a newline.
- `EmitterFollowsTheNodes`: ckdl-cat keeps no stack. `open = depth + (0 or 1)`, by the value of
  `in_node_list`, is why `kdl_finish_emitting_children` is called for nodes with braces and for no others.
- `PropertiesStayWithTheirNode`: nothing held back outlives the entries of its node.
- `TrueMeansWritten`, `TextIsClosedInTheEnd`: a failed write anywhere shows in the result; after a parse
  error the text stops early but the destructor closes its braces.
- `EmitsInOrderWithoutDuplicates`, `HoldsFreeableInFront`: the merge sort equals its definition (each
  name once, in order, with its last value), and leaves its holes behind everything `proplist_clear` frees.
- `PointersStayInside`: after any refill, one that failed half way included, `document`, `cur` and the value
  of a token point into the block there is then; the code keeps `cur` right in `_tok_get_char` and everything
  else as a difference to `document.data`.
- `EveryByteIsReadOnce`: what is still to be read is always an end of what was still to be read before, and
  is shorter exactly when a token was returned: nothing lost by a refill, nothing consumed by an attempt
  at a raw string that turns out to be a word.
- `ReadsTheWholeText`: however the data is cut into reads, each call returns the token that the whole text
  has there. `ComesToAnEnd`: a parser that asks until it is told EOF or ERROR is told.
- `EscapedTextComesBack`: whatever a string holds and whichever characters are escaped, between quotes it is
  one token and reads back as the string. `UnescapesWhatIsWritten`: a text of characters and escapes
  stands for what each of them stands for, whitespace escapes swallow what they should, and one that the
  version does not allow makes it none.
- `DedentUndoesIndenting`: indenting a text by any whitespace, with any newlines, is undone; a line with less
  or with another indentation than the closing line is refused, and blank lines are not measured.
- `WritesStayInTheBuffer`: room is always made for what is pushed, with any initial size.
- `ReadsAsEveryVersionLeft`: in detect mode a value is read as each of the versions that are left reads it, and
  refused only if both refuse it. This is what lets `KdlDetect` take classes for values.
- `NumbersAreRead`: words that start with a digit are read exactly if they are numbers and as the number they
  are; decimals longer than a double is exact are kept as text.
- `PointersStayGood`: the pointers `read_from` holds into growing vectors always point to the last node of
  their vector. `ReadersAgree`: the Python reader, which forgets less at the end of a node, makes the same
  document. Both hold of streams without an entry right after the end of a node (finding 1).
  `DocumentComesBack`: the calls `emit_nodes` makes, read as events, make the same document.
- `ReadsWhatWasWritten`, `ReadsAllThatWasWritten`, `WrittenTextIsAccepted`: the text read back is the
  document written, event by event, with type annotations and with properties sorted. The last fails
  for strings that are keywords or look like numbers (finding 4) and holds without them.

*Bounds.* A children block is where the parser's counters meet: with one level (`MaxBlocks = 1`) every
handler can run; with two, a slashdash may lie inside or outside a block and its node; three let a
hidden node two levels in have blocks of its own while an outer node waits for its second one, which is
what the two-integer encoding could get wrong. Parsers in lockstep are compared at one level, as no
version rule looks at the depth. The `slashdash` run leaves out annotations and malformed values:
they do not touch the state the properties are about, and are in the `reader` run. The view
`NotRejected` of the `detect` runs forgets the state of a parser that has rejected the document: no
step reads it, and every property compares only parsers that have not. Nine properties make the merge
sort run four passes, the last over runs of unequal length that may both contain holes; three names let
duplicates fall within a run, across runs and on both sides of a hole. The rooms of the `emitter` and `cat`
runs let a sink stop within each write of each call; the largest of them is more than any step writes. The
`round_trip` run nests two deep: what the emitter writes depends on the level only through indentation.

The tokenizer's buffer grows by 4 bytes (`Increment`; 4096 in the code) and is enlarged with less than 2 free
(`MinSize`; 1024), so documents of four and five bytes fill it, move it and enlarge it, within every kind of token
and at every character of it; one failing allocation (`MaxFailures`) may fall on any of these. Documents are all
texts over a few bytes of one kind of token (five bytes of `"`, `#`, `r` or of `/`, `*`, newline, say) and longer
ones put together from delimiters, which is where loops hand over to each other.

Limbs have 5 bits (`DigitBits`; 32), just enough for base 16, and two of them make a `long long` as in the code; numbers of up to
six digits have up to four limbs. `MaxDecimals = 2` (10) is what a limb of that size needs. A double is exact to 3
digits (`ExactDigits`; 15) and its exponent is read until it is 5 or more (`ExponentLimit`; 285), so that numbers of six
characters lie on both sides of both limits; `MantissaBits = 10` (64) lets the mantissa wrap. `\u{}` is read into 24
bits (`AccumulatorBits`; 32), since TLC computes with 32-bit integers: more than the largest code point needs, and
not reached by the digits used. Write buffers grow by 2 (`BufferIncrement`; 1 or 1024), less and more than what is
pushed. Three elements make every pair of escapes meet, adjacent or with one between; five characters hold three lines;
four parts of words make every keyword of both versions, with and without signs and hashes.

*Fairness.* In `KdlReader`: `WF_readerVars(last = "EOF" /\ Read)`: the reader's `while (true)` calls
`kdl_parser_next_event` until it is told EOF or PARSE_ERROR, and the loop inside it has no exit but an
event. Weak fairness says no more than that the program keeps running once it has all of the data.
Nothing is assumed of the document: it may be endless, so the property only says that once the data *has*
ended the reader is told. In `KdlTokenizer`: `WF_tokenizerVars(Refill \/ Turn \/ Call)`, which says that a loop that
runs goes on, that the caller's read function returns, and that the parser asks for the next token. It is not
asked to read anything in particular: a read of nothing is the end. Setting the character set is under no
fairness and may happen any number of times between two calls, but not instead of all of them.

*Mutants.* Next to the definitions they change stand operators named in `PROJECT.json` under `mutants`:
plausible slips in the code (a depth off by one, a missing reset, a test left out). Each makes TLC
refute the property it is listed with.

## What is proved

For every value of the constants: every vocabulary of tokens, every depth of nesting, every set of strings, values and
documents, every way to cut data into reads and every capacity of a sink. The theorems state properties that the runs
check on small instances, except where none is named.

| module | theorem | says |
|---|---|---|
| `KdlReaderProofs` | `TypeCorrect` | `ReaderSafety => []ReaderTypeOK` |
| | `Alternation` | `ReaderSafety => []ModeFollowsDepth` |
| | `Balance` | `ReaderSafety => []OpenNodesAreBalanced` |
| | `PutBack_Current` | `ReaderSafety => []PutBackTokenIsCurrent` |
| | `VersionSettles` | `ReaderSafety => VersionIsFinal` |
| | `Implementation` | `ReaderSafety => KeepsPromises`: the reader's view implements `KdlEvents` |
| | `NothingDangles` | `StringsSpec => []EventStringsLive` |
| | `StringsImplementReader` | `StringsSpec => ReaderSafety`, so all of the above hold with the strings as well |
| `KdlSlashdashProofs` | `CounterIsRight` | `SlashdashSpec => []CounterIsOutermostHidden` |
| | `OnlyTheHiddenIsRemoved` | `SlashdashSpec => ExactlyTheHiddenIsRemoved` |
| | `BlocksComeOnceAndLast` | `SlashdashSpec => OneShownBlockAfterTheEntries` |
| `KdlDetectProofs` | `ReadsV2AsV2` | `DetectSpec => []FollowsV2` |
| | `ReadsV1AsV1` | `DetectSpec => []FollowsV1OnceSettled` |
| | `AcceptsOneVersion` | `DetectSpec => []AcceptedInOneVersionIfSettled` |
| `KdlTokenizerProofs` | `PointersInside` | `TokenizerSafety => []PointersStayInside` |
| | `BytesAreReadOnce` | `TokenizerSafety => EveryByteIsReadOnce` |
| `KdlWriterProofs` | `EmitterTypes` | `EmitterSpec => []EmitterTypeOK` |
| | `BracesAreCounted`, `LineStartsAreKnown` | `EmitterSpec => []BracesMatchDepth`, `EmitterSpec => []LineStartIsKnown` |
| | `EndFinishes` | `EmitterSpec => EndFinishesTheText` |
| | `EmitterFollows` | `CatSpec => []EmitterFollowsTheNodes` |
| | `PropertiesStay` | `CatSpec => []PropertiesStayWithTheirNode` |
| | `TrueIsWritten`, `TextIsClosed` | `CatSpec => []TrueMeansWritten`, `CatSpec => []TextIsClosedInTheEnd` |
| | `RoundTripIsACat` | `RoundTripSpec => CatSpec`, so the four theorems above hold there too |
| | `EventsComeBack` | `RoundTripSpec => ReadsWhatWasWritten`, if `WrittenAsMeant` (see below), as for the next three |
| | `NothingIsLost` | `RoundTripSpec => []ReadsAllThatWasWritten` |
| | `WritingIsAccepted` | `RoundTripSpec => []WrittenTextIsAccepted` |
| | `WritingIsReadable` | `RoundTripSpec => []NextCanBeRead`: the tokenizer finds each lexeme of the text in the state the one before has left the parser in |
| `KdlProplistProofs` | `WrittenInOrder` | of a list of any length, ckdl-cat emits each name once, in order, with its last value |
| `KdlDataProofs` | `PropertiesAreWrittenInOrder` | the same as a property of `KdlData`: `DataSpec => []EmitsInOrderWithoutDuplicates` |
| | `FreeableInFront` | `DataSpec => []HoldsFreeableInFront` |
| | `BuffersHold` | `DataSpec => []WritesStayInTheBuffer` |
| | `PointersAreGood` | `DataSpec => []PointersStayGood`: for documents of every length and depth |
| | `SameDocument` | `DataSpec => []ReadersAgree`: for documents of every length and depth |
| | `OneLimbIsCarried` | what is computed from one limb fits into two, and what is carried on into one, for limbs of every size |
| | `WholeNumbersAreExact` | digits of every number and base are read as the number they are worth, in a `long long` that holds it or in text that fits its buffer |
| | `QuotedStringsAgree` | a text in quotes that both versions can unescape is the same string in both |
| | `ValuesSurviveDetection` | `DataSpec => []ReadsAsEveryVersionLeft`: for tokens of every length |
| | `EscapingIsUndone` | `DataSpec => []EscapedTextComesBack`: for strings of every length, in every mode of escaping |

`KdlParserProofs` has no theorem of its own: it holds the lemmas about one step of the parser that the proofs about
`KdlReader`, `KdlStrings`, `KdlSlashdash` and `KdlDetect` share.

### The arguments

*One step of the parser* (`KdlParserProofs`). The parser has some thirty actions, but the invariants speak of few of its
variables. `StepShape` shows once that every step of `Next` has one of eight shapes (a quiet step, one into or out of a
node, into or out of a block, an event in a node, a failure, the end) with what each does to `mode`, `depth`,
`slashdash_depth` and `event`. `StepFields` does the same for the types and `StepLexer` for the token that is put back. The
invariant they keep is

    ParserIInv == TypeOK /\ ModeFollowsDepth /\ PutBackTokenIsCurrent /\ PutBackWithinBounds

A token that is put back is handled in the state its handler left, so what is put back, and where, has to be known, and
that `depth` stays within its type needs the bound on blocks.

*The reader.* `OpenNodesAreBalanced` is not inductive alone: that an `END_NODE` finds a node open needs `depth` odd, which
is `ModeFollowsDepth`, and that a slashdash ends on the right event needs its depth to be no deeper than one below the
current one. Hence

    IInv == ParserIInv /\ open \in 0..(MaxBlocks + 1) /\ latest \in EventKinds \ {"COMMENT"}
            /\ OpenNodesAreBalanced /\ EndIsLatest

from which the five properties follow and, with the step shapes once more, the simulation of `KdlEvents` step by step.

*The strings.* `StringsIInv` adds that every pointer points to a string that is owned (`AllLive`) and that while a string
may still become a key it is kept (`KeyIsKept`), by the two flags that say so. Each action is reduced to the few moves and
assignments of strings it makes, and a lemma says of each of these which pointers stay good.

*Slashdash.* The invariant says of the parser's two integers what the auxiliary stack says of each open node and block:
there are `depth` of them; those at `slashdash_depth` and below are the hidden ones (`CounterMarksHidden`);
`child_block_at_depth` is the one node whose shown block is known, and any open node below it is hidden
(`ShownBlockIsNoted`), which is why one integer is enough; and the flags of a node say whether it has had a block
(`FlagsFollowBlocks`). It is claimed until a slashdash dangles.

*Detection.* The three parsers are compared in lockstep: in the same state the same guards hold, region by region of
`Dispatch`, and where `Reading` differs the detecting parser has settled in that step. `Follows2` is inductive with the
equality of all fields. For v1 one exception has to be named (`AboutToSettle`): a word only v2 reads may be put back to end an
argument, and until it is handled again the v1 parser has stopped while the detecting one has not yet settled.

*The tokenizer.* `TokenizerIInv` says what each loop's locals are relative to `doc.data`: how far `cur` has come at least
(a token is never empty), where in a string the closing quotes may have begun, and that what may fall back to being a
word begins with a character a word may begin with; this last is what makes a failed attempt at a raw string return
something. A refill (`Refilled`) moves all of this by the same distance and leaves every unread byte what it was, whether it
allocates, moves the data up, grows the buffer or fails half way; that a character that was complete is still the same
character when more bytes follow is `CodepointStays`. Every turn of a loop then ends in one of four ways (`Ends`: it goes on,
gives a token, stops, or skips the byte-order mark), and the properties follow from these.

*The emitter and ckdl-cat.* `SinkIInv` holds of the emitter between any two calls, in whatever order they are made and
wherever a write fails. `KdlCat` adds how many nodes are open (`EmitterFollowsTheNodes`), that nothing is held back
between nodes, and that while it reads nothing has failed and the text is within a line (`ReadingInLine`). Each call is
shown to keep `SinkIInv` on its own, so the proof does not depend on the order in which `kdl_cat_impl` makes them.

*The round trip.* Between what the writer has written and what the parser has made of it stands a reader that
knows neither program (`Places`): where in a line it is (at its start, behind a name or a value, behind a key and
its `=`, behind a brace...), how far into a type annotation, in how many blocks, and which events it is owed. `Reads` says
how one lexeme moves it. Three facts about it make the proof:

- Every function of the emitter, in every option, writes a `Path` from one place to another: `Settled` says which places
  these are, by `depth`, `start_of_line` and the Boolean `in_node_list` of ckdl-cat alone.
- If the parser stands at a place (`Stands`: its mode, depth, flags and what waits are determined by it), then what it does
  with a lexeme the reader can take brings it to the reader's next place, and it reports just what the reader crosses off
  (`MoveTaken`). A string may be an argument or a key, and the parser knows only at the next lexeme, which it puts
  back to report the argument first. `Argued` is the place in between; the argument stays owed until then.
- An event that ckdl-cat writes is owed from then on, behind all the others (`Owing`), which leaves the path the same.

The invariant says that the parser stands somewhere, owed `said`, from where a path leads along the text on the way to a
settled place:

    ReadIInv == ... /\ \/ event.kind = "EOF" /\ result = "true" /\ AllRead /\ said = <<>>
                      \/ ~Parser!Finished /\ \E a, b \in Places :
                            /\ a.left = said /\ Stands(a) /\ Path(emitter.opt.version, a, OnTheWay, b)
                            /\ result # "false" => Settled(b)
    RoundTripIInv == CatIInv /\ ReadIInv

At the end of the data `Settled` leaves nothing owed, so nothing is lost. No write has to succeed for the other theorems: a
failed one cuts the text short, and ckdl-cat stops.

*The merge sort.* One turn of the merge takes the lesser head and drops duplicates; the merge of two sorted runs is
sorted and holds the last value of each name; a pass over windows of any width does this for all windows, the last of
them shorter; each pass doubles the width of the sorted runs, until there is one. Holes lie behind everything else
after each merge, which is `HolesAreBehind`. The provers cannot use the library's induction over naturals, as it takes a
property as a parameter. `KdlProplistProofs` begins by deriving a first-order form, where a property is the set of
numbers that have it, from one fact of the library: that inclusion of finite sets is well-founded. That a loop written
as a recursive function has a value follows from it.

*Write buffers.* A push makes room for at least what it puts in (`PushKeepsRoom`): the larger of the increment and the
count, and four bytes for a code point that has at most four. What a list of pushes does is what its last one does after
all others (`PushedOnceMore`), so the bound is an invariant of `DataSpec`.

*The documents of the readers.* `PointersStayGood` needs to know where the readers are. `ReaderIInv` says that the nodes
of every list are numbered from 1 on (`IsDocument`), so that one more than their number is a new path; that the stack
holds one path of each length up to the depth of the events, each the latest of its list (`StackIsPath`); and that
`node_list` is where the stack ends and `current_node` there too, or NULL (`ListIsOnStack`). A new node goes into the list of
the last path on the stack, and all the lists that the stack's own nodes are in are shorter paths: so nothing comes behind
them. For `ReadersAgree`, all that the two readers have in hand is the same but `current_node` after an `END_NODE`
(`SameButCurrent`), and no entry comes there in the streams of `KdlData` (finding 1 shows that the parser can send one). That
nodes are open where entries and ends come is what `KdlEvents` promises, and what `Implementation` proves of the parser.

*Numbers in limbs.* A loop over limbs keeps, from each limb on, an equation between what the limbs are worth before and
after it and its carry (`CarriedOver`) or its remainder (`DividedIsWorth`); each is one line of arithmetic, and the rest is
that the carry fits (`CarryFits`) and that no zeros are left at the top (`Tidy`), without which the test for zero that ends
`_kdl_ubigint_as_string_sgn` would miss it. That its buffer is large enough is not in any one step: the number is below
`10^(MaxDecimals * limbs)`, each division leaves at most a tenth, so nothing is left when the buffer is full
(`NothingIsLeft`). As `Plus`, `Times`, `DividedBy`, `LongLong` and `Decimals` are recursive functions, that they have the values they
are defined by is shown first, each time by exhibiting a function that satisfies the definition. The theorem is about
`WholeNumber`, which all four notations share. No run states it in this form: `NumbersAreRead`, which TLC checks, also says
which words are numbers, and reads decimals.

*Values while the version is detected.* A token that both versions can read must be the same value in both. For keywords and
numbers the first characters decide (`WordsDiffer`), and a raw string has only one version. Strings in quotes are
the hard case: `kdl_unescape_v1` goes over the text once, v2 first takes out escaped whitespace, then goes over the lines, then
unescapes. What each makes of the rest of a text, from each position on, is compared by induction from its end: where
v1 reads an escape, the character after the backslash is no whitespace and no newline, so the first pass of v2 leaves the text
as it is, and each escape that both know means the same. That a new line may not be in quotes in v2 but may in v1, and
that `\/` and `\s` are known to one version only, just takes a version away.

*Strings that are escaped and read again.* What `kdl_escape_v` writes is put together of one part for each character, and
each part spells its character: it is the character itself, an escape of a letter, or one of a number (`Spells`). Three things
follow from that, in whichever mode the parts were written. The digits of a number are read as that number (`HexComesBack`):
what is left at each place is below sixteen times it, and the accumulator holds every code point. Read from its end, a part
adds its character to what the rest is read as (`SpellingIsResolved`), in both versions; so v1 reads the text as the string,
and v2 too, since nothing is removed from what v1 reads (`NothingIsRemoved`) and no newline is left (`NoNewlineIsLeft`). And between two parts
the number of backslashes before is even, so a quote in a part is always escaped and the one behind the last part never is
(`QuotesAreEscaped`): the token ends there, not before and not after it (`ClosedIsToken`). That the text is not lost between the parts, and where
each of them is in it, is `PartsAreInPlace`, a fact about `FlattenSeq` that the fold's definition gives step by step.

### The assumptions

They say what kind of value each constant is, and TLC evaluates them in the runs: `VocabularyAssumption`,
`VersionsAssumption`, `MaxBlocksAssumption` (parser); `TextsAssumption`, `OptionsAssumption`, `ValuesAssumption`,
`RoomsAssumption`, `MaxDepthAssumption` (emitter); `KeyTextsAssumption`, `MaxPropsAssumption` (ckdl-cat);
`DocumentsAssumption`, `IncrementAssumption` (tokenizer: documents are sequences of bytes, buffers grow by something);
`BufferIncrementAssumption`, `PushesAssumption` (write buffers: a code point has one to four bytes); `EventsAssumption` (the four
kinds of events of a document); `DigitBitsAssumption` (a limb holds every base), `LimbsAssumption` (one or two of them make a
`long long`), `MaxDecimalsAssumption` (a limb has no more decimal digits than are planned for): 32, 2 and 10 satisfy these, so
the theorems about limbs hold of the code's own sizes; `AccumulatorBitsAssumption` (every code point fits into the number that `\u{}` is
read into, as it does into 32 bits). Three say more. `PropertiesAssumption`: names are numbers other than the one that stands for NULL. `DetectAssumption`: the parser of
`KdlDetect` is one created with `KDL_DETECT_VERSION`, as without it there is nothing to compare.
`SpellingsAssumption`: what `KdlData` puts between quotes has no character that the tokenizer refuses there (`tokenizer.c:585`), as
`_parse_value` never sees one.

The theorems about the round trip but `RoundTripIsACat` have a hypothesis of their own, `WrittenAsMeant`: names, keys, annotations
and string values are written as lexemes that the version they are written in reads as strings, and other values
as lexemes it reads as values. It speaks of the constants alone, one string or value at a time. It cannot be left out, as finding 4
shows: without it the emitter writes a name `true` bare. What satisfies it is given by the lemma `MostIsMeant`: every set of texts
without keywords, words of one version and numbers, any values whose strings are such texts too, with infinities and NaN written
in v2 only, and all options. That covers the constants of run `round_trip`; run `round_trip_bare` has those that are left out.

### What is not proved

- Liveness under fairness is out of the prover's reach: `EndOfDataIsReported`, `ComesToAnEnd`.
- `ReadsTheWholeText`, that `KdlTokenizer` implements `KdlTokens`, is only model-checked: its mapping decodes bytes by
  recursion over their sequence, and where a token ends is defined over the whole text.
- Of `KdlData`, four properties are only model-checked. `UnescapesWhatIsWritten`, `DedentUndoesIndenting` and
  `DocumentComesBack` compare functions that are defined by recursion or by folds over data. `NumbersAreRead` is proved as
  far as `WholeNumbersAreExact` says: how underscores are skipped (`SelectSeq`) and which words are numbers stay with TLC, and
  so do decimals.

## Findings

1. *A dangling slashdash is not noticed at the end of its node, and an argument is delivered after the
   end of a node* (`parser.c:587`, `600`, run `reader_entries`). `n /-;` followed by a node `m a` is accepted:
   `/-` stays armed past `;` and hides the end of `n` and the start of `m`. In `n { a b } /- ;` then `m x` the
   argument `x` of a node whose start was hidden reaches the reader: the C++ reader adds it to `n`; the
   Python reader and ckdl-cat give it to `a` (ckdl-cat writes `n { a b x }`). A test document of the
   repository (`slashdash_before_semicolon_fail.kdl`) holds just `node foo /-;` and is rejected, but only by
   the check at the end of the data.
2. *Braces do not ask what waits* (`parser.c:613`, `418`, run `reader_waiting`). `n key= { c }` parses, and `key` is
   never reported; in `p { (a) }` then `q`, the annotation is delivered with `q`.
3. *Names and keys are lost* (`parser.c:678`, run `reader_strings`). The key of a property is assigned to `tmp_string_key`, which
   still owns the name of the node or the key before it; that string is never freed. `n a=1` loses `n`, and each
   further property loses the key of the one before. Built with an address sanitizer, the
   parser reports one lost string for each property read.
4. *Keywords and numbers are written bare* (`emitter.c:252`, run `round_trip_bare`). `_emit_bare_string` looks
   at characters only: a node named `true` is written as `true`, which is rejected, and ckdl-cat turns
   `n "true" "-5"` into `n true -5`, which v2 rejects and a detecting parser reads as other values.
   `emitter.h:13` says that identifiers are quoted "only if absolutely necessary"; here it is.

Beside these, the models and the reading of the code for them showed:

- *Numbers.* `1ee5` is read as 1e5, as the guard on a second mark asks for the wrong state (`parser.c:1033`). Integers from
  2^31 to 2^32-1 take the way round by a string needlessly (`bigint.c:91`). `.5` is accepted in detect mode only (`parser.c:869`).
- *Escapes.* `\u{100000041}` wraps and is read as `A` (`str.c:631`). `kdl_escape` for v2 leaves newlines alone without
  `KDL_ESCAPE_NEWLINE`, and the result cannot be quoted in v2 (`doc/ckdl-api.rst:152` says it can be). `kdl_unescape_v` for v2
  returns an empty string, not NULL, for a text with an illegal character (`str.c:363`); the parser never passes one.
  `kdl_escape_v1` escapes what lies beyond the last code point before it gets to refusing it (`str.c:187`, `194`).
- *Failed allocations.* In `_refill_tokenizer` one is reported as the end of the data (`tokenizer.c:91`): a document cut short
  by it between two nodes is accepted. Write buffers and `proplist_append` count their new size before `realloc` has
  succeeded (`str.c:63`, `ckdl-cat.c:180`) and use it afterwards.
- *C++.* `Document::to_string` reads the emitter's buffer before `kdl_emit_end`, so the last newline is missing (`kdlpp.cpp:216`);
  the parser and the emitter leak when `read_from` and `emit_nodes` throw (`kdlpp.cpp:239`, `215`).
- *Detection.* `KDL_TOKEN_MULTILINE_STRING`, unlike its neighbours, does not call `_set_version` (`parser.c:783`): a document with
  one (v2 only) and a bare `true` (v1 only) is accepted by `KDL_DETECT_VERSION` though no version accepts it. Without the
  condition `~loose`, TLC refutes `AcceptedInOneVersionIfSettled` with it.
- *Parser.* The test for a second annotation (`parser.c:384`, `696`) can never be true: it looks at the event being built
  and not at what waits. Nothing limits how deep a document nests, and `depth` is an `int`.

## Not modelled

- *Failed allocations*, outside `_refill_tokenizer`. Where the code does not survive them is listed above and in the hazards.
- *Rounding.* A double is compared as mantissa and power of ten; `_float_to_string` and the text of written numbers are
  abstracted to the kind of token they make, as are the escapes within written quotes in `KdlEmitter`. That quoted text
  comes back is `EscapedTextComesBack`, but the two are not composed character by character.
- *UTF-8.* Sequences of four bytes and the bits of a code point; a sequence of four differs from one of three only in
  length.
- *The tokenizer's strings.* Comments, and a token that was put back, point into the tokenizer's buffer; nothing is read from
  it before they are used, as the put-back token is handled first.
- *Bindings.* The conversions of `Value` and `Number` in C++ and of values in Python, and the Python `Emitter`, which pass
  on what they are given; to model them would restate them.
- *Tools.* `ckdl-parse-events` and `ckdl-tokenize` print what the parser and the tokenizer return; the command line of
  ckdl-cat. `reallocf`, type declarations and the tests.

## Plan

Built: all modules of the table above. Nothing of the plan is left.
