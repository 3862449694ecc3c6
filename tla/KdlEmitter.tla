----------------------------- MODULE KdlEmitter -----------------------------
(***************************************************************************)
(* The emitter of src/emitter.c as operators on its state: each kdl_emit_* *)
(* function takes a state of the emitter and gives the state after it.     *)
(*                                                                         *)
(* What is written is a sequence of lexemes: the tokens the text would be  *)
(* read as.  The write function may fail: the sink takes `room` more       *)
(* lexemes and then no more.  Every operator leaves a state alone in which *)
(* a write has failed (`ok` is FALSE), as the && in the code does.         *)
(***************************************************************************)
EXTENDS Integers, Sequences, FiniteSets, SequencesExt

CONSTANTS
    Texts,      \* the kinds of string that names and values are made of
    Options     \* kdl_emitter_options emitters may be created with

(***************************************************************************)
(*   plain      may be bare in both versions (node)                        *)
(*   unicode    the same, but not in ASCII                                 *)
(*   spaced     must be quoted in both                                     *)
(*   newer      has characters that are no identifier's in v1 (a,b)        *)
(*   hash       has # in it: no identifier in v2                           *)
(*   keyword    true, false, null                                          *)
(*   special    inf, nan                                                   *)
(*   numeric    looks like a number with a sign (-5)                       *)
(***************************************************************************)
TextKinds == {"plain", "unicode", "spaced", "newer", "hash", "keyword", "special", "numeric"}

IdentifierModes == {"PREFER_BARE_IDENTIFIERS", "QUOTE_ALL_IDENTIFIERS", "ASCII_IDENTIFIERS"}

ASSUME TextsAssumption == Texts \subseteq TextKinds
ASSUME OptionsAssumption ==
    Options \subseteq [version : {"v1", "v2"}, identifier_mode : IdentifierModes,
                       indent : BOOLEAN]       \* is a level indented at all?

None == "none"      \* no type annotation

Lexeme(type, class) == [type |-> type, class |-> class]
Mark(type) == Lexeme(type, "none")

-----------------------------------------------------------------------------
\* An emitter: the fields of struct _kdl_emitter, what its latest calls wrote, how
\* much more the sink takes, what they returned, and whether any write ever failed.
NewEmitter(opt) ==
    [opt |-> opt, depth |-> 0, start_of_line |-> TRUE,
     out |-> <<>>, room |-> 0, ok |-> TRUE, broken |-> FALSE]

\* The emitter at the start of a sequence of calls, and at its end.
Calling(e, room) == [e EXCEPT !.out = <<>>, !.room = room, !.ok = TRUE]
Called(e) == [e EXCEPT !.room = 0]

Write(e, lexemes) ==
    LET taken == IF Len(lexemes) <= e.room THEN Len(lexemes) ELSE e.room IN
    IF e.ok THEN [e EXCEPT !.out = @ \o SubSeq(lexemes, 1, taken),
                           !.room = @ - taken,
                           !.ok = taken = Len(lexemes),
                           !.broken = @ \/ taken < Len(lexemes)]
            ELSE e

-----------------------------------------------------------------------------
\* _emit_bare_string: is every character an identifier's?  Nothing asks whether the
\* whole is a keyword or a number.
IsIdentifier(text, version) ==
    text \in {"plain", "unicode", "keyword", "special", "numeric"} \cup
             (IF version = "v1" THEN {"hash"} ELSE {"newer"})

WordClass ==
    [plain |-> "either", unicode |-> "either", keyword |-> "keywordV1",
     special |-> "onlyV1", numeric |-> "number", hash |-> "onlyV1", newer |-> "onlyV2"]

QuotedString == Lexeme("STRING", "either")

\* Mutant of BareString: only asks for identifier characters of v2.
BareStringV2(text, opt) ==
    IF /\ opt.identifier_mode # "QUOTE_ALL_IDENTIFIERS"
       /\ IsIdentifier(text, "v2")
    THEN Lexeme("WORD", WordClass[text]) ELSE QuotedString

BareString(text, opt) ==
    IF /\ opt.identifier_mode # "QUOTE_ALL_IDENTIFIERS"
       /\ IsIdentifier(text, opt.version)
       /\ opt.identifier_mode = "ASCII_IDENTIFIERS" => text # "unicode"
    THEN Lexeme("WORD", WordClass[text]) ELSE QuotedString

\* A value: its type, its text if it is a string, and its type annotation.
ValueLexeme(v, opt) ==
    CASE v.type = "STRING" /\ opt.version = "v1" -> QuotedString
      [] v.type = "STRING" /\ opt.version = "v2" -> BareString(v.text, opt)
      [] v.type = "NUMBER"   -> Lexeme("WORD", "number")
      [] v.type = "INFINITE" -> Lexeme("WORD", "keywordV2")     \* #inf in v1 too
      [] v.type = "KEYWORD"  ->
             Lexeme("WORD", IF opt.version = "v1" THEN "keywordV1" ELSE "keywordV2")

Annotation(text, opt) ==
    IF text = None THEN <<>>
    ELSE <<Mark("START_TYPE"), BareString(text, opt), Mark("END_TYPE")>>

Value(v, opt) == Append(Annotation(v.type_annotation, opt), ValueLexeme(v, opt))

-----------------------------------------------------------------------------
Indentation(e) == IF e.opt.indent /\ e.depth > 0 THEN <<Mark("WHITESPACE")>> ELSE <<>>

\* _emit_node_preamble
Preamble(e) ==
    LET written == Write(e, (IF e.start_of_line THEN <<>> ELSE <<Mark("NEWLINE")>>)
                            \o Indentation(e)) IN
    IF written.ok THEN [written EXCEPT !.start_of_line = FALSE] ELSE written

\* kdl_emit_node, kdl_emit_node_with_type
EmitNode(e, type, name) ==
    Write(Preamble(e), Append(Annotation(type, e.opt), BareString(name, e.opt)))

EmitArg(e, v) == Write(e, <<Mark("WHITESPACE")>> \o Value(v, e.opt))

EmitProperty(e, name, v) ==
    Write(e, <<Mark("WHITESPACE"), BareString(name, e.opt), Mark("EQUALS")>>
             \o Value(v, e.opt))

\* Mutants of StartEmittingChildren: the level is not counted; the flag for the start of
\* the line is forgotten.
StartEmittingChildrenUncounted(e) ==
    IF ~e.ok THEN e
    ELSE Write([e EXCEPT !.start_of_line = TRUE],
               <<Mark("WHITESPACE"), Mark("START_CHILDREN"), Mark("NEWLINE")>>)

StartEmittingChildrenMidLine(e) ==
    IF ~e.ok THEN e
    ELSE Write([e EXCEPT !.depth = @ + 1],
               <<Mark("WHITESPACE"), Mark("START_CHILDREN"), Mark("NEWLINE")>>)

StartEmittingChildren(e) ==
    IF ~e.ok THEN e
    ELSE Write([e EXCEPT !.start_of_line = TRUE, !.depth = @ + 1],
               <<Mark("WHITESPACE"), Mark("START_CHILDREN"), Mark("NEWLINE")>>)

\* Mutant of FinishEmittingChildren: children that were never started are finished.
FinishEmittingChildrenUnstarted(e) ==
    IF ~e.ok THEN e
    ELSE LET line == Preamble([e EXCEPT !.depth = @ - 1]) IN
         IF line.ok THEN Write([line EXCEPT !.start_of_line = TRUE],
                               <<Mark("END_CHILDREN"), Mark("NEWLINE")>>)
                    ELSE line

FinishEmittingChildren(e) ==
    IF ~e.ok THEN e
    ELSE IF e.depth = 0 THEN [e EXCEPT !.ok = FALSE]
    ELSE LET line == Preamble([e EXCEPT !.depth = @ - 1]) IN
         IF line.ok THEN Write([line EXCEPT !.start_of_line = TRUE],
                               <<Mark("END_CHILDREN"), Mark("NEWLINE")>>)
                    ELSE line

\* The emitter after each turn of kdl_emit_end's loop over the levels that are open.
Closing(e) ==
    LET closed[n \in 0..e.depth] ==
            IF n = 0 THEN e ELSE FinishEmittingChildren(closed[n - 1]) IN
    closed

\* Mutant of EmitEnd: the newline is written only when blocks were left open.
EmitEndOfBlocks(e) == Closing(e)[e.depth]

EmitEnd(e) ==
    LET all == Closing(e)[e.depth]
        line == Write(all, <<Mark("NEWLINE")>>) IN
    IF ~all.ok \/ all.start_of_line THEN all
    ELSE IF line.ok THEN [line EXCEPT !.start_of_line = TRUE]
    ELSE line

-----------------------------------------------------------------------------
(***************************************************************************)
(* An emitter and what its sink has taken.                                 *)
(***************************************************************************)
VARIABLES
    emitter,    \* the emitter
    nesting,    \* braces opened minus braces closed in what was written
    fresh,      \* the last thing written is a newline, or nothing is written yet
    latest      \* the latest call, or the latest event its caller acted on

sinkVars == <<emitter, nesting, fresh>>
emitterVars == <<sinkVars, latest>>

Count(type, lexemes) == Cardinality({i \in 1..Len(lexemes) : lexemes[i].type = type})

\* The state after the calls that ended in e.  Once a write has failed, what the text
\* is like is no longer tracked.
Emitted(e) ==
    /\ emitter' = Called(e)
    /\ nesting' = IF e.broken THEN 0
                  ELSE nesting + Count("START_CHILDREN", e.out)
                               - Count("END_CHILDREN", e.out)
    /\ fresh' = IF e.broken \/ e.out = <<>> THEN fresh ELSE Last(e.out).type = "NEWLINE"

SinkInit ==
    /\ emitter \in {NewEmitter(opt) : opt \in Options}
    /\ nesting = 0
    /\ fresh = TRUE

EmitterInit == SinkInit /\ latest = "created"

\* The order doc/ckdl-api.rst asks for: arguments and properties are "for a node",
\* children are "for the previous node".  Everything else may come at any time, also
\* after a call that has failed.
AtNode == latest \in {"node", "arg", "property"}

Call(name, e) == Emitted(e) /\ latest' = name

CONSTANTS
    Values,     \* the values written
    Rooms,      \* how much the sink may take in one step
    MaxDepth    \* bound: children are started at most this deep

ASSUME ValuesAssumption ==
    Values \subseteq [type : {"STRING", "NUMBER", "INFINITE", "KEYWORD"},
                      text : TextKinds, type_annotation : TextKinds \cup {None}]
ASSUME RoomsAssumption == Rooms \subseteq Nat
ASSUME MaxDepthAssumption == MaxDepth \in Nat

EmitterNext ==
    \E room \in Rooms :
        LET e == Calling(emitter, room) IN
        \/ \E name \in Texts, type \in Texts \cup {None} :
               Call("node", EmitNode(e, type, name))
        \/ AtNode /\ \E v \in Values : Call("arg", EmitArg(e, v))
        \/ AtNode /\ \E name \in Texts, v \in Values :
               Call("property", EmitProperty(e, name, v))
        \/ /\ AtNode /\ emitter.depth < MaxDepth
           /\ Call("start children", StartEmittingChildren(e))
        \/ Call("finish children", FinishEmittingChildren(e))
        \/ Call("end", EmitEnd(e))

EmitterSpec == EmitterInit /\ [][EmitterNext]_emitterVars

-----------------------------------------------------------------------------
EmitterTypeOK ==
    /\ emitter.opt \in Options
    /\ emitter.depth \in 0..MaxDepth
    /\ emitter.start_of_line \in BOOLEAN
    /\ emitter.ok \in BOOLEAN
    /\ emitter.broken \in BOOLEAN
    /\ nesting \in Int
    /\ fresh \in BOOLEAN

\* As long as every write has gone through, the braces open in the text are the
\* levels the emitter counts: `depth` is moved before the writes, so the two agree
\* only because no path writes one brace more or less.
BracesMatchDepth == ~emitter.broken => nesting = emitter.depth

\* As long as every write has gone through, start_of_line says whether the text
\* ends in a newline: several functions write newlines, each sets the flag on its own.
LineStartIsKnown == ~emitter.broken => (emitter.start_of_line <=> fresh)

\* doc/ckdl-api.rst of kdl_emit_end: "Finish the document: write a final newline if
\* required".  When it returns true the text is closed and ends in a newline, unless
\* an earlier call had already failed.
EndFinishesTheText ==
    [][latest' = "end" /\ emitter'.ok /\ ~emitter'.broken
        => nesting' = 0 /\ fresh']_emitterVars
==============================================================================
