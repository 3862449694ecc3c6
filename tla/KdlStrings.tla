----------------------------- MODULE KdlStrings -----------------------------
(***************************************************************************)
(* Who owns the strings in an event.  The parser of KdlReader, with its    *)
(* four owned strings: what a handler reads is put into one of them, moved *)
(* to another, or freed by the next value read into it (parser.c).  What   *)
(* the caller gets, and the annotation that waits, only borrows.           *)
(*                                                                         *)
(* A string is named by its owner, and a pointer by the string it points   *)
(* to.  When the owner changes, so do the pointers to it; one that has     *)
(* been freed, or has no owner any more, stays "freed" or "lost".          *)
(***************************************************************************)
EXTENDS KdlReader

Owners == {"tmp_string_type", "tmp_string_key", "tmp_string_value", "waiting_prop_name"}
Pointers == {"name", "type_annotation", "string", "waiting_type_annotation"}

VARIABLE strings    \* owned: the owners that are not NULL; to: what pointers point to;
                    \* lost: the step being taken has left a string without owner

stringsVars == <<readerVars, strings>>

NoStrings == [owned |-> {}, to |-> [p \in Pointers |-> "none"], lost |-> FALSE]

\* The pointers to a string, once it is what fate says.
Redirected(to, string, fate) ==
    [p \in Pointers |-> IF to[p] = string THEN fate ELSE to[p]]

\* kdl_free_string
FreeString(s, owner) ==
    [s EXCEPT !.owned = @ \ {owner}, !.to = Redirected(@, owner, "freed")]

\* One owner is assigned another, which is then NULL.  What it owned is not freed.
MoveString(s, from, to) ==
    [owned |-> (s.owned \ {from, to}) \cup (IF from \in s.owned THEN {to} ELSE {}),
     to |-> Redirected(Redirected(s.to, to, "lost"), from, to),
     lost |-> s.lost \/ to \in s.owned]

Point(s, pointer, owner) == [s EXCEPT !.to[pointer] = owner]

\* _parse_value: what was in the owner is freed first.  Numbers, keywords and the like
\* leave it at that, unless they are kept as text.
ParseValue(s, owner, isText) ==
    IF isText THEN [FreeString(s, owner) EXCEPT !.owned = @ \cup {owner}]
              ELSE FreeString(s, owner)

\* _reset_event, at the start of a call and after an event that has been eaten: a turn
\* that makes no event leaves no pointers in it either.
ResetEvent(s) ==
    [s EXCEPT !.to = [p \in Pointers |-> IF p = "waiting_type_annotation" THEN @[p] ELSE "none"],
              !.lost = FALSE]

\* An event takes the annotation that waits, if one does.
TakeAnnotation(s) ==
    Point(Point(s, "type_annotation", s.to["waiting_type_annotation"]),
          "waiting_type_annotation", "none")

-----------------------------------------------------------------------------
(***************************************************************************)
(* What the handlers that read a value do with it.                         *)
(***************************************************************************)
\* Mutant of ReadAnnotation: the buffer of values is used for annotations too.
ReadAnnotationAsValue(s) ==
    Point(ParseValue(s, "tmp_string_value", TRUE), "waiting_type_annotation", "tmp_string_value")

ReadAnnotation(s) ==
    Point(ParseValue(s, "tmp_string_type", TRUE), "waiting_type_annotation", "tmp_string_type")

ReadNodeName(s) ==
    TakeAnnotation(Point(ParseValue(s, "tmp_string_key", TRUE), "name", "tmp_string_key"))

KeepPossibleKey(s) ==
    MoveString(ParseValue(s, "tmp_string_value", TRUE), "tmp_string_value", "waiting_prop_name")

ReturnPossibleKey(s) ==
    Point(MoveString(s, "waiting_prop_name", "tmp_string_value"), "string", "tmp_string_value")

ReadArgument(s, isText) ==
    TakeAnnotation(Point(ParseValue(s, "tmp_string_value", isText),
                         "string", IF isText THEN "tmp_string_value" ELSE "none"))

ReadProperty(s, isText) ==
    Point(MoveString(ReadArgument(s, isText), "waiting_prop_name", "tmp_string_key"),
          "name", "tmp_string_key")

\* Whether a value is a text: a number may be kept as one.
TextOrNot(tok) ==
    IF tok.class = "number" THEN BOOLEAN ELSE {Reading(tok.class, version) = "string"}

Began(flag) == flag \in flags' \ flags
Ended(flag) == flag \in flags \ flags'

\* The step's effect on the strings, after the handler that it was.  A value that is
\* refused has been freed, but a failed parser is not used again.
Track(tok) ==
    LET s == ResetEvent(strings) IN
    CASE event'.kind = "NONE" /\ Ended("TYPE_ANNOTATION_START") -> strings' = ReadAnnotation(s)
      [] event'.kind = "NONE" /\ Began("MAYBE_IN_PROPERTY") -> strings' = KeepPossibleKey(s)
      [] event'.kind = "START_NODE" -> strings' = ReadNodeName(s)
      [] event'.kind = "ARGUMENT" /\ Ended("MAYBE_IN_PROPERTY") -> strings' = ReturnPossibleKey(s)
      [] event'.kind = "ARGUMENT" /\ ~Ended("MAYBE_IN_PROPERTY") ->
            \E isText \in TextOrNot(tok) : strings' = ReadArgument(s, isText)
      [] event'.kind = "PROPERTY" ->
            \E isText \in TextOrNot(tok) : strings' = ReadProperty(s, isText)
      [] OTHER -> strings' = s

StringsInit == ReaderInit /\ strings = NoStrings

StringsStep ==
    \/ \E tok \in Vocabulary : Handle(tok) /\ Track(tok)
    \/ EofInNode /\ Track(EndOfInput)
    \/ next_token = EndOfInput /\ Handle(EndOfInput) /\ Track(EndOfInput)
    \/ EofOutsideNode /\ Track(EndOfInput)
    \/ TokenizerError /\ Track(NoToken)

StringsNext == (StringsStep /\ Deliver) \/ (Stopped /\ UNCHANGED strings)

\* The reader's fairness; whatever a step does to the strings, it can be taken.
StringsSpec == StringsInit /\ [][StringsNext]_stringsVars /\ Fairness

-----------------------------------------------------------------------------
\* parser.h:57, of the event that is returned: "invalidated on the next call".  Until
\* then its strings, which were read by several handlers in several turns, are where it
\* points to, and an annotation that still waits is too.
EventStringsLive ==
    /\ \A p \in Pointers : strings.to[p] \in strings.owned \cup {"none"}
    /\ event.kind \in {"START_NODE", "PROPERTY"} => strings.to["name"] # "none"
    /\ event.annotated => strings.to["type_annotation"] = "tmp_string_type"
    /\ waiting_type_annotation <=> strings.to["waiting_type_annotation"] # "none"

(***************************************************************************)
(* Stated by the repository and refuted: see the findings in README.md.    *)
(***************************************************************************)

\* common.h:44, of owned strings: "Should be destroyed using kdl_free_string".  No string
\* loses its only owner.
NoStringIsLost == ~strings.lost
==============================================================================
