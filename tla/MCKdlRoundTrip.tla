--------------------------- MODULE MCKdlRoundTrip ---------------------------
(* Strings, values and options for writing a document and reading it back. *)
EXTENDS KdlRoundTrip

DefaultOptions == [version : {"v2"}, identifier_mode : {"PREFER_BARE_IDENTIFIERS"},
                   indent : {TRUE}]
WithoutIndentation == [version : {"v2"}, identifier_mode : {"PREFER_BARE_IDENTIFIERS"},
                       indent : {FALSE}]
AllModes == [version : {"v1", "v2"}, identifier_mode : IdentifierModes, indent : {TRUE}]
            \cup WithoutIndentation

Plain(type) == [type |-> type, text |-> "plain", type_annotation |-> None]
String(of) == [type |-> "STRING", text |-> of, type_annotation |-> None]

\* Values other than infinities and strings that look like something else.
PlainValues ==
    {String("plain"), String("spaced"), String("newer"), Plain("NUMBER"), Plain("KEYWORD"),
     [String("plain") EXCEPT !.type_annotation = "spaced"],
     [Plain("NUMBER") EXCEPT !.type_annotation = "plain"]}

\* What the latest calls wrote is in `text` while it matters.
WithoutOutput == <<[emitter EXCEPT !.out = <<>>], nesting, fresh, latest, open, in_node_list,
                   props, result, parserVars, text, said>>

TwoKeys == <<"plain", "spaced">>
==============================================================================
