---------------------------- MODULE KdlRoundTrip ----------------------------
(***************************************************************************)
(* What ckdl-cat writes is read back by the parser.  The parser gets the   *)
(* lexemes of one call of the emitter before the next call is made: what   *)
(* it makes of a text does not depend on what will follow, so this is the  *)
(* same as reading the whole text in the end, and nothing has to be kept   *)
(* but the events that were written and have not been read back.           *)
(***************************************************************************)
EXTENDS KdlCat

VARIABLES
    mode, flags, depth, slashdash_depth, child_block_at_depth, version,
    waiting_type_annotation, waiting_prop_name, next_token, event, last, lexedAs,
    text,       \* lexemes written and not read
    said        \* events written and not read back

Parser == INSTANCE KdlParser WITH
    Vocabulary <- {}, Versions <- {"v1", "v2", "detect"}, MaxBlocks <- MaxDepth

parserVars == <<mode, flags, depth, slashdash_depth, child_block_at_depth, version,
                waiting_type_annotation, waiting_prop_name, next_token, event, last, lexedAs>>
roundTripVars == <<catVars, parserVars, text, said>>

\* The text is read as the version it was written in, or left to be detected.
RoundTripInit ==
    /\ CatInit
    /\ Parser!Init
    /\ version \in {emitter.opt.version, "detect"}
    /\ text = <<>>
    /\ said = <<>>

-----------------------------------------------------------------------------
Said(kind, type) == [kind |-> kind, annotated |-> type # None]
SaidProperties ==
    LET written == Emission(props) IN
    [i \in 1..Len(written) |-> Said("PROPERTY", written[i].value.type_annotation)]
SaidBefore == IF in_node_list THEN <<>> ELSE SaidProperties

AllRead == text = <<>> /\ next_token = Parser!NoToken

Written(says) ==
    /\ text' = emitter'.out
    /\ said' = said \o says
    /\ UNCHANGED parserVars

WriteOn(room) ==
    /\ AllRead /\ result = "reading"
    /\ \/ \E type \in Texts \cup {None}, name \in Texts :
              /\ CatStartNode(type, name, room)
              /\ Written(Append(SaidBefore, Said("START_NODE", type)))
       \/ CatEndNode(room) /\ Written(Append(SaidBefore, Said("END_NODE", None)))
       \/ \E v \in Values :
              CatArgument(v, room) /\ Written(<<Said("ARGUMENT", v.type_annotation)>>)
       \/ \E key \in Keys, v \in Values : CatProperty(key, v) /\ Written(<<>>)
       \/ CatEnd(room) /\ Written(<<>>)

ReadOn ==
    /\ ~AllRead
    /\ IF next_token = Parser!NoToken
       THEN /\ \/ Parser!Handle(Head(text))
               \/ ~Parser!InCharacterSet(Head(text)) /\ Parser!TokenizerError
            /\ text' = Tail(text)
       ELSE Parser!Handle(next_token) /\ text' = text

ReadEnd ==
    /\ AllRead /\ result = "true"
    /\ Parser!EofInNode \/ Parser!EofOutsideNode
    /\ text' = text

\* A step of the parser that gives an event.
ReadsBack == (~AllRead \/ result = "true") /\ event'.kind # "NONE"

Read ==
    /\ ReadOn \/ ReadEnd
    /\ said' = IF ReadsBack /\ said # <<>> THEN Tail(said) ELSE said
    /\ UNCHANGED catVars

RoundTripNext ==
    \/ \E room \in Rooms : WriteOn(room)
    \/ Read
    \/ Parser!Finished /\ UNCHANGED roundTripVars

RoundTripSpec == RoundTripInit /\ [][RoundTripNext]_roundTripVars

-----------------------------------------------------------------------------
\* Everything the parser reports is what was written, in the order it was written,
\* with the type annotation it was written with.
ReadsWhatWasWritten ==
    [][ReadsBack /\ event'.kind \notin {"EOF", "PARSE_ERROR"}
        => /\ said # <<>>
           /\ event'.kind = Head(said).kind
           /\ event'.annotated = Head(said).annotated
           /\ ~event'.slashdashed]_<<parserVars, said>>

\* Nothing that was written is left out.
ReadsAllThatWasWritten == event.kind = "EOF" => said = <<>>

\* emitter.h:13 of the identifier modes: "quote identifiers only if absolutely
\* necessary".  Where it is necessary they are quoted: the text is never rejected.
WrittenTextIsAccepted == event.kind # "PARSE_ERROR"
==============================================================================
