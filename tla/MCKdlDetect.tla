----------------------------- MODULE MCKdlDetect -----------------------------
(* Three parsers read documents over the whole vocabulary. *)
EXTENDS KdlDetect

AllTokens == Tokens

\* Of a parser that has rejected the document only that fact matters: no step
\* reads, and no property compares, the rest of its state.
NotRejected ==
    <<IF Rejects(event) THEN <<event>> ELSE parserVars,
      IF Rejects(event1) THEN <<event1>> ELSE vars1,
      IF Rejects(event2) THEN <<event2>> ELSE vars2,
      loose>>
==============================================================================
