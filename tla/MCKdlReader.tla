----------------------------- MODULE MCKdlReader -----------------------------
(* Documents over the whole vocabulary, for TLC. *)
EXTENDS KdlStrings

AllTokens == Tokens
==============================================================================
