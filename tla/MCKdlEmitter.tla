---------------------------- MODULE MCKdlEmitter ----------------------------
(* Small sets of strings, values and options for the emitter. *)
EXTENDS KdlEmitter

AllOptions == [version : {"v1", "v2"}, identifier_mode : IdentifierModes, indent : BOOLEAN]

\* One value with a type annotation, one without.
SomeValues ==
    {[type |-> "NUMBER", text |-> "plain", type_annotation |-> None],
     [type |-> "STRING", text |-> "spaced", type_annotation |-> "plain"]}
==============================================================================
