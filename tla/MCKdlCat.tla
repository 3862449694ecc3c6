------------------------------ MODULE MCKdlCat ------------------------------
(* Few strings, values and options for ckdl-cat. *)
EXTENDS KdlCat

AllOptions == [version : {"v1", "v2"}, identifier_mode : {"PREFER_BARE_IDENTIFIERS"},
               indent : {TRUE}]

Number == [type |-> "NUMBER", text |-> "plain", type_annotation |-> None]
Annotated == [type |-> "STRING", text |-> "spaced", type_annotation |-> "plain"]

SomeValues == {Number, Annotated}
TwoKeys == <<"spaced", "plain">>
==============================================================================
