----------------------------- MODULE TypedRowsMC -----------------------------
(* A small instance of TypedRows for TLC.                                  *)
EXTENDS TypedRows

MCNames == <<1, 2>>
MCAttributes ==
  [name : {"row_key", "json", "with", "default", "rename"}, argument : {NoArgument}]
  \cup [name : {"family"}, argument : {"g"}]
  \cup [name : {"qualifier"}, argument : {2, BadLiteral}]
MCStructAttributes == {[name |-> "family", argument |-> "f"], [name |-> "json", argument |-> NoArgument]}
=============================================================================
