----------------------------- MODULE MCServerDB -----------------------------
(* Instances of ServerDB for TLC. *)
EXTENDS ServerDB

\* A key and its child, and a key whose pattern, by its case and by its
\* underscore, matches the child too.
MCKey ==
  {<<"/", "a", "b">>, <<"/", "a", "b", "/", "c">>, <<"/", "A", "_">>}
MCValue == {"v", "VALUE"}
MCColumn == [v \in {"VALUE"} |-> "value"]
=============================================================================
