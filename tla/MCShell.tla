------------------------------ MODULE MCShell ------------------------------
(* Instances of Shell for TLC. *)
EXTENDS Shell

S == Slash
\* Paths of up to three parts, doubled slashes, and malformed keys.
MCRawKey ==
  {<<S>>, <<S, "a">>, <<S, S, S, "a">>, <<S, "b">>, <<S, "b", S, "a">>,
   <<S, "b", S, S, "a">>, <<S, "a", S>>, <<"a">>, <<S, "*">>,
   <<S, "b", S, "a", S, "c">>, <<S, S, "b", S, S, S, "a", S, "b">>}
MCBesideKey == {<<S, "a">>}
MCValue == {"v"}

typedLine(words) == [words |-> words, fits |-> TRUE]
MCLine ==
  {typedLine(<<"create", <<S, "a">>, "v">>),
   typedLine(<<"set", <<S, S, "a">>, "w">>),
   typedLine(<<"remove", <<S, "a">>>>),
   typedLine(<<"get", <<S, "a">>>>),
   typedLine(<<"list", <<S>>>>),
   typedLine(<<"set", <<S, "a">>>>),
   typedLine(<<"exit">>),
   [words |-> <<"set", <<S, "a">>, "v">>, fits |-> FALSE]}
=============================================================================
