----------------------------- MODULE MCFilesystem -----------------------------
(* Values for the constants of Filesystem: two agents of one user, in two  *)
(* sessions; the second has no workspace. Both have read the shared file,  *)
(* so each has the checksum of a text that the other may change.           *)
EXTENDS Filesystem, TLC

MCNames  == {"u", "shared", "workspace", "w1", "d", "e", "f", "secret", "nowhere", ".."}
MCTokens == {"x", "y", LF, CRLF, Sep, Bin}

MCUserOf      == [a1 |-> "u", a2 |-> "u"]
MCWorkspaceOf == [a1 |-> <<"u", "w1">>, a2 |-> None]

MCOrder == <<"..", "d", "e", "f", "nowhere", "secret", "shared", "u", "w1", "workspace">>

Shared(rest) == <<"shared">> \o rest

MCPaths ==
  [a1 |-> {Shared(<<>>), Shared(<<"d">>), Shared(<<"f">>), Shared(<<"d", "f">>), <<"workspace", "f">>,
           Shared(<<"secret">>), <<"nowhere">>, Shared(<<"..", "f">>)},
   a2 |-> {Shared(<<"f">>), Shared(<<"d">>), <<"workspace", "f">>}]

MCTargets ==
  [a1 |-> {Shared(<<"d">>), Shared(<<"f">>), Shared(<<"d", "e">>)},
   a2 |-> {Shared(<<"d">>), Shared(<<"secret">>)}]

MCInputs == {<<"x", LF>>, <<"x", CRLF>>, <<"y">>, <<"y", Sep>>}
MCRanges == {None, Junk, <<1, 1>>, <<2, 2>>, <<1, 2>>}

Edit(action, lines, content) == [action |-> action, lines |-> lines, content |-> content]

MCEdits ==
  {Edit("append", None, <<"y">>), Edit("append", <<1, 1>>, <<"y">>), Edit("replace", None, <<"y">>),
   Edit("replace", <<1, 1>>, <<"y">>), Edit("insert_before", <<1, 1>>, <<"y">>),
   Edit("insert_after", <<1, 1>>, <<"y">>), Edit("delete_lines", <<2, 2>>, <<>>),
   Edit("replace", Junk, <<"y">>)}

MCStartTree ==
  << "u" >> :> Dir @@ <<"u", "shared">> :> Dir @@ <<"u", "w1">> :> Dir
  @@ <<"u", "shared", "secret">> :> Dir @@ <<"u", "shared", "secret", "f">> :> <<"x">>
  @@ <<"u", "w1", "f">> :> <<Bin>>
  @@ <<"u", "shared", "d">> :> Dir @@ <<"u", "shared", "f">> :> <<"x", LF>>

MCStartView == [a \in {"a1", "a2"} |-> [path |-> <<"u", "shared", "f">>, text |-> <<"x", LF>>]]
===============================================================================
