------------------------------ MODULE MCService ------------------------------
(* A server for TLC: "/" is for reading, below "/g/" files are kept in the  *)
(* directory up, "/r/" redirects, and "/v/" has the same directory for its  *)
(* root, without a slash at the end.                                        *)
EXTENDS Service, TLC

MCPaths == {<<>>, <<"up">>, <<"e">>, <<"x">>, <<"upf">>, <<"up", "f">>,
            <<"up", "g">>, <<"up", "g", "f">>}

MCTree0 ==
    [p \in MCPaths |-> CASE p \in {<<>>, <<"up">>} -> Dir
                         [] p = <<"e">> -> "page"
                         [] p = <<"x">> -> "locked"
                         [] OTHER -> None]

MCExtension == [n \in Dotted |-> "."]

\* "u" stands for every name that is in no path.
MCGlued == [p \in Names \X Names |-> IF p = <<"up", "f">> THEN "upf" ELSE "u"]
MCCut == [n \in Names |-> IF n \in {"up", "upf", ".."} THEN "u" ELSE None]

Location(path, root, slash, accept, index) ==
    [path |-> path, root |-> [names |-> root, slash |-> slash], accept |-> accept,
     max |-> 2, index |-> index, autoindex |-> path = <<>>,
     redirect |-> path = <<"r">>, cgi |-> IF path = <<>> THEN {"py"} ELSE {}]

MCLocations ==
    {Location(<<>>, <<>>, TRUE, {"GET", "HEAD", "POST"}, "up"),
     Location(<<"g">>, <<"up">>, TRUE, {"GET", "PUT", "DELETE"}, "f"),
     Location(<<"v">>, <<"up">>, FALSE, {"GET", "PUT", "DELETE"}, "f"),
     Location(<<"r">>, <<>>, TRUE, {"GET"}, "e")}

MCErrorPages == [s \in {"404"} |-> <<"e">>]

Req(method, names, slash, length, query) ==
    [method |-> method, length |-> length,
     target |-> [names |-> names, slash |-> slash, query |-> query, ext |-> "py"]]

Get(names, slash) == Req("GET", names, slash, 0, "none")
Put(names, length) == Req("PUT", names, FALSE, length, "plain")
Delete(names, slash) == Req("DELETE", names, slash, 0, "none")

MCRequests ==
    {Get(<<"g">>, FALSE), Get(<<"x">>, FALSE), Get(<<"r">>, TRUE),
     Get(<<>>, TRUE), Req("HEAD", <<"e">>, FALSE, 0, "dotted"),
     Delete(<<"e">>, FALSE), Delete(<<"g", "f">>, FALSE), Delete(<<"g">>, TRUE),
     Put(<<"g">>, 1), Put(<<"g", "f">>, 2), Put(<<"g", "f">>, 3),
     Put(<<"g", "g", "..", "f">>, 1), Put(<<"g", "g">>, 0),
     Put(<<"v", "f">>, 0)}

Symmetry == Permutations(Client) \cup Permutations(Ino \ {"page", "locked"})
=============================================================================
