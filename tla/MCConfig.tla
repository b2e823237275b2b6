------------------------------ MODULE MCConfig ------------------------------
(* Lines and defaults for TLC. *)
EXTENDS Config

\* A well-formed line with so many semicolons.
Plain(k, n, v, s) ==
    [key |-> k, name |-> n, value |-> <<v>>, arity |-> TRUE, form |-> TRUE,
     known |-> TRUE, semis |-> s, semi |-> "end", more |-> <<>>]

\* The semicolon is followed by blanks and these words.
Inside(l, words) == [l EXCEPT !.semi = "inside", !.more = words]

Server == Plain("server", "", "", 0)
Location == Plain("location", "/a/", "", 0)
Close == Plain("}", "", "", 0)
Empty == Plain("", "", "", 0)

\* Blocks, ports, maps and what a location overrides; one of every other
\* keyword; lines of each kind that is nothing; mistakes; and lines that go on
\* after the semicolon, or begin with it.
MCLines ==
    {Server, Location, Close, Empty,
     Plain("#", "", "", 1), Plain("#", "", "", 2), Plain(";", "", "", 1),
     Plain("listen", "", "80", 1), Plain("listen", "", "81", 1),
     Plain("index", "", "x", 1), Plain("root", "", "r", 1),
     Plain("cgi", ".py", "p", 1), Plain("cgi", ".py", "q", 1),
     Plain("default_error_pages", "404", "e", 1),
     Plain("return", "301", "u", 1), Plain("accept_method", "", "PUT", 1),
     [Plain("accept_method", "", "PUSH", 1) EXCEPT !.known = FALSE],
     [Plain("host", "", "h", 1) EXCEPT !.form = FALSE],
     [Plain("listen", "", "", 1) EXCEPT !.arity = FALSE],
     [Location EXCEPT !.semis = 1], Plain("unknown", "", "", 1),
     Inside(Plain("index", "", "x", 1), <<"y">>),
     Inside(Plain("return", "301", "u", 1), <<>>),
     Inside(Plain("accept_method", "", "PUT", 1), <<>>),
     Inside(Plain(";", "", "", 1), <<>>),
     [Plain("root", "", "r", 1) EXCEPT !.semi = "front"]}

MCDefaults ==
    [k \in OfServer |->
        CASE k \in Mapped -> {} [] k = "listen" -> <<"80">>
          [] OTHER -> <<"default">>]
=============================================================================
