------------------------------- MODULE Config -------------------------------
(***************************************************************************)
(* The configuration file is read twice: Parser::check_config_validation   *)
(* judges every line, and Parser::parsing then builds the servers, relying *)
(* on that judgement.  The two passes are separate programs that split a   *)
(* line in different ways: the first looks at the words before the         *)
(* semicolon, the second at all the words between blanks.                  *)
(*                                                                         *)
(* A line is what the two passes tell apart of it:                         *)
(*   key     its first word, Blank for an empty line, "#" for a comment,   *)
(*           ";" for a line of a semicolon only                            *)
(*   name    its second word, where it names a path or an entry of a map   *)
(*   value   the rest of its words, up to the semicolon                    *)
(*   arity   whether their number is what the keyword asks                 *)
(*   form    whether they have the form it asks: a number, an address, a   *)
(*           lower-case extension, "on" or "off", a "{"                    *)
(*   known   whether the methods of an accept_method are known             *)
(*   semis   the semicolons, counted up to 2                               *)
(*   semi    where the one semicolon stands: at the "end" of the line (or  *)
(*           nowhere), in "front" of it, or "inside", written at the word  *)
(*           before it and followed by blanks or more words                *)
(*   more    the words that follow it                                      *)
(*                                                                         *)
(* The file is written as the first pass reads it, up to MaxLines.         *)
(***************************************************************************)
EXTENDS Integers, SequencesExt

CONSTANTS
    Lines,      \* the lines of a file
    MaxLines,   \* the longest file
    Defaults    \* the fields of a Server just constructed, by keyword

\* Keywords with one value, and with a map from name to value.
Single == {"listen", "host", "server_name", "root", "index", "autoindex",
           "client_max_body_size"}
Mapped == {"cgi", "default_error_pages"}

\* Keywords of a server block, and of a location block.
OfServer   == Single \cup Mapped
OfLocation == {"root", "autoindex", "client_max_body_size", "return", "index",
               "accept_method", "cgi"}

ASSUME ConfigAssumption ==
    /\ MaxLines \in Nat
    /\ DOMAIN Defaults = OfServer
    /\ \A k \in Mapped : Defaults[k] = {}

VARIABLES
    phase,     \* "validate" and "parse", then "done", "invalid" or "fault"
    file,      \* the lines the first pass has read
    set,       \* a server line has been seen
    depth,     \* length of bracket_stack
    inLoc,     \* the pass is in its loop over a location block
    at,        \* lines the second pass has read
    servers,   \* server_list: fields and locations of each server
    loc        \* loc_temp: the location being read

vars == <<phase, file, set, depth, inLoc, at, servers, loc>>

Blank == ""
AllowedMethods == <<"GET", "HEAD">>    \* of a location that names none

NewServer == [fields |-> Defaults, locs |-> <<>>]

\* A location takes over what its server has so far.
NewLocation(l, fields) ==
    [path   |-> l.name,
     fields |-> [k \in OfLocation |->
                    CASE k = "accept_method" -> AllowedMethods
                      [] k = "return"        -> {}
                      [] OTHER               -> fields[k]]]

Init ==
    /\ phase = "validate" /\ file = <<>> /\ set = FALSE /\ depth = 0
    /\ inLoc = FALSE /\ at = 0 /\ servers = <<>>
    /\ loc = NewLocation([name |-> Blank], Defaults)

-----------------------------------------------------------------------------
(***************************************************************************)
(* The first pass                                                          *)
(***************************************************************************)

\* Too many semicolons are an error even in a comment.
IsNothing(l) == l.key \in {Blank, "#", ";"} /\ l.semis < 2

\* A directive, and a line that opens a block.
WellFormed(l) == l.semis = 1 /\ l.arity /\ l.form
Opens(l) == l.semis = 0 /\ l.arity /\ l.form

IsServer(l) == ~inLoc /\ l.key = "server" /\ Opens(l)
IsLocation(l) == ~inLoc /\ set /\ l.key = "location" /\ Opens(l)

\* Slip: a directive before the first server is let through.
IsDirective_Anywhere(l) ==
    /\ l.key \in (IF inLoc THEN OfLocation ELSE OfServer)
    /\ WellFormed(l)

\* Methods are not looked at.
IsDirective(l) ==
    /\ set /\ l.key \in (IF inLoc THEN OfLocation ELSE OfServer)
    /\ WellFormed(l)

\* Slip: an empty bracket_stack is popped.
IsClose_Unchecked(l) == set /\ l.key = "}" /\ l.semis = 0

\* "}" leaves the location, or closes a block outside one.
IsClose(l) == set /\ l.key = "}" /\ l.semis = 0 /\ depth > 0

Validate(l) ==
    /\ phase = "validate" /\ Len(file) < MaxLines
    /\ file' = Append(file, l)
    /\ UNCHANGED <<at, servers, loc>>

Pass(l) ==
    /\ Validate(l)
    /\ IsNothing(l) \/ IsDirective(l)
    /\ UNCHANGED <<phase, set, depth, inLoc>>

OpenBlock(l) ==
    /\ Validate(l)
    /\ IsServer(l) \/ IsLocation(l)
    /\ set' = TRUE /\ depth' = depth + 1 /\ inLoc' = IsLocation(l)
    /\ UNCHANGED phase

CloseBlock(l) ==
    /\ Validate(l)
    /\ IsClose(l)
    /\ depth' = depth - 1 /\ inLoc' = FALSE
    /\ UNCHANGED <<phase, set>>

\* Any other line throws InvalidConfigFile.
Reject(l) ==
    /\ Validate(l)
    /\ ~(IsNothing(l) \/ IsDirective(l) \/ IsServer(l) \/ IsLocation(l)
            \/ IsClose(l))
    /\ phase' = "invalid"
    /\ UNCHANGED <<set, depth, inLoc>>

\* Every bracket must be closed.
Balanced == depth = 0

\* The end of the file, wherever it comes.
EndOfFile ==
    /\ phase = "validate"
    /\ phase' = IF Balanced THEN "parse" ELSE "invalid"
    /\ inLoc' = FALSE
    /\ UNCHANGED <<file, set, depth, at, servers, loc>>

-----------------------------------------------------------------------------
(***************************************************************************)
(* The second pass                                                         *)
(***************************************************************************)

Line == file[at + 1]
Back == servers[Len(servers)]    \* server_list.back()

Read ==
    /\ phase = "parse" /\ at < Len(file) /\ at' = at + 1
    /\ UNCHANGED <<file, set, depth>>

\* A semicolon in front is part of the first word, which is no keyword then.
Parse == Read /\ Line.semi # "front"

\* A location takes the semicolon off a line that ends with it, so that one of
\* a semicolon only is nothing there.
Bare == inLoc /\ Line.key = ";" /\ Line.semi = "end"

\* A line without a place for it.
Unknown ==
    \/ Line.semi = "front"
    \/ /\ ~Bare
       /\ Line.key \notin {Blank, "#", "}"} \cup
              (IF inLoc THEN OfLocation ELSE {"server", "location"} \cup OfServer)

\* accept_method: one of the words is no method, as one with a semicolon.
NoMethod ==
    inLoc /\ Line.key = "accept_method" /\ (~Line.known \/ Line.semi = "inside")

\* Slip: the ports of the other servers are not looked at.
PortTaken_Never == FALSE

\* listen: an earlier server has that port.
PortTaken ==
    /\ ~inLoc /\ Line.key = "listen"
    /\ \E i \in 1..(Len(servers) - 1) :
          servers[i].fields["listen"] = Line.value

Throw ==
    /\ Read
    /\ Unknown \/ PortTaken \/ NoMethod
    /\ phase' = "invalid"
    /\ UNCHANGED <<inLoc, servers, loc>>

\* back() of no servers and a word that is not there are undefined.
Defined == servers # <<>> /\ Line.arity

ParseNothing ==
    /\ Parse
    /\ \/ Bare
       \/ Line.key \in {Blank, "#"}
       \/ ~inLoc /\ Line.key = "}"
    /\ UNCHANGED <<phase, inLoc, servers, loc>>

ParseServer ==
    /\ Parse /\ ~inLoc /\ Line.key = "server"
    /\ servers' = Append(servers, NewServer)
    /\ UNCHANGED <<phase, inLoc, loc>>

\* What a line adds to a map.  A location keeps the semicolon of a return
\* line unless it ends the line.
Entry(l) ==
    <<l.name, IF l.key = "return" /\ l.semi = "inside" THEN Append(l.value, ";")
              ELSE l.value>>

\* map.insert keeps an entry that is there.
Inserted(map, l) ==
    IF \E e \in map : e[1] = l.name THEN map ELSE map \cup {Entry(l)}

\* What a server takes from a line: index goes on after the semicolon.
Value(l) == IF l.key = "index" THEN l.value \o l.more ELSE l.value

\* What a location takes from it, index with the semicolon.
LocationValue(l) ==
    IF l.key = "index" /\ l.semi = "inside" THEN Append(l.value, ";") \o l.more
    ELSE l.value

\* The fields of a server after a directive.  get_root and get_server_name
\* return copies, and what is assigned to a copy is lost.
Updated(fields, l) ==
    [fields EXCEPT ![l.key] =
        IF l.key \in Mapped THEN Inserted(@, l)
        ELSE IF l.key \in {"root", "server_name"} THEN @ ELSE Value(l)]

ParseDirective ==
    /\ Parse /\ ~inLoc /\ Line.key \in OfServer /\ ~PortTaken
    /\ IF Defined
       THEN /\ servers' = [servers EXCEPT ![Len(servers)].fields =
                                              Updated(@, Line)]
            /\ UNCHANGED phase
       ELSE phase' = "fault" /\ UNCHANGED servers
    /\ UNCHANGED <<inLoc, loc>>

\* Slip: the location takes over the defaults.
Inherited_Defaults == Defaults

\* What a location takes over: its server's fields, as read so far.
Inherited == Back.fields

ParseLocation ==
    /\ Parse /\ ~inLoc /\ Line.key = "location"
    /\ IF Defined
       THEN loc' = NewLocation(Line, Inherited) /\ UNCHANGED phase
       ELSE phase' = "fault" /\ UNCHANGED loc
    /\ inLoc' = TRUE
    /\ UNCHANGED servers

\* The fields of a location after a directive: every cgi line clears the map,
\* since cgi_set starts as false for each line.
Overridden(fields, l) ==
    [fields EXCEPT ![l.key] =
        CASE l.key = "return" -> Inserted(@, l)
          [] l.key = "cgi"    -> {Entry(l)}
          [] OTHER            -> LocationValue(l)]

ParseOverride ==
    /\ Parse /\ inLoc /\ Line.key \in OfLocation /\ ~NoMethod
    /\ loc' = [loc EXCEPT !.fields = Overridden(@, Line)]
    /\ phase' = IF Line.arity THEN phase ELSE "fault"
    /\ UNCHANGED <<inLoc, servers>>

ParseClose ==
    /\ Parse /\ inLoc /\ Line.key = "}"
    /\ servers' = [servers EXCEPT ![Len(servers)].locs = Append(@, loc)]
    /\ inLoc' = FALSE
    /\ UNCHANGED <<phase, loc>>

\* The loop over a location block does not look for the end of the file.
Finish ==
    /\ phase = "parse" /\ at = Len(file)
    /\ phase' = IF inLoc THEN "fault" ELSE "done"
    /\ UNCHANGED <<file, set, depth, inLoc, at, servers, loc>>

FirstPass ==
    \/ \E l \in Lines : Pass(l) \/ OpenBlock(l) \/ CloseBlock(l) \/ Reject(l)
    \/ EndOfFile

SecondPass ==
    \/ Throw \/ ParseNothing \/ ParseServer \/ ParseDirective
    \/ ParseLocation \/ ParseOverride \/ ParseClose \/ Finish

Next == FirstPass \/ SecondPass

Spec == Init /\ [][Next]_vars

-----------------------------------------------------------------------------
(***************************************************************************)
(* Properties                                                              *)
(***************************************************************************)

TypeOK ==
    /\ phase \in {"validate", "parse", "done", "invalid", "fault"}
    /\ Len(file) <= MaxLines /\ at \in 0..Len(file)
    /\ set \in BOOLEAN /\ inLoc \in BOOLEAN /\ depth \in 0..Len(file)
    /\ \A i \in DOMAIN servers : DOMAIN servers[i].fields = OfServer
    /\ DOMAIN loc.fields = OfLocation

\* What the first pass lets through, the second reads without back() of an
\* empty list, without a word that is not there and without looping for ever
\* at the end of the file.
NoFault == phase # "fault"

\* The file, without the parser: whose line p is, whether it is in a location
\* block, and which lines belong to the block that opens at q.
Keyed(k) == {p \in DOMAIN file : file[p].key = k}
Owner(p) == Cardinality({q \in Keyed("server") : q <= p})
Block(q) ==
    {p \in DOMAIN file : p > q /\ \A r \in q..p : file[r].key # "}"}
OwnLines(i, k, end) ==
    {p \in Keyed(k) : /\ p < end /\ Owner(p) = i
                      /\ \A q \in Keyed("location") : p \notin Block(q)}

\* The first entry of each name.
FirstEntries(ps) ==
    {Entry(file[p]) :
        p \in {p \in ps : \A q \in ps : file[q].name = file[p].name => p <= q}}

\* The field k of server i as written up to line end: the last line, or the
\* default.
Written(i, k, end) ==
    LET ps == OwnLines(i, k, end)
    IN IF k \in Mapped THEN FirstEntries(ps)
       ELSE IF ps = {} THEN Defaults[k] ELSE Value(file[Max(ps)])

\* A field of a location: as written in its block up to line end, or what the
\* server had where the block opens.
LocationAsWritten(l, i, q, k, end) ==
    LET ps == {p \in Block(q) \cap Keyed(k) : p < end}
    IN /\ k = "return" => l.fields[k] = FirstEntries(ps)
       /\ k = "cgi" /\ ps # {} /\ (\A p, r \in ps : p = r) =>
              l.fields[k] = FirstEntries(ps)
       /\ k \notin {"return", "cgi"} /\ ps # {} =>
              l.fields[k] = LocationValue(file[Max(ps)])
       /\ k \in {"cgi", "index", "autoindex", "client_max_body_size"} /\ ps = {} =>
              l.fields[k] = Written(i, k, q)

LocationLines(i) == {q \in Keyed("location") : Owner(q) = i}

\* However blocks and lines follow each other, a server and its locations get
\* what is written in them and nothing of what is written in others.  Where
\* something follows the semicolon, an index or return line is taken as each
\* kind of block takes it (Value, LocationValue, Entry).  Left out are root and
\* server_name of a server, which parsing assigns to copies, and a location
\* with several cgi lines, of which only the last counts.
AsWritten ==
    phase = "done" =>
        /\ Len(servers) = Cardinality(Keyed("server"))
        /\ \A i \in DOMAIN servers :
              /\ \A k \in OfServer \ {"root", "server_name"} :
                    servers[i].fields[k] = Written(i, k, Len(file) + 1)
              /\ Len(servers[i].locs) = Cardinality(LocationLines(i))
              /\ \A q \in LocationLines(i) :
                    LET n == Cardinality({r \in LocationLines(i) : r <= q})
                        l == servers[i].locs[n]
                    IN /\ l.path = file[q].name
                       /\ \A k \in OfLocation :
                             LocationAsWritten(l, i, q, k, Len(file) + 1)

\* No two servers are given the same port, whatever else the file says; a
\* server that is given none keeps the default unchecked.
PortsDistinct ==
    phase = "done" =>
        \A j \in DOMAIN servers : \A i \in 1..(j - 1) :
            servers[i].fields["listen"] = servers[j].fields["listen"] =>
                OwnLines(j, "listen", Len(file) + 1) = {}
=============================================================================
