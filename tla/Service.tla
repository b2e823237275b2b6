------------------------------- MODULE Service -------------------------------
(***************************************************************************)
(* What a complete request does and what it is answered: the checks that   *)
(* Webserv::start makes one after the other, ready_response_meta,          *)
(* ready_err_response_meta, init_response and push_write_buf of Client,    *)
(* and rm_sub_files and make_middle_pathes of util, on files that all      *)
(* clients share.                                                          *)
(*                                                                         *)
(* Handling a request opens, makes or deletes files in one go; reading and *)
(* writing them takes further events, between which other clients are      *)
(* served.  Module Webserv has the events and the descriptors, this one    *)
(* the file system and the responses; LocationMatch says which location    *)
(* answers a target.                                                       *)
(***************************************************************************)
EXTENDS Naturals, SequencesExt

CONSTANTS
    Client,
    Names,       \* names in paths: of files and directories, "." and ".."
    Dotted,      \* those with a "." in them
    Extension,   \* what a dotted name's first "." begins
    Glued,       \* two names as one, with no slash between them
    Cut,         \* a name without its last character; None if that was all
    Paths,       \* the paths of the files and directories, from the top
    Tree0,       \* what they are at first
    Ino,         \* files, whatever name they have
    Locked,      \* those the server may neither read nor write
    Size0,       \* the size of the files that are there at first
    Locations,   \* the location blocks, "/" among them
    ErrorPages,  \* default_error_pages: the path for a status
    Requests,    \* method, target and length of the body
    BufSize      \* BUFFER_SIZE

None   == "none"
Dir    == "dir"
NoFile == "nofile"

Methods == {"GET", "HEAD", "POST", "PUT", "DELETE"}

\* A location: its path in targets, its root, accept_method,
\* client_max_body_size, whether it has autoindex and a redirection with 301, the
\* extensions of its cgi_map.  index is the name of its index file.  A root is as
\* it is written, behind the path of the working directory if it is relative.
ASSUME LocationAssumption ==
    /\ \A l \in Locations :
          /\ l.path \in Seq(Names) /\ l.root.names \in Seq(Names)
          /\ l.root.slash \in BOOLEAN /\ (l.root.names = <<>> => l.root.slash)
          /\ l.accept \subseteq Methods /\ l.max \in Nat /\ l.index \in Names
          /\ {l.autoindex, l.redirect} \subseteq BOOLEAN /\ None \notin l.cgi
    /\ \E l \in Locations : l.path = <<>>
    /\ \A l, m \in Locations : l.path = m.path => l = m

\* A target's query is that of LocationMatch; ext is what its first "." begins.
ASSUME RequestAssumption ==
    \A r \in Requests :
        /\ r.method \in Methods /\ r.length \in Nat
        /\ r.target.names \in Seq(Names) /\ r.target.slash \in BOOLEAN
        /\ r.target.query \in {"none", "plain", "dotted"}

ASSUME NameAssumption ==
    /\ Dotted \subseteq Names /\ {".", ".."} \cap Names \subseteq Dotted
    /\ DOMAIN Extension = Dotted
    /\ Glued \in [Names \X Names -> Names] /\ Cut \in [Names -> Names \cup {None}]

ASSUME FileAssumption ==
    /\ Paths \subseteq Seq(Names) /\ <<>> \in Paths
    /\ \A p \in Paths : p # <<>> => Front(p) \in Paths
    /\ Locked \subseteq Ino /\ {None, Dir, NoFile} \cap Ino = {}
    /\ Tree0 \in [Paths -> Ino \cup {None, Dir}] /\ Tree0[<<>>] = Dir
    /\ \A p \in Paths : p # <<>> /\ Tree0[p] # None => Tree0[Front(p)] = Dir
    /\ \A p, q \in Paths : Tree0[p] = Tree0[q] /\ Tree0[p] \in Ino => p = q
    /\ Size0 \in Nat /\ BufSize \in Nat \ {0}
    /\ \A s \in DOMAIN ErrorPages : ErrorPages[s] \in Paths

VARIABLES
    tree,    \* tree[p]: None, Dir or the file that path p names
    data,    \* data[i]: what file i holds; a unit is named after who wrote it
    conn,    \* conn[c]: the connection of client c
    up       \* the process runs

vars == <<tree, data, conn, up>>

\* The state of a connection: the stage of the present request, cgi_mode, the
\* file it has open or used (with the file's offset or write_size, file_buf), the
\* status, and the response: Content-Length, whether the empty line that ends the
\* head is there, and the body.
\*
\* others is not in the program: the other clients that may have written the
\* file since this one opened it.
Absent == 1000       \* no Content-Length

Connection(stage, r, cgi, file, status, reply) ==
    [stage |-> stage, req |-> r, cgi |-> cgi, file |-> file, status |-> status,
     reply |-> reply]

Opened(i, others) == [ino |-> i, at |-> 0, buf |-> <<>>, others |-> others]
NoReply == [length |-> Absent, blank |-> FALSE, body |-> <<>>]

Begun(r) == Connection("idle", r, FALSE, Opened(NoFile, {}), None, NoReply)
Idle == Begun(<<>>)

Status == {None, "200", "201", "204", "301", "400", "403", "404", "405", "413", "500"}

TypeOK ==
    /\ tree \in [Paths -> Ino \cup {None, Dir}] /\ up \in BOOLEAN
    /\ \A i \in Ino : \A k \in DOMAIN data[i] : data[i][k] \in Client \cup {"disk"}
    /\ \A c \in Client :
          LET k == conn[c] IN
          /\ k.stage \in {"idle", "reading", "writing", "script", "dropped", "answered"}
          /\ k.stage = "idle" \/ k.req \in Requests
          /\ k.file.ino \in Ino \cup {NoFile} /\ k.status \in Status
          /\ k.stage \in {"reading", "writing"} => k.file.ino # NoFile
          /\ k.stage = "answered" <=> k.status # None /\ k.stage # "reading"

Init ==
    /\ tree = Tree0 /\ up = TRUE
    /\ data = [i \in Ino |-> IF \E p \in Paths : Tree0[p] = i
                             THEN [n \in 1..Size0 |-> "disk"] ELSE <<>>]
    /\ conn = [c \in Client |-> Idle]

-----------------------------------------------------------------------------
(***************************************************************************)
(* Locations and paths                                                     *)
(***************************************************************************)

\* init_client_location
Match == INSTANCE LocationMatch WITH
    MaxDepth <- 3, Configs <- {}, config <- {}, locMap <- {}, target <- <<>>,
    chosen <- <<>>

LocationOf ==
    [t \in {r.target : r \in Requests} |->
        CHOOSE l \in Locations : l.path = Match!Route({m.path : m \in Locations}, t)]

\* A path as the code writes it: its names and whether a slash ends it.  Without
\* names and slash it is the empty string.
Path(names, slash) == [names |-> names, slash |-> slash]

\* What follows the location's path in the target.
Rest(l, t) == SubSeq(t.names, Len(l.path) + 1, Len(t.names))

\* The target is the location's path without its last slash.
Bare(l, t) == t.names = l.path /\ ~t.slash

\* The path that is checked: root, a slash and the rest, double slashes made one.
Checked(l, t) == Path(l.root.names \o Rest(l, t), t.slash \/ Rest(l, t) = <<>>)

\* Slip: the location's path is not taken off the target.
Joined_Whole(l, t, slash) == Path(l.root.names \o t.names, slash)

\* The path that is used: the root and the rest, with no slash between them.
Joined(l, t, slash) ==
    LET rest == Rest(l, t)
        root == l.root.names
    IN  IF rest = <<>> THEN l.root
        ELSE IF l.root.slash THEN Path(root \o rest, slash)
        ELSE Path(Front(root) \o <<Glued[Last(root), Head(rest)]>> \o Tail(rest), slash)

\* A path without its last character.
Erased(p) ==
    IF p.slash THEN Path(p.names, FALSE)
    ELSE IF Cut[Last(p.names)] = None THEN Path(Front(p.names), TRUE)
    ELSE Path(Append(Front(p.names), Cut[Last(p.names)]), FALSE)

\* Where names lead, from the top.
Place(names) ==
    LET walk[k \in 0..Len(names)] ==
            IF k = 0 THEN <<>>
            ELSE IF names[k] = "." THEN walk[k - 1]
            ELSE IF names[k] = ".." THEN
                IF walk[k - 1] = <<>> THEN <<>> ELSE Front(walk[k - 1])
            ELSE Append(walk[k - 1], names[k])
    IN  walk[Len(names)]

\* Every name but the last leads to a directory of tree t.
Passable(t, names) ==
    \A k \in 0..Len(names) - 1 :
        LET q == Place(SubSeq(names, 1, k)) IN q \in Paths /\ t[q] = Dir

\* stat() and access() of a path; with a slash at its end it is a directory's.
At(p) ==
    LET q == Place(p.names)
    IN  IF /\ p # Path(<<>>, FALSE) /\ q \in Paths
           /\ Passable(tree, p.names) /\ (p.slash => tree[q] = Dir)
        THEN tree[q] ELSE None

\* check_client_err
Refusal(l, r) ==
    IF r.method # "PUT" /\ At(Checked(l, r.target)) = None THEN "404"
    ELSE IF r.method # "PUT" /\ At(Checked(l, r.target)) \in Locked THEN "403"
    ELSE IF r.method \notin l.accept THEN "405"
    ELSE IF r.length > l.max THEN "413" ELSE None

\* check_need_cgi: the extension begins at the first "." of the whole target, its
\* query string included, and the location has a program for it.
Script(l, t) ==
    IF \E i \in DOMAIN t.names : t.names[i] \in Dotted
    THEN Extension[t.names[SelectInSeq(t.names, LAMBDA n : n \in Dotted)]] \in l.cgi
    ELSE t.query = "dotted" /\ t.ext \in l.cgi

-----------------------------------------------------------------------------
(***************************************************************************)
(* Responses                                                               *)
(***************************************************************************)

\* push_write_buf: in cgi_mode the empty line is left to the program's output,
\* and a HEAD gets no body.
Pushed(k, status, length, body) ==
    Connection("answered", k.req, k.cgi, k.file, status,
               [length |-> length, blank |-> ~k.cgi,
                body |-> IF k.req.method = "HEAD" THEN <<>> ELSE body])

\* The built-in page is the status and a NUL, its length is written as "4".
BuiltIn(k, status) == Pushed(k, status, 4, <<"digit", "digit", "digit", "NUL">>)

\* Slip: Content-Length is the size of the file, not of what was read of it.
Response_SizeOfFile(k, status) ==
    Pushed(k, status, IF k.file.ino = NoFile THEN 0 ELSE Len(data[k.file.ino]),
           k.file.buf)

\* init_response for a file.
Response(k, status) == Pushed(k, status, Len(k.file.buf), k.file.buf)

\* init_response for the output of a CGI program: "body" is n units after its
\* own empty line, "bare" is output without one, all of which is taken for
\* headers.  Of an empty output the kernel reports nothing.
ScriptResponse(k, out, n) ==
    Connection("answered", k.req, TRUE, k.file, "200",
               [length |-> IF out = "body" THEN n ELSE 0,
                blank  |-> k.req.method # "HEAD" /\ out = "body",
                body   |-> IF k.req.method # "HEAD" /\ out = "body"
                           THEN [i \in 1..n |-> "out"] ELSE <<>>])

Writers(i) == {d \in Client : conn[d].stage = "writing" /\ conn[d].file.ino = i}

\* Slip: the file is opened and not remembered.
Reading_NotKept(k, i, status) ==
    Connection("reading", k.req, k.cgi, k.file, status, NoReply)

\* A file is opened for reading.
Reading(k, i, status) ==
    Connection("reading", k.req, k.cgi, Opened(i, Writers(i)), status, NoReply)

Becomes(c, k) == conn' = [conn EXCEPT ![c] = k]

\* ready_err_response_meta: the page configured for the status if it is a file
\* that opens, and the built-in page for 500 if not.
Fail(c, k, status) ==
    /\ \/ /\ status \in DOMAIN ErrorPages /\ status # "500"
          /\ tree[ErrorPages[status]] \in Ino \ Locked
          /\ Becomes(c, Reading(k, tree[ErrorPages[status]], status))
       \/ /\ status \in DOMAIN ErrorPages /\ status # "500"
          /\ Becomes(c, BuiltIn(k, "500"))
       \/ /\ status \notin DOMAIN ErrorPages \/ status = "500"
          /\ Becomes(c, BuiltIn(k, status))
    /\ UNCHANGED <<tree, data, up>>

-----------------------------------------------------------------------------
(***************************************************************************)
(* A complete request                                                      *)
(***************************************************************************)

Asked(c) == up /\ conn[c].stage = "idle"

\* check_client_err finds an error.
Refuse(c, r) ==
    LET s == Refusal(LocationOf[r.target], r)
    IN s # None /\ Fail(c, Begun(r), s)

\* The request passes check_client_err.
Passes(r, l) == l = LocationOf[r.target] /\ Refusal(l, r) = None

\* check_redirect: no init_headers and no Content-Length.
Redirect(c, r) ==
    \E l \in Locations :
        /\ Passes(r, l) /\ l.redirect
        /\ Becomes(c, Pushed(Begun(r), "301", Absent, <<>>))
        /\ UNCHANGED <<tree, data, up>>

\* check_need_cgi, whatever the method: cgi_mode is set, and the body goes to
\* a file of its own.
StartScript(c, r) ==
    \E l \in Locations :
        /\ Passes(r, l) /\ ~l.redirect /\ Script(l, r.target)
        /\ Becomes(c, Connection("script", r, TRUE, Opened(NoFile, {}), None,
                                NoReply))
        /\ UNCHANGED <<tree, data, up>>

\* The file for the body cannot be opened, or execute() fails, or waitpid
\* does.
ScriptFails(c) ==
    /\ up /\ conn[c].stage = "script"
    /\ Fail(c, conn[c], "500")

\* The output of the program has been read to its end.
ScriptEnds(c) ==
    /\ up /\ conn[c].stage = "script"
    /\ \E out \in {"body", "bare"}, n \in 0..1 :
          Becomes(c, ScriptResponse(conn[c], out, n))
    /\ UNCHANGED <<tree, data, up>>

\* The request is for ready_response_meta.
Meta(r, l, methods) ==
    /\ r.method \in methods
    /\ Passes(r, l) /\ ~l.redirect /\ ~Script(l, r.target)

\* GET, HEAD and POST: the path with a slash at its end, or without its last
\* character if there is nothing.
Found(l, t) ==
    LET p == Joined(l, t, TRUE) IN IF At(p) # None THEN p ELSE Erased(p)

\* What a path ends with decides whether the index file is looked for.
Served(l, t) ==
    LET p == Found(l, t)
    IN  IF p.slash THEN Path(Append(p.names, l.index), FALSE) ELSE p

\* Nothing there, or a directory without its index file: a listing, 500 if the
\* directory does not open, or 404.
GetNothing(c, r) ==
    \E l \in Locations :
        /\ Meta(r, l, {"GET", "HEAD", "POST"})
        /\ At(Served(l, r.target)) = None
        /\ IF l.autoindex /\ At(Found(l, r.target)) # None
           THEN \/ /\ Becomes(c, Pushed(Begun(r), "200", 1, <<"list">>))
                   /\ UNCHANGED <<tree, data, up>>
                \/ Fail(c, Begun(r), "500")
           ELSE Fail(c, Begun(r), "404")

\* A directory that is taken for a file: its size may be 0, it may not open, and
\* if it does the read fails, after which there is no response to send.
GetDirectory(c, r) ==
    \E l \in Locations :
        /\ Meta(r, l, {"GET", "HEAD", "POST"})
        /\ At(Served(l, r.target)) = Dir
        /\ \/ /\ \/ Becomes(c, Response(Begun(r), "200"))
                 \/ Becomes(c, Connection("dropped", r, FALSE, Opened(NoFile, {}),
                                          None, NoReply))
              /\ UNCHANGED <<tree, data, up>>
           \/ Fail(c, Begun(r), "500")

\* An empty file is answered at once, another one is opened.
GetFile(c, r) ==
    \E l \in Locations, i \in Ino :
        /\ Meta(r, l, {"GET", "HEAD", "POST"})
        /\ At(Served(l, r.target)) = i
        /\ \/ /\ data[i] = <<>>
              /\ Becomes(c, Response(Begun(r), "200"))
              /\ UNCHANGED <<tree, data, up>>
           \/ /\ data[i] # <<>> /\ i \notin Locked
              /\ Becomes(c, Reading(Begun(r), i, "200"))
              /\ UNCHANGED <<tree, data, up>>
           \/ /\ data[i] # <<>>
              /\ Fail(c, Begun(r), "500")

Deleted(c, r) == Becomes(c, Pushed(Begun(r), "204", Absent, <<>>))

\* There is nothing with a slash at its end: the name without it is removed.  Who
\* has the file open keeps it; that unlink() fails is not noticed.
DeleteFile(c, r) ==
    \E l \in Locations :
        LET p == Joined(l, r.target, TRUE) IN
        /\ Meta(r, l, {"DELETE"}) /\ At(p) = None
        /\ \/ /\ At(Erased(p)) \in Ino
              /\ tree' = [tree EXCEPT ![Place(Erased(p).names)] = None]
           \/ UNCHANGED tree
        /\ Deleted(c, r)
        /\ UNCHANGED <<data, up>>

\* What there is below a path.
Below(p) == {q \in Paths : tree[q] # None /\ IsStrictPrefix(p, q)}

\* rm_sub_files takes some of the files and directories, a directory only with
\* all that was below it; that unlink() or rmdir() fails is not noticed.
Takes(gone) ==
    /\ \A p \in gone : Below(p) \subseteq gone
    /\ tree' = [p \in Paths |-> IF p \in gone THEN None ELSE tree[p]]

\* A directory, with the last character of its path erased: the slash, or if the
\* root of the location has none, a character of the root.
DeleteDirectory(c, r) ==
    \E l \in Locations :
        LET p == Joined(l, r.target, TRUE)
            q == Place(Erased(p).names) IN
        /\ Meta(r, l, {"DELETE"}) /\ At(p) # None /\ At(Erased(p)) = Dir
        /\ \E gone \in SUBSET (Below(q) \cup {q}) : <<>> \notin gone /\ Takes(gone)
        /\ Deleted(c, r)
        /\ UNCHANGED <<data, up>>

\* That directory, or one below it, cannot be opened.
DeletePartly(c, r) ==
    \E l \in Locations :
        LET p == Joined(l, r.target, TRUE)
            q == Place(Erased(p).names) IN
        /\ Meta(r, l, {"DELETE"}) /\ At(p) # None
        /\ \E gone \in SUBSET Below(q) :
              (At(Erased(p)) # Dir => gone = {}) /\ Takes(gone)
        /\ Becomes(c, BuiltIn(Begun(r), "500"))
        /\ UNCHANGED <<data, up>>

\* A PUT of the location's path without its slash: substr() is called beyond
\* the end of the target, nothing catches what it throws, and every client
\* loses its connection.
PutBare(c, r) ==
    \E l \in Locations :
        /\ Meta(r, l, {"PUT"}) /\ Bare(l, r.target)
        /\ up' = FALSE
        /\ conn' = [d \in Client |-> Idle]
        /\ UNCHANGED <<tree, data>>

Upload(r, l) == Meta(r, l, {"PUT"}) /\ ~Bare(l, r.target)

\* A PUT of a directory.  For a path that does not exist stat() leaves
\* sb.st_mode as it was, whatever that is, and it may be taken for one.
PutDirectory(c, r) ==
    \E l \in Locations :
        LET p == Joined(l, r.target, r.target.slash) IN
        /\ Upload(r, l)
        /\ p.slash \/ At(p) \in {Dir, None}
        /\ Fail(c, Begun(r), "400")

\* make_middle_pathes: what every name but the last leads to is made a directory,
\* from the top on, as far as nothing but directories is in the way.
Made(names) ==
    [q \in Paths |->
        IF /\ tree[q] = None
           /\ \E k \in 1..Len(names) - 1 :
                 /\ q = Place(SubSeq(names, 1, k))
                 /\ \A j \in 0..k : LET s == Place(SubSeq(names, 1, j))
                                    IN  s \in Paths /\ tree[s] \in {None, Dir}
        THEN Dir ELSE tree[q]]

\* The file cannot be opened: no permission, no descriptor, or a name above
\* it is a file's.  The directories that could be made stay.
PutFails(c, r) ==
    \E l \in Locations :
        LET p == Joined(l, r.target, r.target.slash) IN
        /\ Upload(r, l) /\ ~p.slash /\ At(p) # Dir
        /\ \E k \in 1..Len(p.names) : tree' = Made(SubSeq(p.names, 1, k))
        /\ Becomes(c, BuiltIn(Begun(r), "500"))
        /\ UNCHANGED <<data, up>>

\* Slip: O_TRUNC is missing.
Emptied_Not(i) == data

\* open() with O_TRUNC
Emptied(i) == [data EXCEPT ![i] = <<>>]

\* A file that no path and no connection stands for.
Fresh(i) ==
    /\ i \notin Locked
    /\ \A p \in Paths : tree[p] # i
    /\ \A d \in Client : conn[d].file.ino # i

\* Connection k has or had the file that c opens to write.
Shared(k, c) ==
    Connection(k.stage, k.req, k.cgi,
               [ino |-> k.file.ino, at |-> k.file.at, buf |-> k.file.buf,
                others |-> k.file.others \cup {c}], k.status, k.reply)

\* open(O_CREAT | O_TRUNC): others may have the file open, or have just
\* used it.
PutFile(c, r) ==
    \E l \in Locations, i \in Ino \ Locked :
        LET p == Joined(l, r.target, r.target.slash)
            q == Place(p.names)
            made == Made(p.names) IN
        /\ Upload(r, l) /\ ~p.slash
        /\ q \in Paths /\ Passable(made, p.names)
        /\ made[q] = i \/ (made[q] = None /\ Fresh(i))
        /\ tree' = [made EXCEPT ![q] = i]
        /\ data' = Emptied(i)
        /\ conn' = [d \in Client |->
                       IF d = c
                       THEN Connection("writing", r, FALSE, Opened(i, Writers(i)),
                                       None, NoReply)
                       ELSE IF conn[d].file.ino = i THEN Shared(conn[d], c)
                       ELSE conn[d]]
        /\ UNCHANGED up

Handle(c, r) ==
    /\ Asked(c)
    /\ \/ Refuse(c, r) \/ Redirect(c, r) \/ StartScript(c, r)
       \/ GetNothing(c, r) \/ GetDirectory(c, r) \/ GetFile(c, r)
       \/ DeleteFile(c, r) \/ DeleteDirectory(c, r) \/ DeletePartly(c, r)
       \/ PutBare(c, r) \/ PutDirectory(c, r) \/ PutFails(c, r) \/ PutFile(c, r)

-----------------------------------------------------------------------------
(***************************************************************************)
(* Further events                                                          *)
(***************************************************************************)

Smaller(m, n) == IF m < n THEN m ELSE n

\* Slip: every read replaces what was read before.
Further_Replaces(f, n) ==
    [ino |-> f.ino, at |-> f.at + n, others |-> f.others,
     buf |-> SubSeq(data[f.ino], f.at + 1, f.at + n)]

\* What was read so far, after a read of n more.
Further(f, n) ==
    [ino |-> f.ino, at |-> f.at + n, others |-> f.others,
     buf |-> f.buf \o SubSeq(data[f.ino], f.at + 1, f.at + n)]

\* Slip: the end of the file is waited for.
Read_ToTheEnd(c) ==
    LET k == conn[c]
        f == k.file
        n == Smaller(BufSize, Len(data[f.ino]) - f.at)
        more == Connection("reading", k.req, k.cgi, Further(f, n), k.status, NoReply) IN
    /\ up /\ k.stage = "reading" /\ f.at < Len(data[f.ino])
    /\ Becomes(c, IF n = 0 THEN Response(more, k.status) ELSE more)
    /\ UNCHANGED <<tree, data, up>>

\* read_file: a short read was the last.  No event comes while the offset is
\* at the end of the file or beyond.
Read(c) ==
    LET k == conn[c]
        f == k.file
        n == Smaller(BufSize, Len(data[f.ino]) - f.at)
        more == Connection("reading", k.req, k.cgi, Further(f, n), k.status, NoReply) IN
    /\ up /\ k.stage = "reading" /\ f.at < Len(data[f.ino])
    /\ Becomes(c, IF n < BufSize THEN Response(more, k.status) ELSE more)
    /\ UNCHANGED <<tree, data, up>>

\* What the file holds after n units of client c were written at offset a; the
\* gap that a truncation left reads as zeros.
Written(old, a, n, c) ==
    [j \in 1..(IF a + n > Len(old) THEN a + n ELSE Len(old)) |->
        IF j > a /\ j <= a + n THEN c
        ELSE IF j <= Len(old) THEN old[j] ELSE "disk"]

\* write_file: a part of the body, or the rest of it.
Write(c) ==
    LET k == conn[c]
        f == k.file IN
    /\ up /\ k.stage = "writing"
    /\ \E n \in 0..(k.req.length - f.at) :
          /\ n = 0 => k.req.length = 0
          /\ data' = [data EXCEPT ![f.ino] = Written(@, f.at, n, c)]
          /\ Becomes(c, IF f.at + n < k.req.length
                        THEN Connection("writing", k.req, k.cgi,
                                        [ino |-> f.ino, at |-> f.at + n,
                                         buf |-> f.buf, others |-> f.others],
                                        None, NoReply)
                        ELSE Response(k, "201"))
    /\ UNCHANGED <<tree, up>>

\* The response has been sent and clear_client empties the Client, or it is
\* disconnected at any time: what it has done to the files stays.
Finish(c) ==
    /\ up /\ conn[c].stage # "idle"
    /\ Becomes(c, Idle)
    /\ UNCHANGED <<tree, data, up>>

Next ==
    \E c \in Client :
        \/ Read(c) \/ Write(c) \/ ScriptFails(c) \/ ScriptEnds(c) \/ Finish(c)
        \/ \E r \in Requests : Handle(c, r)

Spec == Init /\ [][Next]_vars

-----------------------------------------------------------------------------
(***************************************************************************)
(* Properties                                                              *)
(***************************************************************************)

\* An upload to a location whose root ends with a slash has its file where
\* check_client_err looks for the target of later requests, though the two write
\* the path in different ways, as long as the file has a name.
UploadFound ==
    \A c \in Client :
        LET k == conn[c]
            l == LocationOf[k.req.target] IN
        k.stage = "answered" /\ k.status = "201" /\ l.root.slash =>
            \A p \in Paths :
                tree[p] = k.file.ino => p = Place(Checked(l, k.req.target).names)

\* An upload that is answered 201, and that no other upload to the same file
\* overlapped or followed, is stored as it was sent, whatever became of the
\* file's name and whatever the file held before.
UploadExact ==
    \A c \in Client :
        conn[c].stage = "answered" /\ conn[c].status = "201" /\ conn[c].file.others = {}
            => data[conn[c].file.ino] = [n \in 1..conn[c].req.length |-> c]

\* A file, also the page for an error, is answered as it is, also one that is
\* deleted or replaced by a new one meanwhile, unless an upload writes it
\* while it is read.
GetExact ==
    \A c \in Client :
        LET k == conn[c] IN
        /\ k.stage = "answered" /\ k.status # "201" /\ k.file.ino # NoFile
        /\ k.file.others = {} /\ k.req.method # "HEAD"
        => k.reply.body = data[k.file.ino]

\* A file has been read to its end and its client waits for one more event, which
\* does not come, only if the file's size is a multiple of BUFFER_SIZE or an upload
\* to the file has come between.
ReaderServed ==
    \A c \in Client :
        LET f == conn[c].file IN
        /\ conn[c].stage = "reading" /\ f.others = {}
        /\ f.at >= Len(data[f.ino])
        => \E m \in 0..Len(data[f.ino]) : Len(data[f.ino]) = m * BufSize

\* The body is as long as Content-Length says.
LengthTrue ==
    \A c \in Client :
        LET k == conn[c] IN
        /\ k.stage = "answered" /\ k.reply.blank /\ k.reply.length # Absent
        /\ k.req.method # "HEAD"
        => Len(k.reply.body) = k.reply.length

\* Every response has the empty line that ends its head: the comment at
\* client.hpp:96 says the output of a CGI program brings it, so that it is not
\* added in cgi_mode.
HeadEnds == \A c \in Client : conn[c].stage = "answered" => conn[c].reply.blank
=============================================================================
