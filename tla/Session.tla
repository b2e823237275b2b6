------------------------------- MODULE Session -------------------------------
(***************************************************************************)
(* Sessions, in the build with COOKIE: Client::manage_session,             *)
(* Server::create_sid and the sid of a Response, with the browsers that    *)
(* keep the cookies and the process that may be stopped and started again. *)
(*                                                                         *)
(* Each Server object keeps its own sid_map, the counter of create_sid is  *)
(* shared by all of them, and a browser keeps one set of cookies for the   *)
(* host: it sends to one port the id it was given on another.  All of this *)
(* is in memory, while the cookies survive the process.                    *)
(*                                                                         *)
(* owner, run and the fields named from are not in the program: they       *)
(* record for whom, and in which run of the process, an id was made.       *)
(***************************************************************************)
EXTENDS Naturals

CONSTANTS
    Browser,
    Server,    \* the Server objects: ports of one host
    Lane,      \* the connections a browser may have at a time, to any server
    MaxId,     \* bound on the ids made in one run of the process
    MaxRun,    \* bound on the runs of the process
    NoOne

ASSUME NoOneAssumption == NoOne \notin Browser \cup Server
ASSUME BoundAssumption == MaxId \in Nat /\ MaxRun \in Nat \ {0}

Id == 1..MaxId

VARIABLES
    newId,     \* the static new_id of create_sid
    sidMap,    \* sidMap[v][i]: what server v's sid_map has for id i
    owner,     \* owner[i]: the browser id i was made for
    run,       \* the present run of the process
    jar,       \* jar[b]: the cookies session_id and status of browser b
    link       \* link[b][l]: a connection, its Client's request and response

vars == <<newId, sidMap, owner, run, jar, link>>

\* cookie: the session_id in the request, 0 without a Cookie header.
\* sid: Response::sid.  sets: what the Set-Cookie header of the response holds.
Link == [stage : {"idle", "asked", "answered"},
         server : Server \cup {NoOne}, cookie : {0} \cup Id, from : 0..MaxRun,
         sid : {0} \cup Id, sets : {"nothing", "id", "status"}]

\* The cookies of a browser; sid is 0 if it has none.
Jar == [sid : {0} \cup Id, status : {"none", "new", "old"}, from : 0..MaxRun]
NoJar == [sid |-> 0, status |-> "none", from |-> 0]

\* No request is on the connection: clear_client has emptied its Client, or it
\* is not open.
Idle == [stage |-> "idle", server |-> NoOne, cookie |-> 0, from |-> 0,
         sid |-> 0, sets |-> "nothing"]

\* A request of a browser with cookies c is on its way to server v.
Asked(v, c) == [stage |-> "asked", server |-> v, cookie |-> c.sid,
                from |-> c.from, sid |-> 0, sets |-> "nothing"]

\* The request of k is complete, and its response carries session i.
Answered(k, i, sets) ==
    [stage |-> "answered", server |-> k.server, cookie |-> k.cookie,
     from |-> k.from, sid |-> i, sets |-> sets]

NoSids == [v \in Server |-> [i \in Id |-> "none"]]

TypeOK ==
    /\ newId \in {0} \cup Id
    /\ sidMap \in [Server -> [Id -> {"none", "new", "old"}]]
    /\ owner \in [Id -> Browser \cup {NoOne}]
    /\ run \in 1..MaxRun
    /\ jar \in [Browser -> Jar]
    /\ link \in [Browser -> [Lane -> Link]]

Init ==
    /\ newId = 0 /\ sidMap = NoSids /\ run = 1
    /\ owner = [i \in Id |-> NoOne]
    /\ jar = [b \in Browser |-> NoJar]
    /\ link = [b \in Browser |-> [l \in Lane |-> Idle]]

-----------------------------------------------------------------------------
\* The connection b, l becomes k.
Becomes(b, l, k) == link' = [link EXCEPT ![b][l] = k]

\* The browser sends a request, with the cookies it has at this moment.
Ask(b, l, v) ==
    /\ link[b][l].stage = "idle"
    /\ Becomes(b, l, Asked(v, jar[b]))
    /\ UNCHANGED <<newId, sidMap, owner, run, jar>>

\* The request line or a header does not parse: the error page is made
\* without manage_session, and the browser gets it.
Unparsed(b, l) ==
    /\ link[b][l].stage = "asked"
    /\ Becomes(b, l, Idle)
    /\ UNCHANGED <<newId, sidMap, owner, run, jar>>

\* The sid_map of server v has the id.
Known(v, i) == i # 0 /\ sidMap[v][i] # "none"

\* manage_session ends.
Managed(b, l, i, sets) == Becomes(b, l, Answered(link[b][l], i, sets))

\* The request is complete: manage_session is called.  Its Client was cleared
\* before the request, so that Response::sid is 0.
Manage(b, l) == link[b][l].stage = "asked"

\* Slips: the first answer does not mark the session, or forgets all others.
Confirm_MapReplaced(b, l) ==
    LET v == link[b][l].server
        i == link[b][l].cookie IN
    /\ Manage(b, l) /\ Known(v, i) /\ sidMap[v][i] = "new"
    /\ sidMap' = [sidMap EXCEPT ![v] = [j \in {i} |-> "old"]]
    /\ Managed(b, l, i, "status")
    /\ UNCHANGED <<newId, owner, run, jar>>

Confirm_NotMarked(b, l) ==
    LET v == link[b][l].server
        i == link[b][l].cookie IN
    /\ Manage(b, l) /\ Known(v, i) /\ sidMap[v][i] = "new"
    /\ Managed(b, l, i, "status")
    /\ UNCHANGED <<newId, sidMap, owner, run, jar>>

\* The id is in sid_map for the first time in a request: it becomes old.
Confirm(b, l) ==
    LET v == link[b][l].server
        i == link[b][l].cookie IN
    /\ Manage(b, l) /\ Known(v, i) /\ sidMap[v][i] = "new"
    /\ sidMap' = [sidMap EXCEPT ![v][i] = "old"]
    /\ Managed(b, l, i, "status")
    /\ UNCHANGED <<newId, owner, run, jar>>

\* The id is in sid_map and old: no Set-Cookie.
Recognise(b, l) ==
    LET v == link[b][l].server
        i == link[b][l].cookie IN
    /\ Manage(b, l) /\ Known(v, i) /\ sidMap[v][i] = "old"
    /\ Managed(b, l, i, "nothing")
    /\ UNCHANGED <<newId, sidMap, owner, run, jar>>

\* Slips: each server counts its own sessions; a session is made although the
\* one in the request is known, because it is not old yet.
CreateSid_PerServer(b, l) ==
    LET v == link[b][l].server
        i == CHOOSE j \in Id : /\ sidMap[v][j] = "none"
                               /\ \A k \in Id : k < j => sidMap[v][k] # "none" IN
    /\ Manage(b, l) /\ ~Known(v, link[b][l].cookie)
    /\ newId < MaxId /\ \E j \in Id : sidMap[v][j] = "none"
    /\ newId' = newId + 1
    /\ sidMap' = [sidMap EXCEPT ![v][i] = "new"]
    /\ owner' = [owner EXCEPT ![i] = b]
    /\ Managed(b, l, i, "id")
    /\ UNCHANGED <<run, jar>>

CreateSid_OnlyOldKnown(b, l) ==
    LET v == link[b][l].server IN
    /\ Manage(b, l)
    /\ ~(Known(v, link[b][l].cookie) /\ sidMap[v][link[b][l].cookie] = "old")
    /\ newId < MaxId
    /\ newId' = newId + 1
    /\ sidMap' = [sidMap EXCEPT ![v][newId + 1] = "new"]
    /\ owner' = [owner EXCEPT ![newId + 1] = b]
    /\ Managed(b, l, newId + 1, "id")
    /\ UNCHANGED <<run, jar>>

\* No id, or one this server does not know: create_sid, and both cookies are
\* set.
CreateSid(b, l) ==
    LET v == link[b][l].server IN
    /\ Manage(b, l) /\ ~Known(v, link[b][l].cookie)
    /\ newId < MaxId
    /\ newId' = newId + 1
    /\ sidMap' = [sidMap EXCEPT ![v][newId + 1] = "new"]
    /\ owner' = [owner EXCEPT ![newId + 1] = b]
    /\ Managed(b, l, newId + 1, "id")
    /\ UNCHANGED <<run, jar>>

\* What the browser makes of the Set-Cookie header of response k.
Kept(cookies, k) ==
    IF k.sets = "id" THEN [sid |-> k.sid, status |-> "new", from |-> run]
    ELSE IF k.sets = "status" THEN [cookies EXCEPT !.status = "old"]
    ELSE cookies

\* The response is sent to its end: the browser keeps the cookies, and
\* clear_client empties the Client.
Deliver(b, l) ==
    /\ link[b][l].stage = "answered"
    /\ jar' = [jar EXCEPT ![b] = Kept(@, link[b][l])]
    /\ Becomes(b, l, Idle)
    /\ UNCHANGED <<newId, sidMap, owner, run>>

\* The connection ends, with whatever was asked or answered on it.
Lose(b, l) ==
    /\ link[b][l].stage # "idle"
    /\ Becomes(b, l, Idle)
    /\ UNCHANGED <<newId, sidMap, owner, run, jar>>

\* The user deletes the cookies, or the browser ends: they have no Expires.
Forget(b) ==
    /\ jar' = [jar EXCEPT ![b] = NoJar]
    /\ UNCHANGED <<newId, sidMap, owner, run, link>>

\* The process stops and is started again: counter and maps are as new.
Restart ==
    /\ run < MaxRun
    /\ run' = run + 1
    /\ newId' = 0 /\ sidMap' = NoSids
    /\ owner' = [i \in Id |-> NoOne]
    /\ link' = [b \in Browser |-> [l \in Lane |-> Idle]]
    /\ UNCHANGED jar

Step(b, l) ==
    \/ \E v \in Server : Ask(b, l, v)
    \/ Unparsed(b, l)
    \/ Confirm(b, l) \/ Recognise(b, l) \/ CreateSid(b, l)
    \/ Deliver(b, l) \/ Lose(b, l)

Next ==
    \/ \E b \in Browser, l \in Lane : Step(b, l)
    \/ \E b \in Browser : Forget(b)
    \/ Restart

Spec == Init /\ [][Next]_vars
-----------------------------------------------------------------------------
\* A server takes a request for one of session i only if i was made for the
\* browser that sent it, on whichever port and connection that was: requests
\* that cross each other, cookies of another port, lost answers and deleted
\* cookies never lead to somebody else's session.  Only an id that outlived
\* the process that made it can: numbers start again at 1.
OwnSession ==
    \A b \in Browser, l \in Lane :
        LET k == link[b][l] IN
        k.stage = "answered" =>
            owner[k.sid] = b \/ (k.cookie = k.sid /\ k.from < run)

\* Two browsers hold the same id only if it was made in two runs of the
\* process.
SidApart ==
    \A b, c \in Browser :
        b # c /\ jar[b].sid # 0 /\ jar[b].sid = jar[c].sid
            => jar[b].from # jar[c].from

\* A session is given up for a new one only when the request named none, or
\* one of another port or of an earlier run: as long as its answers arrive, a
\* browser that uses one port keeps its session.  The new id may reach the
\* browser much later, but until then nothing makes the old one known there.
SessionKept ==
    \A b \in Browser, l \in Lane :
        LET k == link[b][l] IN
        k.stage = "answered" /\ k.sets = "id" /\ k.cookie # 0 /\ k.from = run
            => ~Known(k.server, k.cookie)

\* A session is confirmed to its browser once: of all the answers on their
\* way, at most one sets status=old for an id, and the server that sent it has
\* the session as old.
ConfirmedOnce ==
    \A b, c \in Browser, l, m \in Lane :
        link[b][l].sets = "status" =>
            /\ sidMap[link[b][l].server][link[b][l].sid] = "old"
            /\ link[c][m].sets = "status" /\ link[c][m].sid = link[b][l].sid
                   => c = b /\ m = l

-----------------------------------------------------------------------------
(***************************************************************************)
(* The inductive invariant                                                 *)
(***************************************************************************)

\* The ids up to the counter have an owner; no server knows another.
Counted ==
    \A i \in Id :
        /\ i <= newId <=> owner[i] # NoOne
        /\ \A v \in Server : sidMap[v][i] # "none" => i <= newId

\* An id is in the sid_map of one server.
OneServer ==
    \A v, w \in Server, i \in Id :
        sidMap[v][i] # "none" /\ sidMap[w][i] # "none" => v = w

\* An id that names itself as made in this run, for browser b, was.
Honest(b, i, from) == from <= run /\ (from = run /\ i # 0 => owner[i] = b)

\* So do the cookies a browser keeps, and those it has sent.
HonestJar == \A b \in Browser : Honest(b, jar[b].sid, jar[b].from)
HonestLink ==
    \A b \in Browser, l \in Lane : Honest(b, link[b][l].cookie, link[b][l].from)

\* What the fields of a connection are at each stage.
Stages ==
    \A b \in Browser, l \in Lane :
        LET k == link[b][l] IN
        /\ k.stage = "answered" => /\ k.sid # 0 /\ k.server \in Server
                                   /\ k.sets = "id" => owner[k.sid] = b
        /\ k.stage = "asked" => k.server \in Server
        /\ k.stage # "answered" => k.sets = "nothing"

SInv == /\ TypeOK /\ Counted /\ OneServer
        /\ HonestJar /\ HonestLink /\ Stages
        /\ OwnSession /\ SidApart /\ SessionKept /\ ConfirmedOnce
=============================================================================
