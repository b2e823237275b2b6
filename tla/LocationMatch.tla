---------------------------- MODULE LocationMatch ----------------------------
(***************************************************************************)
(* Which location of a server answers a request: Server::init_location_map *)
(* and init_default_location when the server starts, then                  *)
(* Client::init_client_location for every request.  The map is the         *)
(* server's, shared by all its clients, and looking a location up may      *)
(* change it.                                                              *)
(*                                                                         *)
(* A path is a sequence of names: <<>> is "/", <<"a", "b">> is "/a/b/".    *)
(* Every configured path ends with a slash, as the comment at              *)
(* src/srcs/client.hpp:363 asks.                                           *)
(***************************************************************************)
EXTENDS Naturals, SequencesExt

CONSTANTS
    Names,      \* names of directories and files
    Dotted,     \* those with a "." in them
    Configs,    \* for each server, the paths of its location blocks
    MaxDepth    \* names in a target

ASSUME LocationAssumption ==
    /\ Dotted \subseteq Names /\ MaxDepth \in Nat
    /\ \A c \in Configs : c \subseteq SeqOf(Names, MaxDepth)

\* A request target: its names, whether a slash follows the last one, and a
\* query string, if any, without or with a "." in it.
Targets ==
    {t \in [names : SeqOf(Names, MaxDepth), slash : BOOLEAN,
            query : {"none", "plain", "dotted"}] :
        t.names = <<>> => t.slash}

VARIABLES
    config,    \* the location blocks of the server
    locMap,    \* the keys of loc_map
    target,    \* the target of the last request
    chosen     \* the path of the location that my_loc points to

vars == <<config, locMap, target, chosen>>

\* Slip: init_default_location is not called.
Start_NoDefault(c) == c

\* A server without location blocks gets one for "/".
Start(c) == IF c = {} THEN {<<>>} ELSE c

Init ==
    /\ config \in Configs
    /\ locMap = Start(config)
    /\ target = [names |-> <<>>, slash |-> TRUE, query |-> "none"]
    /\ chosen = <<>>

\* The part of the target that is looked up: up to the last slash before the
\* first ".", or up to the query string.
Directory(t) ==
    IF \E i \in DOMAIN t.names : t.names[i] \in Dotted
    THEN SubSeq(t.names, 1, SelectInSeq(t.names, LAMBDA n : n \in Dotted) - 1)
    ELSE IF t.query = "dotted" /\ ~t.slash THEN Front(t.names) ELSE t.names

\* The walk goes from "/" one name at a time and ends where a path is missing.
Reached(map, d) ==
    {k \in 0..Len(d) : \A j \in 0..k : SubSeq(d, 1, j) \in map}

\* Slip: the walk ends at the first location it finds.
Route_First(map, t) == <<>>

\* Where the walk ends; "/" if it does not begin.
Route(map, t) ==
    LET d == Directory(t)
    IN SubSeq(d, 1, Max(Reached(map, d) \cup {0}))

\* Slip: every step of the walk is looked up with loc_map[key].
Matched_Inserts(t) ==
    /\ chosen' = Route(locMap, t)
    /\ locMap' = locMap \cup {SubSeq(Directory(t), 1, k) :
                               k \in 0..Len(Directory(t))}

\* When the walk finds nothing, loc_map["/"] makes a location for "/", empty.
Matched(t) ==
    /\ chosen' = Route(locMap, t)
    /\ locMap' = IF Reached(locMap, Directory(t)) = {}
                 THEN locMap \cup {<<>>} ELSE locMap

Request(t) ==
    /\ Matched(t)
    /\ target' = t
    /\ UNCHANGED config

Next == \E t \in Targets : Request(t)

Spec == Init /\ [][Next]_vars

-----------------------------------------------------------------------------
(***************************************************************************)
(* Properties                                                              *)
(***************************************************************************)

TypeOK ==
    /\ config \in Configs /\ config \subseteq locMap
    /\ locMap \subseteq SeqOf(Names, MaxDepth)
    /\ target \in Targets /\ chosen \in locMap

\* The target, as a string, begins with the path of a location.
BeginsWith(t, path) ==
    /\ IsPrefix(path, t.names)
    /\ path = t.names => t.slash

\* Whatever was requested before, the location is the most specific one whose
\* path the target begins with, except that the last name of a target may
\* stand for a directory.
MostSpecific ==
    \A path \in config : BeginsWith(target, path) => IsPrefix(path, chosen)

\* Requests leave the server as it was configured: every target is answered by
\* the location that would answer it first.
RoutesKept == \A t \in Targets : Route(locMap, t) = Route(Start(config), t)
=============================================================================
