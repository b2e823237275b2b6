----------------------------- MODULE ConfigProofs -----------------------------
(***************************************************************************)
(* The two passes over the configuration file agree: the second meets only *)
(* lines that the first has judged in the same block, and gives every      *)
(* server what is written for it.                                          *)
(***************************************************************************)
EXTENDS Config, FiniteSetTheorems, SequenceTheorems, WellFoundedInduction, TLAPS

-----------------------------------------------------------------------------
(***************************************************************************)
(* Sequences of values of any kind, and the records of a server and of a   *)
(* location                                                                *)
(***************************************************************************)

IsSeq(s) == \E S : s \in Seq(S)

LEMMA SeqFacts ==
    ASSUME NEW s, IsSeq(s)
    PROVE  Len(s) \in Nat /\ DOMAIN s = 1..Len(s) /\ (s = <<>> <=> Len(s) = 0)
BY EmptySeq, LenProperties DEF IsSeq

LEMMA NoElements == IsSeq(<<>>) /\ Len(<<>>) = 0
<1>1. <<>> \in Seq({})
  OBVIOUS
<1> QED
  BY <1>1 DEF IsSeq

LEMMA AppendAny ==
    ASSUME NEW s, IsSeq(s), NEW x
    PROVE  /\ IsSeq(Append(s, x)) /\ Len(s) \in Nat /\ Len(Append(s, x)) = Len(s) + 1
           /\ \A i \in 1..Len(s) : Append(s, x)[i] = s[i]
           /\ Append(s, x)[Len(s) + 1] = x
<1>1. PICK S : s \in Seq(S)
  BY DEF IsSeq
<1> DEFINE T == S \cup {x}
<1>2. s \in Seq(T) /\ x \in T
  BY <1>1, SeqMonotonic
<1> HIDE DEF T
<1> QED
  BY <1>2, AppendProperties DEF IsSeq

LEMMA AppendAt ==
    ASSUME NEW s, IsSeq(s), NEW x, NEW p \in 1..Len(s)
    PROVE  Append(s, x)[p] = s[p]
BY AppendAny

\* What is known of s with x in place of its n-th element.
ExceptOf(s, n, x) ==
    /\ IsSeq([s EXCEPT ![n] = x]) /\ Len([s EXCEPT ![n] = x]) = Len(s)
    /\ [s EXCEPT ![n] = x][n] = x
    /\ \A i \in 1..Len(s) : i # n => [s EXCEPT ![n] = x][i] = s[i]

LEMMA ExceptAny ==
    ASSUME NEW s, IsSeq(s), NEW n \in 1..Len(s), NEW x
    PROVE  ExceptOf(s, n, x)
<1>1. PICK S : s \in Seq(S)
  BY DEF IsSeq
<1> DEFINE T == S \cup {x}
<1>2. s \in Seq(T) /\ x \in T
  BY <1>1, SeqMonotonic
<1> HIDE DEF T
<1> QED
  BY <1>2, ExceptSeq DEF IsSeq, ExceptOf

ServerShape(v) ==
    /\ "fields" \in DOMAIN v /\ "locs" \in DOMAIN v
    /\ DOMAIN v.fields = OfServer /\ IsSeq(v.locs)

LocationShape(l) ==
    "path" \in DOMAIN l /\ "fields" \in DOMAIN l /\ DOMAIN l.fields = OfLocation

LEMMA NewServerShape == ServerShape(NewServer)
BY ConfigAssumption, NoElements DEF ServerShape, NewServer

LEMMA NewLocationShape ==
    ASSUME NEW l, NEW f
    PROVE  LocationShape(NewLocation(l, f)) /\ NewLocation(l, f).path = l.name
BY DEF LocationShape, NewLocation

\* A field of a record is replaced.
LEMMA FieldsReplaced ==
    ASSUME NEW v, "fields" \in DOMAIN v, NEW F
    PROVE  LET w == [v EXCEPT !.fields = F] IN
           DOMAIN w = DOMAIN v /\ w.fields = F /\ w.locs = v.locs /\ w.path = v.path
OBVIOUS

LEMMA LocsReplaced ==
    ASSUME NEW v, "locs" \in DOMAIN v, NEW L
    PROVE  LET w == [v EXCEPT !.locs = L] IN
           DOMAIN w = DOMAIN v /\ w.locs = L /\ w.fields = v.fields
OBVIOUS

\* What the fields are after a directive: one of them is another.
LEMMA UpdatedFacts ==
    ASSUME NEW f, NEW l, DOMAIN f = OfServer, l.key \in OfServer
    PROVE  /\ DOMAIN Updated(f, l) = OfServer
           /\ \A k \in OfServer \ {l.key} : Updated(f, l)[k] = f[k]
           /\ l.key \in Mapped => Updated(f, l)[l.key] = Inserted(f[l.key], l)
           /\ l.key \notin Mapped \cup {"root", "server_name"} =>
                  Updated(f, l)[l.key] = Value(l)
BY DEF Updated

LEMMA OverriddenFacts ==
    ASSUME NEW f, NEW l, DOMAIN f = OfLocation, l.key \in OfLocation
    PROVE  /\ DOMAIN Overridden(f, l) = OfLocation
           /\ \A k \in OfLocation \ {l.key} : Overridden(f, l)[k] = f[k]
           /\ l.key = "return" => Overridden(f, l)[l.key] = Inserted(f[l.key], l)
           /\ l.key = "cgi" => Overridden(f, l)[l.key] = {Entry(l)}
           /\ l.key \notin {"return", "cgi"} => Overridden(f, l)[l.key] = LocationValue(l)
BY DEF Overridden

LEMMA OverriddenElse ==
    ASSUME NEW f, NEW l, DOMAIN f = OfLocation, l.key \in OfLocation,
           NEW k \in OfLocation, l.key # k
    PROVE  Overridden(f, l)[k] = f[k]
BY OverriddenFacts

\* No keyword is empty, a comment, a semicolon or a bracket.
LEMMA Keywords ==
    ASSUME NEW k \in OfServer \cup OfLocation \cup {"server", "location"}
    PROVE  k # Blank /\ k \notin {";", "#", "}"}
<1>1. k # Blank
  BY Zenon DEF OfServer, OfLocation, Single, Mapped, Blank
<1>2. k \notin {";", "#", "}"}
  BY DEF OfServer, OfLocation, Single, Mapped
<1> QED
  BY <1>1, <1>2

LEMMA KeywordSorts ==
    /\ "server" \notin OfServer \cup OfLocation /\ "location" \notin OfServer \cup OfLocation
    /\ "listen" \in OfServer /\ "listen" \notin OfLocation /\ Mapped \subseteq OfServer
    /\ Blank \notin {"server", "location", "}"}
<1>1. Blank \notin {"server", "location", "}"}
  BY Zenon DEF Blank
<1> QED
  BY <1>1 DEF OfServer, OfLocation, Single, Mapped

-----------------------------------------------------------------------------
(***************************************************************************)
(* Types                                                                   *)
(***************************************************************************)

Shape ==
    /\ phase \in {"validate", "parse", "done", "invalid", "fault"}
    /\ IsSeq(file) /\ Len(file) <= MaxLines /\ at \in 0..Len(file)
    /\ set \in BOOLEAN /\ inLoc \in BOOLEAN /\ depth \in 0..Len(file)
    /\ IsSeq(servers) /\ \A i \in 1..Len(servers) : ServerShape(servers[i])
    /\ LocationShape(loc)

LEMMA ShapeTypes == Shape => TypeOK
BY SeqFacts DEF Shape, TypeOK, ServerShape, LocationShape

LEMMA InitShape == Init => Shape
<1> SUFFICES ASSUME Init PROVE Shape
  OBVIOUS
<1>1. LocationShape(loc)
  <2>1. loc = NewLocation([name |-> Blank], Defaults)
    BY DEF Init
  <2> QED
    BY <2>1, NewLocationShape
<1>2. file = <<>> /\ servers = <<>>
  BY DEF Init
<1>3. IsSeq(file) /\ Len(file) = 0 /\ IsSeq(servers) /\ Len(servers) = 0
  BY <1>2, NoElements
<1>4. phase = "validate" /\ set = FALSE /\ depth = 0 /\ inLoc = FALSE /\ at = 0
  BY DEF Init
<1>5. MaxLines \in Nat
  BY ConfigAssumption
<1>6. \A i \in 1..Len(servers) : ServerShape(servers[i])
  BY <1>3
<1>7. set \in BOOLEAN /\ inLoc \in BOOLEAN
  BY <1>4
<1>8. phase = "validate" /\ depth = 0 /\ at = 0
  BY <1>4
<1> QED
  BY <1>1, <1>3, <1>5, <1>6, <1>7, <1>8 DEF Shape

\* The first pass reads one more line and builds nothing.
LEMMA ValidateShape ==
    ASSUME Shape, NEW l, Validate(l), phase' \in {phase, "invalid"}, set' \in BOOLEAN,
           inLoc' \in BOOLEAN, depth' \in 0..(depth + 1)
    PROVE  Shape'
<1>1. /\ IsSeq(file') /\ Len(file) \in Nat /\ Len(file') = Len(file) + 1
      /\ Len(file) < MaxLines /\ UNCHANGED <<at, servers, loc>>
  BY AppendAny DEF Validate, Shape
<1>2. IsSeq(servers') /\ \A i \in 1..Len(servers') : ServerShape(servers'[i])
  BY <1>1 DEF Shape
<1> QED
  BY <1>1, <1>2, ConfigAssumption DEF Shape

LEMMA FirstPassShape == Shape /\ FirstPass => Shape'
<1> SUFFICES ASSUME Shape, FirstPass PROVE Shape'
  OBVIOUS
<1>1. depth \in Nat /\ inLoc \in BOOLEAN /\ set \in BOOLEAN
  BY SeqFacts DEF Shape
<1>2. CASE \E l \in Lines : Pass(l) \/ Reject(l)
  BY <1>1, <1>2, ValidateShape DEF Pass, Reject
<1>3. CASE \E l \in Lines : OpenBlock(l)
  BY <1>1, <1>3, ValidateShape DEF OpenBlock, IsLocation
<1>4. CASE \E l \in Lines : CloseBlock(l)
  <2>1. PICK l \in Lines : CloseBlock(l)
    BY <1>4
  <2>2. /\ Validate(l) /\ phase' = phase /\ set' = set /\ inLoc' = FALSE
        /\ depth > 0 /\ depth' = depth - 1
    BY <2>1 DEF CloseBlock, IsClose
  <2>3. depth' \in 0..(depth + 1)
    BY <1>1, <2>2
  <2> QED
    BY <1>1, <2>2, <2>3, ValidateShape
<1>5. CASE EndOfFile
  <2>1. phase' \in {"parse", "invalid"} /\ inLoc' = FALSE
        /\ UNCHANGED <<file, set, depth, at, servers, loc>>
    BY <1>5 DEF EndOfFile
  <2> QED
    BY <2>1 DEF Shape
<1> QED
  BY <1>2, <1>3, <1>4, <1>5 DEF FirstPass

\* The second pass goes on to the next line.
LEMMA ReadShape ==
    ASSUME Shape, Read, phase' \in {phase, "invalid", "fault"}, inLoc' \in BOOLEAN,
           IsSeq(servers'), \A i \in 1..Len(servers') : ServerShape(servers'[i]),
           LocationShape(loc')
    PROVE  Shape'
<1>1. Len(file) \in Nat /\ at' \in 0..Len(file) /\ UNCHANGED <<file, set, depth>>
  BY SeqFacts DEF Read, Shape
<1> QED
  BY <1>1 DEF Shape

LEMMA ParseShape ==
    ASSUME Shape, Parse, phase' \in {phase, "invalid", "fault"}, inLoc' \in BOOLEAN,
           IsSeq(servers'), \A i \in 1..Len(servers') : ServerShape(servers'[i]),
           LocationShape(loc')
    PROVE  Shape'
BY ReadShape DEF Parse

\* A directive of a server changes the fields of the last one.
LEMMA DirectiveFacts ==
    ASSUME Shape, ParseDirective, Defined
    PROVE  LET n == Len(servers) IN
           /\ n \in 1..Len(servers) /\ IsSeq(servers') /\ Len(servers') = n
           /\ servers'[n].fields = Updated(servers[n].fields, Line)
           /\ servers'[n].locs = servers[n].locs
           /\ DOMAIN servers'[n] = DOMAIN servers[n]
           /\ \A i \in 1..n : i # n => servers'[i] = servers[i]
<1> DEFINE n == Len(servers)
           v == [servers[n] EXCEPT !.fields = Updated(servers[n].fields, Line)]
<1>1. n \in 1..n /\ ServerShape(servers[n])
  BY SeqFacts DEF Shape, Defined
<1>2. servers' = [servers EXCEPT ![n] = v]
  BY DEF ParseDirective
<1>3. DOMAIN v = DOMAIN servers[n] /\ v.locs = servers[n].locs
      /\ v.fields = Updated(servers[n].fields, Line)
  BY <1>1, FieldsReplaced DEF ServerShape
<1>4. IsSeq(servers) /\ n \in 1..Len(servers)
  BY <1>1 DEF Shape
<1> HIDE DEF n, v
<1>5. /\ IsSeq(servers') /\ Len(servers') = Len(servers) /\ servers'[n] = v
      /\ \A i \in 1..Len(servers) : i # n => servers'[i] = servers[i]
  <2>1. ExceptOf(servers, n, v)
    BY <1>4, ExceptAny
  <2> QED
    BY <1>2, <2>1, Zenon DEF ExceptOf
<1> QED
  BY <1>1, <1>3, <1>5 DEF n

\* The end of a location block adds the location to the last server.
LEMMA CloseFacts ==
    ASSUME Shape, ParseClose, servers # <<>>
    PROVE  LET n == Len(servers) IN
           /\ n \in 1..Len(servers) /\ IsSeq(servers') /\ Len(servers') = n
           /\ servers'[n].locs = Append(servers[n].locs, loc)
           /\ servers'[n].fields = servers[n].fields
           /\ DOMAIN servers'[n] = DOMAIN servers[n]
           /\ \A i \in 1..n : i # n => servers'[i] = servers[i]
<1> DEFINE n == Len(servers)
           v == [servers[n] EXCEPT !.locs = Append(servers[n].locs, loc)]
<1>1. n \in 1..n /\ ServerShape(servers[n])
  BY SeqFacts DEF Shape
<1>2. servers' = [servers EXCEPT ![n] = v]
  BY DEF ParseClose
<1>3. DOMAIN v = DOMAIN servers[n] /\ v.fields = servers[n].fields
      /\ v.locs = Append(servers[n].locs, loc)
  BY <1>1, LocsReplaced DEF ServerShape
<1>4. IsSeq(servers) /\ n \in 1..Len(servers)
  BY <1>1 DEF Shape
<1> HIDE DEF n, v
<1>5. /\ IsSeq(servers') /\ Len(servers') = Len(servers) /\ servers'[n] = v
      /\ \A i \in 1..Len(servers) : i # n => servers'[i] = servers[i]
  <2>1. ExceptOf(servers, n, v)
    BY <1>4, ExceptAny
  <2> QED
    BY <1>2, <2>1, Zenon DEF ExceptOf
<1> QED
  BY <1>1, <1>3, <1>5 DEF n

LEMMA OverrideFacts ==
    ASSUME Shape, ParseOverride
    PROVE  /\ LocationShape(loc') /\ loc'.path = loc.path
           /\ loc'.fields = Overridden(loc.fields, Line)
<1>1. loc' = [loc EXCEPT !.fields = Overridden(loc.fields, Line)]
  BY DEF ParseOverride
<1>2. DOMAIN loc' = DOMAIN loc /\ loc'.path = loc.path
      /\ loc'.fields = Overridden(loc.fields, Line)
  BY <1>1, FieldsReplaced DEF Shape, LocationShape
<1>3. DOMAIN Overridden(loc.fields, Line) = OfLocation
  BY OverriddenFacts DEF Shape, LocationShape, ParseOverride
<1> QED
  BY <1>2, <1>3 DEF LocationShape, Shape

LEMMA SecondPassShape == Shape /\ SecondPass => Shape'
<1> SUFFICES ASSUME Shape, SecondPass PROVE Shape'
  OBVIOUS
<1>1. /\ IsSeq(servers) /\ \A i \in 1..Len(servers) : ServerShape(servers[i])
      /\ LocationShape(loc) /\ inLoc \in BOOLEAN
  BY DEF Shape
<1>2. CASE Throw \/ ParseNothing
  <2>1. /\ Read /\ phase' \in {phase, "invalid"} /\ UNCHANGED <<inLoc, servers, loc>>
    BY <1>2 DEF Throw, ParseNothing, Parse
  <2> QED
    BY <1>1, <2>1, ReadShape
<1>3. CASE ParseServer
  <2>1. /\ IsSeq(servers') /\ Len(servers) \in Nat /\ Len(servers') = Len(servers) + 1
        /\ \A i \in 1..Len(servers) : servers'[i] = servers[i]
        /\ servers'[Len(servers) + 1] = NewServer
    BY <1>1, <1>3, AppendAny DEF ParseServer
  <2>2. \A i \in 1..Len(servers') : ServerShape(servers'[i])
    BY <1>1, <2>1, NewServerShape
  <2> QED
    BY <1>1, <1>3, <2>1, <2>2, ParseShape DEF ParseServer
<1>4. CASE ParseDirective
  <2>1. Parse /\ phase' \in {phase, "fault"} /\ UNCHANGED <<inLoc, loc>>
    BY <1>4 DEF ParseDirective
  <2>2. CASE Defined
    <3>1. /\ Len(servers) \in 1..Len(servers) /\ IsSeq(servers')
          /\ Len(servers') = Len(servers)
          /\ ServerShape(servers'[Len(servers)])
      BY <1>1, <1>4, <2>2, DirectiveFacts, UpdatedFacts DEF ServerShape, ParseDirective
    <3>2. \A i \in 1..Len(servers') : ServerShape(servers'[i])
      BY <1>1, <1>4, <2>2, <3>1, DirectiveFacts
    <3> QED
      BY <1>1, <2>1, <3>1, <3>2, ParseShape
  <2>3. CASE ~Defined
    <3>1. servers' = servers
      BY <1>4, <2>3 DEF ParseDirective
    <3> QED
      BY <1>1, <2>1, <3>1, ParseShape
  <2> QED
    BY <2>2, <2>3
<1>5. CASE ParseLocation
  <2>1. /\ Parse /\ phase' \in {phase, "fault"} /\ inLoc' = TRUE /\ servers' = servers
        /\ loc' = loc \/ loc' = NewLocation(Line, Inherited)
    BY <1>5 DEF ParseLocation
  <2> QED
    BY <1>1, <2>1, NewLocationShape, ParseShape
<1>6. CASE ParseOverride
  <2>1. /\ Parse /\ phase' \in {phase, "fault"} /\ UNCHANGED <<inLoc, servers>>
    BY <1>6 DEF ParseOverride
  <2> QED
    BY <1>1, <1>6, <2>1, OverrideFacts, ParseShape
<1>7. CASE ParseClose
  <2>1. Parse /\ inLoc' = FALSE /\ UNCHANGED <<phase, loc>>
    BY <1>7 DEF ParseClose
  <2>2. CASE servers # <<>>
    <3>1. /\ Len(servers) \in 1..Len(servers) /\ IsSeq(servers')
          /\ Len(servers') = Len(servers)
      BY <1>7, <2>2, CloseFacts
    <3>2. ServerShape(servers'[Len(servers)])
      <4>1. ServerShape(servers[Len(servers)])
        BY <1>1, <3>1
      <4>2. /\ servers'[Len(servers)].locs = Append(servers[Len(servers)].locs, loc)
            /\ servers'[Len(servers)].fields = servers[Len(servers)].fields
            /\ DOMAIN servers'[Len(servers)] = DOMAIN servers[Len(servers)]
        BY <1>7, <2>2, CloseFacts
      <4>3. IsSeq(servers'[Len(servers)].locs)
        BY <4>1, <4>2, AppendAny DEF ServerShape
      <4> QED
        BY <4>1, <4>2, <4>3 DEF ServerShape
    <3>3. \A i \in 1..Len(servers') : ServerShape(servers'[i])
      BY <1>1, <1>7, <2>2, <3>1, <3>2, CloseFacts
    <3> QED
      BY <1>1, <2>1, <3>1, <3>3, ParseShape
  <2>3. CASE servers = <<>>
    <3>1. servers' = servers
      <4> DEFINE n == Len(servers)
                 v == [servers[n] EXCEPT !.locs = Append(servers[n].locs, loc)]
      <4>1. servers' = [servers EXCEPT ![n] = v]
        BY <1>7 DEF ParseClose
      <4>2. DOMAIN servers = {}
        BY <1>1, <2>3, SeqFacts
      <4> HIDE DEF n, v
      <4> QED
        BY <2>3, <4>1, <4>2
    <3> QED
      BY <1>1, <2>1, <3>1, ParseShape
  <2> QED
    BY <2>2, <2>3
<1>8. CASE Finish
  <2>1. phase' \in {"fault", "done"}
        /\ UNCHANGED <<file, set, depth, inLoc, at, servers, loc>>
    BY <1>8 DEF Finish
  <2> QED
    BY <2>1 DEF Shape
<1> QED
  BY <1>2, <1>3, <1>4, <1>5, <1>6, <1>7, <1>8 DEF SecondPass

LEMMA Shaped == Spec => []Shape
<1>1. Shape /\ [Next]_vars => Shape'
  <2>1. Shape /\ UNCHANGED vars => Shape'
    BY DEF Shape, vars
  <2> QED
    BY <2>1, FirstPassShape, SecondPassShape DEF Next
<1> QED
  BY <1>1, InitShape, PTL DEF Spec

\* The variables of the two passes keep their types: a position in the file, a
\* count of brackets, and servers and locations with a field for each keyword.
THEOREM TypeOKHolds == Spec => []TypeOK
BY Shaped, ShapeTypes, PTL

-----------------------------------------------------------------------------
(***************************************************************************)
(* The block around a line                                                 *)
(***************************************************************************)

\* Line p of the lines f is in a location block, or opens one.
InLocation(f, p) ==
    \E q \in 1..p : f[q].key = "location" /\ \A r \in q..p : f[r].key # "}"

ServerBefore(f, p) == \E q \in 1..(p - 1) : f[q].key = "server"

\* What the second pass relies on in a line the first has accepted.
Judged(f, p) ==
    f[p].key \in {"location"} \cup OfServer \cup OfLocation =>
        f[p].arity /\ ServerBefore(f, p)

\* One line further, a location opens, goes on or is left.
LEMMA OneMore ==
    ASSUME NEW n \in Nat
    PROVE  1..(n + 1) = (1..n) \cup {n + 1} /\ n + 2 = (n + 1) + 1
OBVIOUS

LEMMA InLocationNext ==
    ASSUME NEW f, NEW p \in Nat
    PROVE  InLocation(f, p + 1) <=>
               /\ f[p + 1].key = "location" \/ InLocation(f, p)
               /\ f[p + 1].key # "}"
<1> DEFINE Open(q, n) == f[q].key = "location" /\ \A r \in q..n : f[r].key # "}"
<1>1. ASSUME NEW q \in 1..p
      PROVE  Open(q, p + 1) <=> Open(q, p) /\ f[p + 1].key # "}"
  <2>1. q..(p + 1) = (q..p) \cup {p + 1}
    OBVIOUS
  <2> QED
    BY <2>1
<1>2. Open(p + 1, p + 1) <=> f[p + 1].key = "location" /\ f[p + 1].key # "}"
  <2>1. (p + 1)..(p + 1) = {p + 1}
    OBVIOUS
  <2> QED
    BY <2>1
<1>3. /\ InLocation(f, p) <=> \E q \in 1..p : Open(q, p)
      /\ InLocation(f, p + 1) <=> \E q \in 1..(p + 1) : Open(q, p + 1)
  BY DEF InLocation
<1>4. 1..(p + 1) = (1..p) \cup {p + 1}
  OBVIOUS
<1> HIDE DEF Open
<1> QED
  BY <1>1, <1>2, <1>3, <1>4

LEMMA InLocationNone == \A f : ~InLocation(f, 0)
BY DEF InLocation

LEMMA ServerBeforeNext ==
    ASSUME NEW f, NEW p \in Nat
    PROVE  ServerBefore(f, p + 2) <=> ServerBefore(f, p + 1) \/ f[p + 1].key = "server"
BY DEF ServerBefore

\* Lines behind line n make no difference up to it.
LEMMA SamePrefix ==
    ASSUME NEW f, NEW g, NEW n \in Nat, \A p \in 1..n : f[p] = g[p]
    PROVE  /\ InLocation(f, n) <=> InLocation(g, n)
           /\ ServerBefore(f, n + 1) <=> ServerBefore(g, n + 1)
           /\ \A p \in 1..n : Judged(f, p) <=> Judged(g, p)
<1>1. InLocation(f, n) <=> InLocation(g, n)
  <2>1. \A q \in 1..n : q..n \subseteq 1..n
    OBVIOUS
  <2>2. ASSUME NEW q \in 1..n
        PROVE  (\A r \in q..n : f[r].key # "}") <=> \A r \in q..n : g[r].key # "}"
    BY <2>1
  <2> QED
    BY <2>2 DEF InLocation
<1>2. \A p \in 1..(n + 1) : ServerBefore(f, p) <=> ServerBefore(g, p)
  BY DEF ServerBefore
<1> QED
  BY <1>1, <1>2 DEF Judged

\* What the first pass demands of a line it accepts.
LEMMA PassFacts ==
    ASSUME NEW l, IsNothing(l) \/ IsDirective(l)
    PROVE  /\ l.key \in {"location"} \cup OfServer \cup OfLocation => l.arity /\ set
           /\ l.key \notin {"server", "location", "}"}
<1>1. CASE IsNothing(l)
  <2>1. l.key \in {Blank, "#", ";"}
    BY <1>1, Zenon DEF IsNothing
  <2>2. l.key \notin OfServer \cup OfLocation \cup {"server", "location"}
    BY <2>1, Keywords
  <2>3. l.key # "}"
    BY <2>1, KeywordSorts
  <2> QED
    BY <2>2, <2>3
<1>2. CASE IsDirective(l)
  <2>1. set /\ l.key \in OfServer \cup OfLocation /\ l.arity
    BY <1>2 DEF IsDirective, WellFormed
  <2> QED
    BY <2>1, Keywords, KeywordSorts
<1> QED
  BY <1>1, <1>2

LEMMA OpensFacts ==
    ASSUME NEW l
    PROVE  /\ IsServer(l) => l.key = "server" /\ ~inLoc
           /\ IsLocation(l) => l.key = "location" /\ ~inLoc /\ set /\ l.arity
           /\ IsClose(l) => l.key = "}" /\ depth > 0
BY DEF IsServer, IsLocation, Opens, IsClose

-----------------------------------------------------------------------------
(***************************************************************************)
(* The passes agree                                                        *)
(***************************************************************************)

\* The two passes find the same block around each line, and what the first has
\* judged of a line holds when the second comes to it.
PassesAgree ==
    /\ phase # "fault"
    /\ phase \in {"validate", "parse"} => \A p \in DOMAIN file : Judged(file, p)
    /\ phase = "validate" => /\ inLoc <=> InLocation(file, Len(file))
                             /\ inLoc => depth > 0
                             /\ set => ServerBefore(file, Len(file) + 1)
                             /\ at = 0 /\ servers = <<>>
    /\ phase = "parse" => /\ inLoc <=> InLocation(file, at)
                          /\ ~InLocation(file, Len(file))
                          /\ ServerBefore(file, at + 1) => servers # <<>>

LEMMA InitAgree == Init => PassesAgree
<1> SUFFICES ASSUME Init PROVE PassesAgree
  OBVIOUS
<1>1. /\ phase = "validate" /\ file = <<>> /\ set = FALSE /\ inLoc = FALSE
      /\ at = 0 /\ servers = <<>>
  BY DEF Init
<1>2. Len(file) = 0 /\ DOMAIN file = {}
  BY <1>1, NoElements, SeqFacts
<1> QED
  BY <1>1, <1>2, InLocationNone DEF PassesAgree

\* A line is accepted: it is as the second pass will need it, and the block the
\* pass believes to be in is the one around the line.
LEMMA AcceptedAgree ==
    ASSUME Shape, PassesAgree, NEW l, Validate(l), phase' = phase,
           inLoc' \in BOOLEAN, set' \in BOOLEAN,
           l.key \in {"location"} \cup OfServer \cup OfLocation => l.arity /\ set,
           inLoc' <=> (l.key = "location" \/ inLoc) /\ l.key # "}",
           inLoc' => depth' > 0,
           set' => set \/ l.key = "server"
    PROVE  PassesAgree'
<1>1. PICK n \in Nat : n = Len(file)
  BY SeqFacts DEF Shape
<1>2. /\ phase = "validate" /\ file' = Append(file, l)
      /\ at' = at /\ servers' = servers /\ IsSeq(file)
  BY DEF Validate, Shape
<1>3. /\ IsSeq(file') /\ Len(file') = n + 1 /\ file'[n + 1] = l
      /\ \A p \in 1..n : file'[p] = file[p]
  <2> DEFINE h == Append(file, l)
  <2>1. /\ IsSeq(h) /\ Len(h) = Len(file) + 1 /\ h[Len(file) + 1] = l
        /\ \A p \in 1..Len(file) : h[p] = file[p]
    <3>1. IsSeq(file)
      BY <1>2
    <3>2. IsSeq(Append(file, l)) /\ Len(Append(file, l)) = Len(file) + 1
      BY <3>1, AppendAny
    <3>3. Append(file, l)[Len(file) + 1] = l
      BY <3>1, AppendAny
    <3>4. ASSUME NEW p \in 1..Len(file) PROVE Append(file, l)[p] = file[p]
      BY <3>1, AppendAt
    <3> QED
      BY <3>2, <3>3, <3>4
  <2>2. file' = h
    BY <1>2
  <2> HIDE DEF h
  <2> QED
    BY <1>1, <2>1, <2>2
<1> DEFINE g == file'
<1>4. DOMAIN file = 1..n /\ DOMAIN g = 1..(n + 1)
  BY <1>1, <1>2, <1>3, SeqFacts
<1>5. /\ \A p \in 1..n : Judged(file, p)
      /\ inLoc <=> InLocation(file, n)
      /\ set => ServerBefore(file, n + 1)
      /\ at = 0 /\ servers = <<>>
  BY <1>1, <1>2, <1>4 DEF PassesAgree
<1>6. /\ \A p \in 1..n : Judged(g, p)
      /\ inLoc <=> InLocation(g, n)
      /\ set => ServerBefore(g, n + 1)
  <2>1. \A p \in 1..n : g[p] = file[p]
    BY <1>3
  <2> HIDE DEF g
  <2> QED
    BY <1>5, <2>1, SamePrefix
<1>7. g[n + 1] = l
  BY <1>3
<1>8. \A p \in 1..(n + 1) : Judged(g, p)
  <2> HIDE DEF g
  <2>1. Judged(g, n + 1)
    BY <1>6, <1>7 DEF Judged
  <2>2. 1..(n + 1) = (1..n) \cup {n + 1}
    BY OneMore
  <2> QED
    BY <1>6, <2>1, <2>2
<1>9. (inLoc' <=> InLocation(g, n + 1)) /\ (set' => ServerBefore(g, n + 2))
  <2> HIDE DEF g
  <2> QED
    BY <1>6, <1>7, InLocationNext, ServerBeforeNext
<1>10. phase' = "validate" /\ at' = 0 /\ servers' = <<>>
  BY <1>2, <1>5
<1>11. n + 2 = (n + 1) + 1
  BY OneMore
<1> QED
  BY <1>3, <1>4, <1>8, <1>9, <1>10, <1>11 DEF PassesAgree

LEMMA FirstPassAgree == Shape /\ PassesAgree /\ FirstPass => PassesAgree'
<1> SUFFICES ASSUME Shape, PassesAgree, FirstPass PROVE PassesAgree'
  OBVIOUS
<1>0. set \in BOOLEAN /\ inLoc \in BOOLEAN /\ depth \in Nat
  BY SeqFacts DEF Shape
<1>1. ASSUME NEW l, Pass(l) PROVE PassesAgree'
  <2>1. Validate(l) /\ (IsNothing(l) \/ IsDirective(l))
        /\ UNCHANGED <<phase, set, depth, inLoc>>
    BY <1>1 DEF Pass
  <2>2. inLoc => depth > 0
    BY <2>1 DEF PassesAgree, Validate
  <2>3. /\ l.key \in {"location"} \cup OfServer \cup OfLocation => l.arity /\ set
        /\ l.key \notin {"server", "location", "}"}
    BY <2>1, PassFacts
  <2> QED
    BY <1>0, <2>1, <2>2, <2>3, AcceptedAgree
<1>2. ASSUME NEW l, OpenBlock(l) PROVE PassesAgree'
  <2>1. /\ Validate(l) /\ (IsServer(l) \/ IsLocation(l))
        /\ set' = TRUE /\ depth' = depth + 1 /\ inLoc' = IsLocation(l) /\ phase' = phase
    BY <1>2 DEF OpenBlock
  <2>2. depth' > 0
    BY <1>0, <2>1
  <2>3. /\ Validate(l) /\ phase' = phase /\ set' \in BOOLEAN
    BY <2>1
  <2>4. CASE IsServer(l)
    <3>1. l.key = "server" /\ ~inLoc
      BY <2>4, OpensFacts
    <3>2. ~IsLocation(l)
      BY <3>1 DEF IsLocation
    <3>3. inLoc' = FALSE
      BY <2>1, <3>2
    <3>4. l.key \notin {"location"} \cup OfServer \cup OfLocation /\ l.key # "}"
      BY <3>1, KeywordSorts
    <3> QED
      BY <2>2, <2>3, <3>1, <3>3, <3>4, AcceptedAgree
  <2>5. CASE IsLocation(l)
    <3>1. l.key = "location" /\ set /\ l.arity
      BY <2>5, OpensFacts
    <3>2. inLoc' = TRUE
      BY <2>1, <2>5
    <3>3. (l.key = "location" \/ inLoc) /\ l.key # "}"
      BY <3>1
    <3> QED
      BY <2>2, <2>3, <3>1, <3>2, <3>3, AcceptedAgree
  <2> QED
    BY <2>1, <2>4, <2>5
<1>3. ASSUME NEW l, CloseBlock(l) PROVE PassesAgree'
  <2>1. /\ Validate(l) /\ IsClose(l) /\ inLoc' = FALSE /\ phase' = phase /\ set' = set
    BY <1>3 DEF CloseBlock
  <2>2. /\ l.key = "}"
        /\ l.key \notin {"location"} \cup OfServer \cup OfLocation
    BY <2>1, OpensFacts, Keywords
  <2> QED
    BY <1>0, <2>1, <2>2, AcceptedAgree
<1>4. ASSUME NEW l, Reject(l) PROVE PassesAgree'
  BY <1>4 DEF Reject, PassesAgree
<1>5. ASSUME EndOfFile PROVE PassesAgree'
  <2>1. /\ phase = "validate" /\ inLoc' = FALSE
        /\ UNCHANGED <<file, depth, at, servers>>
        /\ phase' = IF depth = 0 THEN "parse" ELSE "invalid"
    BY <1>5 DEF EndOfFile, Balanced
  <2>2. CASE depth = 0
    <3>1. phase' = "parse" /\ ~inLoc /\ at' = 0
      BY <2>1, <2>2 DEF PassesAgree
    <3>2. /\ \A p \in DOMAIN file : Judged(file, p)
          /\ ~InLocation(file, Len(file))
      BY <2>1, <3>1 DEF PassesAgree
    <3>3. ~ServerBefore(file, 0 + 1)
      BY DEF ServerBefore
    <3> QED
      BY <2>1, <3>1, <3>2, <3>3, InLocationNone DEF PassesAgree
  <2>3. CASE depth # 0
    BY <2>1, <2>3 DEF PassesAgree
  <2> QED
    BY <2>2, <2>3
<1> QED
  BY <1>1, <1>2, <1>3, <1>4, <1>5 DEF FirstPass

\* The line the second pass comes to is as the first has judged it.
LEMMA LineFacts ==
    ASSUME Shape, PassesAgree, Parse
    PROVE  /\ at \in Nat /\ at' = at + 1 /\ at + 1 \in 1..Len(file) /\ file' = file
           /\ phase = "parse" /\ Line = file[at + 1]
           /\ inLoc <=> InLocation(file, at)
           /\ Line.key \in {"location"} \cup OfServer \cup OfLocation => Defined
<1>1. /\ at \in Nat /\ at' = at + 1 /\ at + 1 \in 1..Len(file) /\ file' = file
      /\ phase = "parse"
  BY SeqFacts DEF Parse, Read, Shape
<1>2. at + 1 \in DOMAIN file
  BY <1>1, SeqFacts DEF Shape
<1>3. Judged(file, at + 1) /\ (ServerBefore(file, at + 1) => servers # <<>>)
      /\ (inLoc <=> InLocation(file, at))
  BY <1>1, <1>2 DEF PassesAgree
<1> QED
  BY <1>1, <1>3 DEF Line, Judged, Defined

\* It is read as that, and the pass goes on.
LEMMA ParseAgree ==
    ASSUME Shape, PassesAgree, Parse, phase' = phase,
           inLoc' <=> (Line.key = "location" \/ inLoc) /\ Line.key # "}",
           Line.key = "server" \/ servers # <<>> => servers' # <<>>
    PROVE  PassesAgree'
<1>1. /\ at \in Nat /\ at' = at + 1 /\ file' = file
      /\ phase' = "parse" /\ Line = file[at + 1] /\ (inLoc <=> InLocation(file, at))
  BY LineFacts
<1>2. /\ \A p \in DOMAIN file : Judged(file, p)
      /\ ~InLocation(file, Len(file))
      /\ ServerBefore(file, at + 1) => servers # <<>>
  BY <1>1 DEF PassesAgree
<1>3. inLoc' <=> InLocation(file, at + 1)
  BY <1>1, InLocationNext
<1>4. ServerBefore(file, (at + 1) + 1) => servers' # <<>>
  BY <1>1, <1>2, ServerBeforeNext, OneMore
<1> QED
  BY <1>1, <1>2, <1>3, <1>4 DEF PassesAgree

LEMMA SecondPassAgree == Shape /\ PassesAgree /\ SecondPass => PassesAgree'
<1> SUFFICES ASSUME Shape, PassesAgree, SecondPass PROVE PassesAgree'
  OBVIOUS
<1>1. CASE Throw
  BY <1>1 DEF Throw, PassesAgree
<1>2. CASE ParseNothing
  <2>1. /\ Parse /\ UNCHANGED <<phase, inLoc, servers, loc>>
        /\ Line.key \in {Blank, "#", ";"} \cup (IF inLoc THEN {} ELSE {"}"})
    BY <1>2 DEF ParseNothing, Bare
  <2>2. /\ Line.key \notin {"server", "location"}
        /\ Line.key = "}" => ~inLoc
    BY <2>1, KeywordSorts
  <2>3. inLoc \in BOOLEAN
    BY DEF Shape
  <2> QED
    BY <2>1, <2>2, <2>3, ParseAgree
<1>3. CASE ParseServer
  <2>1. /\ Parse /\ ~inLoc /\ Line.key = "server" /\ servers' = Append(servers, NewServer)
        /\ UNCHANGED <<phase, inLoc, loc>>
    BY <1>3 DEF ParseServer
  <2>2. servers' # <<>>
    <3>1. IsSeq(servers') /\ Len(servers) \in Nat /\ Len(servers') = Len(servers) + 1
      BY <2>1, AppendAny DEF Shape
    <3>2. Len(servers') # 0
      BY <3>1
    <3> QED
      BY <3>1, <3>2, NoElements
  <2> QED
    BY <2>1, <2>2, ParseAgree
<1>4. CASE ParseDirective
  <2>1. /\ Parse /\ ~inLoc /\ Line.key \in OfServer /\ inLoc' = inLoc
    BY <1>4 DEF ParseDirective
  <2>2. Defined /\ Line.key \notin {"server", "location", "}"}
    BY <2>1, LineFacts, Keywords, KeywordSorts
  <2>3. servers' # <<>> /\ phase' = phase
    <3>1. phase' = phase /\ IsSeq(servers') /\ Len(servers') = Len(servers)
      BY <1>4, <2>2, DirectiveFacts DEF ParseDirective
    <3>2. Len(servers) # 0
      BY <2>2, SeqFacts DEF Defined, Shape
    <3> QED
      BY <3>1, <3>2, NoElements
  <2> QED
    BY <2>1, <2>2, <2>3, ParseAgree
<1>5. CASE ParseLocation
  <2>1. Parse /\ ~inLoc /\ Line.key = "location" /\ inLoc' = TRUE /\ servers' = servers
    BY <1>5 DEF ParseLocation
  <2>2. Defined /\ phase' = phase
    BY <1>5, <2>1, LineFacts DEF ParseLocation
  <2> QED
    BY <2>1, <2>2, ParseAgree
<1>6. CASE ParseOverride
  <2>1. Parse /\ inLoc /\ Line.key \in OfLocation /\ UNCHANGED <<inLoc, servers>>
    BY <1>6 DEF ParseOverride
  <2>2. Defined /\ Line.key \notin {"server", "location", "}"}
    BY <2>1, LineFacts, Keywords, KeywordSorts
  <2>3. phase' = phase
    BY <1>6, <2>2 DEF ParseOverride, Defined
  <2> QED
    BY <2>1, <2>2, <2>3, ParseAgree
<1>7. CASE ParseClose
  <2>1. Parse /\ inLoc /\ Line.key = "}" /\ inLoc' = FALSE /\ phase' = phase
    BY <1>7 DEF ParseClose
  <2>2. servers # <<>> => servers' # <<>>
    <3> SUFFICES ASSUME servers # <<>> PROVE servers' # <<>>
      OBVIOUS
    <3>1. IsSeq(servers') /\ Len(servers') = Len(servers)
      BY <1>7, CloseFacts
    <3>2. Len(servers) # 0
      BY SeqFacts DEF Shape
    <3> QED
      BY <3>1, <3>2, NoElements
  <2> QED
    BY <2>1, <2>2, ParseAgree
<1>8. CASE Finish
  <2>1. phase = "parse" /\ at = Len(file) /\ phase' = IF inLoc THEN "fault" ELSE "done"
    BY <1>8 DEF Finish
  <2>2. ~inLoc
    BY <2>1 DEF PassesAgree
  <2> QED
    BY <2>1, <2>2 DEF PassesAgree
<1> QED
  BY <1>1, <1>2, <1>3, <1>4, <1>5, <1>6, <1>7, <1>8 DEF SecondPass

\* Parser::parsing finds each line in the block in which
\* check_config_validation judged it.
THEOREM PassesAgreeHolds == Spec => []PassesAgree
<1>1. Shape /\ PassesAgree /\ [Next]_vars => PassesAgree'
  <2>1. PassesAgree /\ UNCHANGED vars => PassesAgree'
    BY DEF PassesAgree, vars
  <2> QED
    BY <2>1, FirstPassAgree, SecondPassAgree DEF Next
<1> QED
  BY <1>1, Shaped, InitAgree, PTL DEF Spec

\* What the first pass lets through the second reads without back() of an empty
\* list, without a word that is not there, and without looking past the end of
\* the file for a bracket.
THEOREM NoFaultHolds == Spec => []NoFault
<1>1. PassesAgree => NoFault
  BY DEF PassesAgree, NoFault
<1> QED
  BY <1>1, PassesAgreeHolds, PTL

-----------------------------------------------------------------------------
(***************************************************************************)
(* What is written up to a line, and one line further                      *)
(***************************************************************************)

\* The block of the location line q has not been left at line n.
Open(q, n) == q \in Keyed("location") /\ q <= n /\ \A r \in q..n : file[r].key # "}"

Ended(i, n) == {q \in LocationLines(i) : \E r \in q..n : file[r].key = "}"}

\* The server v, number i of the file, as written up to line n.
FieldsSoFar(v, i, n) ==
    \A k \in OfServer \ {"root", "server_name"} : v.fields[k] = Written(i, k, n + 1)

LocsSoFar(v, i, n) ==
    /\ Len(v.locs) = Cardinality(Ended(i, n))
    /\ \A q \in Ended(i, n) :
          LET l == v.locs[Cardinality({r \in LocationLines(i) : r <= q})]
          IN /\ l.path = file[q].name
             /\ \A k \in OfLocation : LocationAsWritten(l, i, q, k, n + 1)

\* The location l, the only one whose block is open at line n, in server i.
LocSoFar(l, i, n) ==
    \E q \in Keyed("location") :
        /\ Open(q, n) /\ \A r \in Keyed("location") : Open(r, n) => r = q
        /\ Owner(q) = i /\ l.path = file[q].name
        /\ \A k \in OfLocation : LocationAsWritten(l, i, q, k, n + 1)

\* A server with the port of an earlier one has no listen line of its own.
PortsSoFar(ss, n) ==
    \A j \in 1..Len(ss) : \A i \in 1..(j - 1) :
        ss[i].fields["listen"] = ss[j].fields["listen"] =>
            OwnLines(j, "listen", n + 1) = {}

\* What the second pass has built is what is written up to the line it is at.
SoFar(ss, n, l, in) ==
    /\ Len(ss) = Owner(n)
    /\ \A i \in 1..Len(ss) : FieldsSoFar(ss[i], i, n) /\ LocsSoFar(ss[i], i, n)
    /\ in => LocSoFar(l, Len(ss), n)
    /\ PortsSoFar(ss, n)

ReadSoFar ==
    /\ phase = "parse" => SoFar(servers, at, loc, inLoc)
    /\ phase = "done" => /\ SoFar(servers, at, loc, inLoc)
                         /\ at = Len(file) /\ ~inLoc /\ ~InLocation(file, at)

LEMMA KeyedFacts ==
    ASSUME IsSeq(file)
    PROVE  \A k : \A p : p \in Keyed(k) <=> p \in 1..Len(file) /\ file[p].key = k
BY SeqFacts DEF Keyed

LEMMA OwnerTypes ==
    ASSUME IsSeq(file), NEW p \in Nat
    PROVE  /\ IsFiniteSet({q \in Keyed("server") : q <= p}) /\ Owner(p) \in Nat
<1>1. Len(file) \in Nat /\ {q \in Keyed("server") : q <= p} \subseteq 1..Len(file)
  BY SeqFacts, KeyedFacts
<1>2. IsFiniteSet(1..Len(file))
  BY <1>1, FS_Interval
<1>3. IsFiniteSet({q \in Keyed("server") : q <= p})
  BY <1>1, <1>2, FS_Subset
<1> QED
  BY <1>3, FS_CardinalityType DEF Owner

LEMMA OwnerNone == IsSeq(file) => Owner(0) = 0
<1> SUFFICES ASSUME IsSeq(file) PROVE Owner(0) = 0
  OBVIOUS
<1>1. {q \in Keyed("server") : q <= 0} = {}
  BY SeqFacts, KeyedFacts
<1> QED
  BY <1>1, FS_EmptySet DEF Owner

LEMMA OwnerNext ==
    ASSUME IsSeq(file), NEW p \in Nat, p + 1 \in 1..Len(file)
    PROVE  /\ Owner(p) \in Nat
           /\ file[p + 1].key = "server" => Owner(p + 1) = Owner(p) + 1
           /\ file[p + 1].key # "server" => Owner(p + 1) = Owner(p)
<1> DEFINE S(n) == {q \in Keyed("server") : q <= n}
<1>1. \A q \in Keyed("server") : q \in Nat
  BY SeqFacts, KeyedFacts
<1>2. IsFiniteSet(S(p)) /\ Owner(p) \in Nat /\ p + 1 \notin S(p)
  BY OwnerTypes
<1>3. CASE file[p + 1].key = "server"
  <2>1. p + 1 \in Keyed("server")
    BY <1>3, KeyedFacts
  <2>2. S(p + 1) = S(p) \cup {p + 1}
    BY <1>1, <2>1
  <2>3. Cardinality(S(p) \cup {p + 1}) = Cardinality(S(p)) + 1
    BY <1>2, FS_AddElement
  <2> QED
    BY <1>2, <1>3, <2>2, <2>3 DEF Owner
<1>4. CASE file[p + 1].key # "server"
  <2>1. p + 1 \notin Keyed("server")
    BY <1>4, KeyedFacts
  <2>2. S(p + 1) = S(p)
    BY <1>1, <2>1
  <2> QED
    BY <1>2, <1>4, <2>2 DEF Owner
<1> QED
  BY <1>3, <1>4

LEMMA OwnerMonotone ==
    ASSUME IsSeq(file), NEW p \in Nat, NEW q \in Nat, p <= q
    PROVE  Owner(p) <= Owner(q)
<1>1. \A r \in Keyed("server") : r \in Nat
  BY SeqFacts, KeyedFacts
<1>2. {r \in Keyed("server") : r <= p} \in SUBSET {r \in Keyed("server") : r <= q}
  BY <1>1
<1> QED
  BY <1>2, OwnerTypes, FS_Subset DEF Owner

\* The lines of a block, and the block a line is in.
LEMMA BlockFacts ==
    ASSUME IsSeq(file), NEW q \in Keyed("location"), NEW n \in Nat, n + 1 \in 1..Len(file)
    PROVE  /\ q \in Nat /\ q >= 1 /\ q \in 1..Len(file)
           /\ n + 1 \in Block(q) <=> Open(q, n) /\ file[n + 1].key # "}"
<1>1. q \in 1..Len(file) /\ q \in Nat /\ q >= 1 /\ Len(file) \in Nat
  BY SeqFacts, KeyedFacts
<1>2. n + 1 \in DOMAIN file
  BY SeqFacts
<1>3. ASSUME q <= n PROVE q..(n + 1) = (q..n) \cup {n + 1}
  BY <1>1, <1>3
<1>4. n + 1 > q <=> q <= n
  BY <1>1
<1> QED
  BY <1>1, <1>2, <1>3, <1>4 DEF Block, Open

LEMMA InLocationOpen ==
    ASSUME IsSeq(file), NEW n \in 0..Len(file)
    PROVE  InLocation(file, n) <=> \E q \in Keyed("location") : Open(q, n)
<1>1. Len(file) \in Nat /\ n \in Nat
  BY SeqFacts
<1>2. \A q : q \in Keyed("location") /\ q <= n <=> q \in 1..n /\ file[q].key = "location"
  BY <1>1, KeyedFacts
<1> QED
  BY <1>2 DEF InLocation, Open

\* The lines that count for server i: one more is one of its own, outside the
\* blocks of locations, or none.
LEMMA OwnLinesNext ==
    ASSUME IsSeq(file), NEW n \in Nat, n + 1 \in 1..Len(file), NEW i, NEW k
    PROVE  OwnLines(i, k, (n + 1) + 1) =
               IF /\ file[n + 1].key = k /\ Owner(n + 1) = i
                  /\ ~(InLocation(file, n) /\ file[n + 1].key # "}")
               THEN OwnLines(i, k, n + 1) \cup {n + 1} ELSE OwnLines(i, k, n + 1)
<1> DEFINE In(p) == \A q \in Keyed("location") : p \notin Block(q)
<1>1. Len(file) \in Nat /\ n \in 0..Len(file)
  BY SeqFacts
<1>2. In(n + 1) <=> ~(InLocation(file, n) /\ file[n + 1].key # "}")
  <2>1. In(n + 1) <=> \A q \in Keyed("location") : ~(Open(q, n) /\ file[n + 1].key # "}")
    BY BlockFacts
  <2> QED
    BY <1>1, <2>1, InLocationOpen
<1>3. \A p \in Keyed(k) : p \in Nat
  BY <1>1, KeyedFacts
<1>4. n + 1 \in Keyed(k) <=> file[n + 1].key = k
  BY KeyedFacts
<1>5. \A p \in Keyed(k) : p < (n + 1) + 1 <=> p < n + 1 \/ p = n + 1
  BY <1>3
<1>6. n + 1 < (n + 1) + 1 /\ ~(n + 1 < n + 1)
  OBVIOUS
<1>7. \A e, p : p \in OwnLines(i, k, e) <=> p \in Keyed(k) /\ p < e /\ Owner(p) = i /\ In(p)
  BY DEF OwnLines
<1> HIDE DEF In
<1>8. ASSUME NEW p
      PROVE  p \in OwnLines(i, k, (n + 1) + 1) <=>
                 \/ p \in OwnLines(i, k, n + 1)
                 \/ /\ p = n + 1 /\ n + 1 \in Keyed(k) /\ Owner(n + 1) = i /\ In(n + 1)
  <2>1. CASE p \in Keyed(k) /\ p # n + 1
    BY <1>5, <1>7, <2>1
  <2>2. CASE p = n + 1
    BY <1>6, <1>7, <2>2
  <2>3. CASE p \notin Keyed(k)
    BY <1>7, <2>3
  <2> QED
    BY <2>1, <2>2, <2>3
<1>9. CASE n + 1 \in Keyed(k) /\ Owner(n + 1) = i /\ In(n + 1)
  <2>1. OwnLines(i, k, (n + 1) + 1) = OwnLines(i, k, n + 1) \cup {n + 1}
    BY <1>8, <1>9
  <2> QED
    BY <1>2, <1>4, <1>9, <2>1
<1>10. CASE ~(n + 1 \in Keyed(k) /\ Owner(n + 1) = i /\ In(n + 1))
  <2>1. OwnLines(i, k, (n + 1) + 1) = OwnLines(i, k, n + 1)
    BY <1>8, <1>10
  <2> QED
    BY <1>2, <1>4, <1>10, <2>1
<1> QED
  BY <1>9, <1>10

\* The last of some lines, and one behind them.
LEMMA MaxNext ==
    ASSUME NEW n \in Nat, NEW S, S \subseteq 1..n
    PROVE  Max(S \cup {n + 1}) = n + 1
<1> DEFINE T == S \cup {n + 1}
<1>1. n + 1 \in T /\ \A y \in T : n + 1 >= y
  OBVIOUS
<1>2. \A x \in T : (\A y \in T : x >= y) => x = n + 1
  BY <1>1
<1> HIDE DEF T
<1> QED
  BY <1>1, <1>2 DEF Max, T

\* The smallest of some numbers.
LEMMA LeastElement ==
    ASSUME NEW T, T \subseteq Nat, T # {}
    PROVE  \E x \in T : \A y \in T : x <= y
<1> DEFINE R == OpToRel(<, Nat)
<1>1. IsWellFoundedOn(R, Nat)
  BY NatLessThanWellFounded
<1>2. \A x, y \in Nat : x < y => <<x, y>> \in R
  BY DEF OpToRel
<1>3. ASSUME NEW Q, NEW S, IsWellFoundedOn(Q, S), T \subseteq S
      PROVE  \E x \in T : \A y \in T : ~(<<y, x>> \in Q)
  BY <1>3, WFMin
<1> HIDE DEF R
<1>4. PICK x \in T : \A y \in T : ~(<<y, x>> \in R)
  BY <1>1, <1>3
<1>5. ASSUME NEW y \in T
      PROVE  x <= y
  <2>1. x \in Nat /\ y \in Nat
    OBVIOUS
  <2>2. ~(y < x)
    BY <1>2, <1>4, <2>1
  <2> QED
    BY <2>1, <2>2
<1> QED
  BY <1>5

\* Of the lines with a name there is a first one.
LEMMA FirstOfName ==
    ASSUME NEW n \in Nat, NEW S, S \subseteq 1..n, NEW p \in S
    PROVE  \E q \in S : /\ file[q].name = file[p].name
                        /\ \A r \in S : file[r].name = file[q].name => q <= r
<1> DEFINE N == {q \in S : file[q].name = file[p].name}
<1>1. N \subseteq Nat /\ N # {}
  <2>1. p \in N
    OBVIOUS
  <2>2. 1..n \subseteq Nat
    OBVIOUS
  <2> QED
    BY <2>1, <2>2
<1>2. \A q : q \in N <=> q \in S /\ file[q].name = file[p].name
  OBVIOUS
<1> HIDE DEF N
<1>3. PICK q \in N : \A r \in N : q <= r
  BY <1>1, LeastElement
<1> QED
  BY <1>2, <1>3

\* The first line of each name in ps.
First(p, ps) == p \in ps /\ \A q \in ps : file[q].name = file[p].name => p <= q

LEMMA EntryName == ASSUME NEW l PROVE Entry(l)[1] = l.name
BY DEF Entry

LEMMA FirstEntriesFacts ==
    ASSUME NEW ps
    PROVE  /\ \A p : First(p, ps) => Entry(file[p]) \in FirstEntries(ps)
           /\ \A e \in FirstEntries(ps) : \E p : First(p, ps) /\ e = Entry(file[p])
BY DEF FirstEntries, First

LEMMA FirstEntriesNone == FirstEntries({}) = {}
BY DEF FirstEntries

LEMMA FirstEntriesOne ==
    ASSUME NEW p \in Nat
    PROVE  FirstEntries({p}) = {Entry(file[p])}
<1>1. \A q : First(q, {p}) <=> q = p
  BY DEF First
<1> QED
  BY <1>1, FirstEntriesFacts

\* map.insert keeps the first entry of a name.
LEMMA FirstEntriesNext ==
    ASSUME NEW n \in Nat, NEW S, S \subseteq 1..n
    PROVE  FirstEntries(S \cup {n + 1}) = Inserted(FirstEntries(S), file[n + 1])
<1> DEFINE T == S \cup {n + 1}
           e == Entry(file[n + 1])
           Known == \E q \in S : file[q].name = file[n + 1].name
<1>1. \A p \in S : p \in Nat /\ p <= n + 1 /\ p # n + 1
  OBVIOUS
<1>2. \A p : p \in T <=> p \in S \/ p = n + 1
  OBVIOUS
<1>3. n + 1 \in Nat
  OBVIOUS
<1>4. ASSUME NEW p \in S
      PROVE  First(p, T) <=> First(p, S)
  BY <1>1, <1>2 DEF First
<1>5. First(n + 1, T) <=> ~Known
  <2>1. ASSUME NEW q \in S PROVE ~(n + 1 <= q)
    BY <1>1
  <2>2. n + 1 <= n + 1
    BY <1>3
  <2> HIDE DEF T
  <2> QED
    BY <1>2, <2>1, <2>2 DEF First
<1>6. \A p : First(p, T) <=> First(p, S) \/ (p = n + 1 /\ ~Known)
  <2>1. \A p : First(p, S) => p \in S /\ p # n + 1
    BY <1>1 DEF First
  <2>2. \A p : First(p, T) => p \in S \/ p = n + 1
    BY <1>2 DEF First
  <2> HIDE DEF T, Known
  <2>3. \A p : p \in S => (First(p, T) <=> First(p, S)) /\ p # n + 1
    BY <1>1, <1>4
  <2>4. ~First(n + 1, S)
    BY <2>1
  <2> QED
    BY <1>5, <2>1, <2>2, <2>3, <2>4
<1>7. (\E x \in FirstEntries(S) : x[1] = file[n + 1].name) <=> Known
  <2>1. ASSUME NEW x \in FirstEntries(S), x[1] = file[n + 1].name
        PROVE  Known
    <3>1. PICK p : First(p, S) /\ x = Entry(file[p])
      BY FirstEntriesFacts
    <3> QED
      BY <2>1, <3>1, EntryName DEF First
  <2>2. ASSUME Known
        PROVE  \E x \in FirstEntries(S) : x[1] = file[n + 1].name
    <3>1. PICK p \in S : file[p].name = file[n + 1].name
      BY <2>2
    <3>2. PICK q \in S : /\ file[q].name = file[p].name
                         /\ \A r \in S : file[r].name = file[q].name => q <= r
      BY FirstOfName
    <3>3. Entry(file[q]) \in FirstEntries(S)
      BY <3>2, FirstEntriesFacts DEF First
    <3> QED
      BY <3>1, <3>2, <3>3, EntryName
  <2> QED
    BY <2>1, <2>2
<1> HIDE DEF T, Known
<1>8. CASE Known
  <2>1. \A p : First(p, T) <=> First(p, S)
    BY <1>6, <1>8
  <2>2. FirstEntries(T) = FirstEntries(S)
    <3>1. \A x : x \in FirstEntries(T) => x \in FirstEntries(S)
      BY <2>1, FirstEntriesFacts
    <3>2. \A x : x \in FirstEntries(S) => x \in FirstEntries(T)
      BY <2>1, FirstEntriesFacts
    <3> QED
      BY <3>1, <3>2
  <2> QED
    BY <1>7, <1>8, <2>2 DEF Inserted, T
<1>9. CASE ~Known
  <2> HIDE DEF e
  <2>1. \A p : First(p, T) <=> First(p, S) \/ p = n + 1
    BY <1>6, <1>9
  <2>2. \A x : x \in FirstEntries(T) => x \in FirstEntries(S) \/ x = e
    BY <2>1, FirstEntriesFacts DEF e
  <2>3. \A x : x \in FirstEntries(S) \/ x = e => x \in FirstEntries(T)
    BY <2>1, FirstEntriesFacts DEF e
  <2>4. FirstEntries(T) = FirstEntries(S) \cup {e}
    BY <2>2, <2>3
  <2>5. Inserted(FirstEntries(S), file[n + 1]) = FirstEntries(S) \cup {e}
    BY <1>7, <1>9 DEF Inserted, e
  <2> QED
    BY <2>4, <2>5 DEF T
<1> QED
  BY <1>8, <1>9

\* Block lines with a keyword, up to a line.
BlockLines(q, k, end) == {p \in Block(q) \cap Keyed(k) : p < end}

LEMMA BlockLinesNext ==
    ASSUME IsSeq(file), NEW q \in Keyed("location"), NEW k, NEW n \in Nat,
           n + 1 \in 1..Len(file)
    PROVE  /\ BlockLines(q, k, n + 1) \subseteq 1..n
           /\ file[n + 1].key # k \/ ~Open(q, n) =>
                  BlockLines(q, k, (n + 1) + 1) = BlockLines(q, k, n + 1)
           /\ file[n + 1].key = k /\ k # "}" /\ Open(q, n) =>
                  BlockLines(q, k, (n + 1) + 1) = BlockLines(q, k, n + 1) \cup {n + 1}
<1>1. n + 1 \in Block(q) <=> Open(q, n) /\ file[n + 1].key # "}"
  BY BlockFacts
<1>2. n + 1 \in Keyed(k) <=> file[n + 1].key = k
  BY KeyedFacts
<1>3. \A p \in Keyed(k) : p \in Nat /\ p >= 1
  BY SeqFacts, KeyedFacts
<1>4. \A p \in Keyed(k) : (p < (n + 1) + 1 <=> p < n + 1 \/ p = n + 1) /\ (p < n + 1 => p <= n)
  BY <1>3
<1>5. n + 1 < (n + 1) + 1 /\ ~(n + 1 < n + 1)
  OBVIOUS
<1>6. BlockLines(q, k, n + 1) \subseteq 1..n
  BY <1>3, <1>4 DEF BlockLines
<1>7. \A e, p : p \in BlockLines(q, k, e) <=> p \in Block(q) /\ p \in Keyed(k) /\ p < e
  BY DEF BlockLines
<1>8. ASSUME NEW p
      PROVE  p \in BlockLines(q, k, (n + 1) + 1) <=>
                 \/ p \in BlockLines(q, k, n + 1)
                 \/ p = n + 1 /\ n + 1 \in Keyed(k) /\ n + 1 \in Block(q)
  <2>1. CASE p \in Keyed(k) /\ p # n + 1
    BY <1>4, <1>7, <2>1
  <2>2. CASE p = n + 1
    BY <1>5, <1>7, <2>2
  <2>3. CASE p \notin Keyed(k)
    BY <1>7, <2>3
  <2> QED
    BY <2>1, <2>2, <2>3
<1>9. CASE n + 1 \in Keyed(k) /\ n + 1 \in Block(q)
  <2>1. BlockLines(q, k, (n + 1) + 1) = BlockLines(q, k, n + 1) \cup {n + 1}
    BY <1>8, <1>9
  <2> QED
    BY <1>1, <1>2, <1>6, <1>9, <2>1
<1>10. CASE ~(n + 1 \in Keyed(k) /\ n + 1 \in Block(q))
  <2>1. BlockLines(q, k, (n + 1) + 1) = BlockLines(q, k, n + 1)
    BY <1>8, <1>10
  <2> QED
    BY <1>1, <1>2, <1>6, <1>10, <2>1
<1> QED
  BY <1>9, <1>10

\* A line outside the block, or with another keyword, leaves a field of a
\* location as it is written.
LEMMA FieldKept ==
    ASSUME IsSeq(file), NEW q \in Keyed("location"), NEW k, NEW n \in Nat,
           n + 1 \in 1..Len(file), NEW i, NEW l, NEW m, l.fields[k] = m.fields[k],
           file[n + 1].key # k \/ ~Open(q, n), LocationAsWritten(l, i, q, k, n + 1)
    PROVE  LocationAsWritten(m, i, q, k, (n + 1) + 1)
<1>1. BlockLines(q, k, (n + 1) + 1) = BlockLines(q, k, n + 1)
  BY BlockLinesNext
<1> QED
  BY <1>1 DEF LocationAsWritten, BlockLines

\* A line with the keyword, in the block.
LEMMA FieldOverridden ==
    ASSUME IsSeq(file), NEW q \in Keyed("location"), NEW k \in OfLocation, NEW n \in Nat,
           n + 1 \in 1..Len(file), NEW i, NEW l, NEW m, file[n + 1].key = k, Open(q, n),
           DOMAIN l.fields = OfLocation, m.fields = Overridden(l.fields, file[n + 1]),
           LocationAsWritten(l, i, q, k, n + 1)
    PROVE  LocationAsWritten(m, i, q, k, (n + 1) + 1)
<1> DEFINE S == BlockLines(q, k, n + 1)
           T == BlockLines(q, k, (n + 1) + 1)
           c == file[n + 1]
<1>1. S \subseteq 1..n /\ T = S \cup {n + 1}
  BY BlockLinesNext, Keywords
<1>2. n + 1 \in T /\ T # {}
  BY <1>1
<1>3. CASE k = "return"
  <2>1. l.fields[k] = FirstEntries(S)
    BY <1>3 DEF LocationAsWritten, BlockLines
  <2>2. m.fields[k] = Inserted(FirstEntries(S), c)
    BY <1>3, <2>1, OverriddenFacts
  <2>3. m.fields[k] = FirstEntries(T)
    BY <1>1, <2>2, FirstEntriesNext
  <2> QED
    BY <1>3, <2>3 DEF LocationAsWritten, BlockLines
<1>4. CASE k = "cgi"
  <2>1. m.fields[k] = {Entry(c)}
    BY <1>4, OverriddenFacts
  <2>2. ASSUME \A p, r \in T : p = r
        PROVE  m.fields[k] = FirstEntries(T)
    <3>1. T = {n + 1}
      BY <1>2, <2>2
    <3> QED
      BY <2>1, <3>1, FirstEntriesOne
  <2> QED
    BY <1>2, <1>4, <2>2 DEF LocationAsWritten, BlockLines
<1>5. CASE k \notin {"return", "cgi"}
  <2>1. m.fields[k] = LocationValue(c)
    BY <1>5, OverriddenFacts
  <2>2. Max(T) = n + 1
    BY <1>1, MaxNext
  <2>3. m.fields[k] = LocationValue(file[Max(T)])
    BY <2>1, <2>2
  <2> QED
    BY <1>2, <1>5, <2>3 DEF LocationAsWritten, BlockLines
<1> QED
  BY <1>3, <1>4, <1>5

\* A location just opened has nothing written in it, and takes over what its
\* server has.
LEMMA FieldInherited ==
    ASSUME IsSeq(file), NEW q \in Keyed("location"), NEW k \in OfLocation, NEW i, NEW v,
           \A j \in OfServer \ {"root", "server_name"} : v[j] = Written(i, j, q)
    PROVE  LocationAsWritten(NewLocation(file[q], v), i, q, k, q + 1)
<1> DEFINE l == NewLocation(file[q], v)
<1>1. BlockLines(q, k, q + 1) = {}
  <2>1. q \in Nat /\ \A p \in Keyed(k) : p \in Nat
    BY SeqFacts, KeyedFacts
  <2>2. \A p \in Block(q) : p > q
    BY DEF Block
  <2>3. \A p \in BlockLines(q, k, q + 1) : p \in Nat /\ p > q /\ p < q + 1
    BY <2>1, <2>2 DEF BlockLines
  <2>4. \A p \in Nat : ~(p > q /\ p < q + 1)
    BY <2>1
  <2> QED
    BY <2>3, <2>4
<1>2. l.fields["return"] = {}
  BY DEF NewLocation, OfLocation
<1>3. k \in {"cgi", "index", "autoindex", "client_max_body_size"} => l.fields[k] = v[k]
  BY DEF NewLocation
<1>4. k \in {"cgi", "index", "autoindex", "client_max_body_size"} =>
          k \in OfServer \ {"root", "server_name"}
  BY DEF OfServer, Single, Mapped
<1>5. k \in {"cgi", "index", "autoindex", "client_max_body_size"} =>
          l.fields[k] = Written(i, k, q)
  BY <1>3, <1>4
<1> HIDE DEF l
<1> QED
  BY <1>1, <1>2, <1>5, FirstEntriesNone DEF LocationAsWritten, BlockLines, l

-----------------------------------------------------------------------------
(***************************************************************************)
(* The blocks that have been left                                          *)
(***************************************************************************)

LEMMA LocationLineFacts ==
    ASSUME IsSeq(file), NEW i
    PROVE  /\ \A q : q \in LocationLines(i) <=> q \in Keyed("location") /\ Owner(q) = i
           /\ \A q \in LocationLines(i) : q \in 1..Len(file) /\ q \in Nat
           /\ LocationLines(i) \subseteq 1..Len(file) /\ IsFiniteSet(1..Len(file))
<1>1. Len(file) \in Nat /\ IsFiniteSet(1..Len(file))
  BY SeqFacts, FS_Interval
<1> QED
  BY <1>1, KeyedFacts DEF LocationLines

LEMMA Ranges ==
    /\ \A a, b \in Nat : \A r \in a..b : a <= b
    /\ \A a, b, c \in Nat : \A r \in b..c : a <= b => r \in a..c
    /\ \A a, b \in Nat : a + 1 \in 1..b => a \in 0..b
OBVIOUS

LEMMA EndedFacts ==
    ASSUME IsSeq(file), NEW i, NEW n \in Nat
    PROVE  /\ IsFiniteSet(Ended(i, n)) /\ Cardinality(Ended(i, n)) \in Nat
           /\ \A q \in LocationLines(i) : q <= n => (q \in Ended(i, n) <=> ~Open(q, n))
           /\ \A q \in Ended(i, n) : q \in LocationLines(i) /\ q <= n /\ ~Open(q, n)
           /\ \A q, p \in LocationLines(i) : p <= q /\ q \in Ended(i, n) => p \in Ended(i, n)
<1>1. \A q \in LocationLines(i) : q \in Keyed("location") /\ q \in 1..Len(file) /\ q \in Nat
  BY LocationLineFacts
<1>2. IsFiniteSet(Ended(i, n))
  <2>1. Ended(i, n) \subseteq 1..Len(file)
    BY <1>1 DEF Ended
  <2> QED
    BY <2>1, LocationLineFacts, FS_Subset
<1>3. Cardinality(Ended(i, n)) \in Nat
  BY <1>2, FS_CardinalityType
<1>4. ASSUME NEW q \in LocationLines(i), q <= n
      PROVE  q \in Ended(i, n) <=> ~Open(q, n)
  BY <1>1, <1>4 DEF Ended, Open
<1>5. ASSUME NEW q \in Ended(i, n)
      PROVE  q \in LocationLines(i) /\ q <= n /\ ~Open(q, n)
  <2>1. q \in LocationLines(i) /\ q \in Nat
    BY <1>1 DEF Ended
  <2>2. PICK r \in q..n : file[r].key = "}"
    BY DEF Ended
  <2>3. q <= n
    BY <2>1, <2>2, Ranges, Zenon
  <2> QED
    BY <2>1, <2>2, <2>3 DEF Open
<1>6. ASSUME NEW q \in LocationLines(i), NEW p \in LocationLines(i), p <= q, q \in Ended(i, n)
      PROVE  p \in Ended(i, n)
  <2>1. PICK r \in q..n : file[r].key = "}"
    BY <1>6 DEF Ended
  <2>2. p \in Nat /\ q \in Nat
    BY <1>1
  <2>3. r \in p..n
    BY <1>6, <2>1, <2>2, Ranges, Zenon
  <2> QED
    BY <2>1, <2>3 DEF Ended
<1> QED
  BY <1>2, <1>3, <1>4, <1>5, <1>6

\* A bracket ends the blocks that are open; no other line ends one.
LEMMA EndedNext ==
    ASSUME IsSeq(file), NEW i, NEW n \in Nat, n + 1 \in 1..Len(file)
    PROVE  \A q : q \in Ended(i, n + 1) <=>
               \/ q \in Ended(i, n)
               \/ q \in LocationLines(i) /\ Open(q, n) /\ file[n + 1].key = "}"
<1>1. \A q \in LocationLines(i) : q \in Keyed("location") /\ q \in Nat /\ file[q].key = "location"
  BY LocationLineFacts, KeyedFacts
<1>2. ASSUME NEW q \in LocationLines(i), q <= n
      PROVE  q..(n + 1) = (q..n) \cup {n + 1}
  BY <1>1, <1>2
<1>3. ASSUME NEW q \in LocationLines(i), q <= n
      PROVE  q \in Ended(i, n + 1) <=> q \in Ended(i, n) \/ (Open(q, n) /\ file[n + 1].key = "}")
  BY <1>1, <1>2, <1>3 DEF Ended, Open
<1>4. ASSUME NEW q \in LocationLines(i), ~(q <= n)
      PROVE  q \notin Ended(i, n + 1) /\ q \notin Ended(i, n) /\ ~Open(q, n)
  <2>1. q \notin Ended(i, n) /\ ~Open(q, n)
    BY <1>4, EndedFacts DEF Open
  <2>2. \A r \in q..(n + 1) : r = q
    BY <1>1, <1>4
  <2>3. "location" # "}"
    OBVIOUS
  <2>4. q \notin Ended(i, n + 1)
    BY <1>1, <2>2, <2>3 DEF Ended
  <2> QED
    BY <2>1, <2>4
<1>5. \A m, q : q \in Ended(i, m) => q \in LocationLines(i)
  BY DEF Ended
<1> QED
  BY <1>3, <1>4, <1>5

\* The location of the line q is one of those the server has, or, with one more
\* block to be left, the next.
LEMMA EndedIndex ==
    ASSUME IsSeq(file), NEW i, NEW n \in Nat
    PROVE  /\ \A q \in Ended(i, n) :
                  Cardinality({r \in LocationLines(i) : r <= q}) \in
                      1..Cardinality(Ended(i, n))
           /\ \A q \in LocationLines(i) :
                  Open(q, n) /\ (\A r \in LocationLines(i) : Open(r, n) => r = q) =>
                      Cardinality({r \in LocationLines(i) : r <= q}) =
                          Cardinality(Ended(i, n)) + 1
<1>1. \A q \in LocationLines(i) : q \in Nat
  BY LocationLineFacts
<1>2. IsFiniteSet(Ended(i, n)) /\ Cardinality(Ended(i, n)) \in Nat
  BY EndedFacts
<1>3. ASSUME NEW q \in Ended(i, n)
      PROVE  Cardinality({r \in LocationLines(i) : r <= q}) \in 1..Cardinality(Ended(i, n))
  <2> DEFINE S == {r \in LocationLines(i) : r <= q}
  <2>1. q \in LocationLines(i) /\ S \subseteq Ended(i, n) /\ q \in S
    BY <1>1, EndedFacts
  <2> HIDE DEF S
  <2>2. IsFiniteSet(S) /\ Cardinality(S) <= Cardinality(Ended(i, n))
    BY <1>2, <2>1, FS_Subset
  <2>3. Cardinality(S) \in Nat /\ Cardinality(S) # 0
    BY <2>1, <2>2, FS_CardinalityType, FS_EmptySet
  <2> QED
    BY <1>2, <2>2, <2>3 DEF S
<1>4. ASSUME NEW q \in LocationLines(i), Open(q, n),
             \A r \in LocationLines(i) : Open(r, n) => r = q
      PROVE  Cardinality({r \in LocationLines(i) : r <= q}) = Cardinality(Ended(i, n)) + 1
  <2>1. q <= n /\ q \notin Ended(i, n)
    BY <1>4, EndedFacts DEF Open
  <2>2. ASSUME NEW r \in LocationLines(i), r <= q, r # q
        PROVE  r \in Ended(i, n)
    <3>1. r <= n
      BY <1>1, <2>1, <2>2
    <3> QED
      BY <1>4, <2>2, <3>1, EndedFacts
  <2>3. ASSUME NEW r \in Ended(i, n)
        PROVE  r \in LocationLines(i) /\ r <= q
    <3>1. r \in LocationLines(i) /\ r \in Nat /\ q \in Nat
      BY <1>1, EndedFacts
    <3>2. ~(q <= r)
      BY <2>1, <3>1, EndedFacts
    <3> QED
      BY <3>1, <3>2
  <2>4. q <= q
    BY <1>1
  <2>5. {r \in LocationLines(i) : r <= q} = Ended(i, n) \cup {q}
    BY <2>2, <2>3, <2>4
  <2> QED
    BY <1>2, <2>1, <2>5, FS_AddElement
<1> QED
  BY <1>3, <1>4

-----------------------------------------------------------------------------
(***************************************************************************)
(* What a line leaves as it is                                             *)
(***************************************************************************)

LEMMA OwnLinesTypes ==
    ASSUME IsSeq(file), NEW i, NEW k, NEW n \in Nat
    PROVE  OwnLines(i, k, n + 1) \subseteq 1..n
<1>1. \A p \in Keyed(k) : p \in Nat /\ p >= 1
  BY SeqFacts, KeyedFacts
<1>2. \A p \in OwnLines(i, k, n + 1) : p \in Keyed(k) /\ p < n + 1
  BY DEF OwnLines
<1>3. \A p \in Nat : p >= 1 /\ p < n + 1 => p \in 1..n
  OBVIOUS
<1> QED
  BY <1>1, <1>2, <1>3

\* The fields of a server: no directive of its own is read.
LEMMA FieldsKept ==
    ASSUME IsSeq(file), NEW n \in Nat, n + 1 \in 1..Len(file), NEW i, NEW v, NEW w,
           w.fields = v.fields, FieldsSoFar(v, i, n),
           file[n + 1].key \in OfServer /\ Owner(n + 1) = i => InLocation(file, n)
    PROVE  FieldsSoFar(w, i, n + 1)
<1>1. ASSUME NEW k \in OfServer
      PROVE  OwnLines(i, k, (n + 1) + 1) = OwnLines(i, k, n + 1)
  BY OwnLinesNext, Keywords
<1>2. ASSUME NEW k \in OfServer
      PROVE  Written(i, k, (n + 1) + 1) = Written(i, k, n + 1)
  BY <1>1 DEF Written
<1> QED
  BY <1>2 DEF FieldsSoFar

\* The locations of a server: none of its blocks is left.
LEMMA LocsKept ==
    ASSUME IsSeq(file), NEW n \in Nat, n + 1 \in 1..Len(file), NEW i, NEW v, NEW w,
           w.locs = v.locs, LocsSoFar(v, i, n),
           file[n + 1].key = "}" => \A q \in LocationLines(i) : ~Open(q, n)
    PROVE  LocsSoFar(w, i, n + 1)
<1>1. Ended(i, n + 1) = Ended(i, n)
  <2>1. \A q : q \in Ended(i, n + 1) <=> q \in Ended(i, n)
    BY EndedNext
  <2> QED
    BY <2>1
<1>2. ASSUME NEW q \in Ended(i, n), NEW l, NEW k, LocationAsWritten(l, i, q, k, n + 1)
      PROVE  LocationAsWritten(l, i, q, k, (n + 1) + 1)
  <2>1. q \in Keyed("location") /\ ~Open(q, n)
    BY EndedFacts, LocationLineFacts
  <2> QED
    BY <1>2, <2>1, FieldKept
<1> QED
  BY <1>1, <1>2 DEF LocsSoFar

\* The ports: no port is given.
LEMMA PortsKept ==
    ASSUME IsSeq(file), NEW n \in Nat, n + 1 \in 1..Len(file), NEW ss, PortsSoFar(ss, n),
           file[n + 1].key = "listen" => InLocation(file, n)
    PROVE  PortsSoFar(ss, n + 1)
<1>1. \A j : OwnLines(j, "listen", (n + 1) + 1) = OwnLines(j, "listen", n + 1)
  BY OwnLinesNext
<1> QED
  BY <1>1 DEF PortsSoFar

\* All servers.
LEMMA ServersKept ==
    ASSUME IsSeq(file), NEW n \in Nat, n + 1 \in 1..Len(file), NEW ss, NEW l, NEW in,
           SoFar(ss, n, l, in), file[n + 1].key # "server",
           file[n + 1].key \in OfServer => InLocation(file, n),
           file[n + 1].key = "}" => ~InLocation(file, n)
    PROVE  /\ Len(ss) = Owner(n + 1)
           /\ \A i \in 1..Len(ss) : FieldsSoFar(ss[i], i, n + 1) /\ LocsSoFar(ss[i], i, n + 1)
           /\ PortsSoFar(ss, n + 1)
<1>1. Len(ss) = Owner(n + 1)
  BY OwnerNext DEF SoFar
<1>2. n \in 0..Len(file)
  <2>1. Len(file) \in Nat
    BY SeqFacts
  <2> QED
    BY <2>1, Ranges, Zenon
<1>3. file[n + 1].key = "}" => \A q \in Keyed("location") : ~Open(q, n)
  BY <1>2, InLocationOpen
<1>4. ASSUME NEW i \in 1..Len(ss)
      PROVE  FieldsSoFar(ss[i], i, n + 1) /\ LocsSoFar(ss[i], i, n + 1)
  <2>1. FieldsSoFar(ss[i], i, n) /\ LocsSoFar(ss[i], i, n)
    BY DEF SoFar
  <2>2. FieldsSoFar(ss[i], i, n + 1)
    BY <2>1, FieldsKept
  <2>3. file[n + 1].key = "}" => \A q \in LocationLines(i) : ~Open(q, n)
    BY <1>3, LocationLineFacts
  <2>4. LocsSoFar(ss[i], i, n + 1)
    BY <2>1, <2>3, LocsKept
  <2> QED
    BY <2>2, <2>4
<1>5. PortsSoFar(ss, n + 1)
  BY PortsKept, KeywordSorts DEF SoFar
<1> QED
  BY <1>1, <1>4, <1>5

\* A block goes on with any line but a bracket; only a location line opens one.
LEMMA OpenNext ==
    ASSUME IsSeq(file), NEW n \in Nat, n + 1 \in 1..Len(file), NEW q \in Keyed("location")
    PROVE  Open(q, n + 1) <=> /\ Open(q, n) \/ q = n + 1
                              /\ file[n + 1].key # "}"
<1>1. q \in Nat /\ file[q].key = "location"
  BY SeqFacts, KeyedFacts
<1>2. CASE q <= n
  <2>1. q..(n + 1) = (q..n) \cup {n + 1} /\ q # n + 1 /\ q <= n + 1
    BY <1>1, <1>2
  <2> QED
    BY <1>2, <2>1 DEF Open
<1>3. CASE q = n + 1
  <2>1. q..(n + 1) = {n + 1} /\ ~(q <= n) /\ q <= n + 1
    BY <1>1, <1>3
  <2> QED
    BY <1>3, <2>1 DEF Open
<1>4. CASE ~(q <= n) /\ q # n + 1
  <2>1. ~(q <= n + 1)
    BY <1>1, <1>4
  <2> QED
    BY <1>4, <2>1 DEF Open
<1> QED
  BY <1>2, <1>3, <1>4

\* The open location, on a line in its block.
LEMMA LocKept ==
    ASSUME IsSeq(file), NEW n \in Nat, n + 1 \in 1..Len(file), NEW i, NEW l, NEW m,
           LocSoFar(l, i, n), file[n + 1].key \notin {"}", "location"}, m.path = l.path,
           DOMAIN l.fields = OfLocation,
           \/ file[n + 1].key \notin OfLocation /\ m.fields = l.fields
           \/ file[n + 1].key \in OfLocation /\ m.fields = Overridden(l.fields, file[n + 1])
    PROVE  LocSoFar(m, i, n + 1)
<1>1. PICK q \in Keyed("location") :
          /\ Open(q, n) /\ \A r \in Keyed("location") : Open(r, n) => r = q
          /\ Owner(q) = i /\ l.path = file[q].name
          /\ \A k \in OfLocation : LocationAsWritten(l, i, q, k, n + 1)
  BY DEF LocSoFar
<1>2. n + 1 \notin Keyed("location")
  BY KeyedFacts
<1>3. \A r \in Keyed("location") : Open(r, n + 1) <=> Open(r, n)
  BY <1>2, OpenNext
<1>4. ASSUME NEW k \in OfLocation
      PROVE  LocationAsWritten(m, i, q, k, (n + 1) + 1)
  <2>1. LocationAsWritten(l, i, q, k, n + 1)
    BY <1>1
  <2>2. CASE file[n + 1].key = k
    <3>1. m.fields = Overridden(l.fields, file[n + 1])
      BY <2>2
    <3> QED
      BY <1>1, <2>1, <2>2, <3>1, FieldOverridden
  <2>3. CASE file[n + 1].key # k
    <3>1. ASSUME file[n + 1].key \in OfLocation
          PROVE  l.fields[k] = m.fields[k]
      <4>1. m.fields = Overridden(l.fields, file[n + 1])
        BY <3>1
      <4>2. Overridden(l.fields, file[n + 1])[k] = l.fields[k]
        BY <2>3, <3>1, OverriddenElse
      <4> QED
        BY <4>1, <4>2
    <3>2. l.fields[k] = m.fields[k]
      BY <2>3, <3>1
    <3> QED
      BY <1>1, <2>1, <2>3, <3>2, FieldKept
  <2> QED
    BY <2>2, <2>3
<1> QED
  BY <1>1, <1>3, <1>4 DEF LocSoFar

-----------------------------------------------------------------------------
(***************************************************************************)
(* The servers and locations, line by line                                 *)
(***************************************************************************)

\* A new server has nothing written in it yet.
LEMMA FirstLines ==
    ASSUME IsSeq(file), NEW n \in Nat, n + 1 \in 1..Len(file), file[n + 1].key = "server",
           NEW i, i = Owner(n) + 1
    PROVE  /\ \A k \in OfServer : OwnLines(i, k, (n + 1) + 1) = {}
           /\ Ended(i, n + 1) = {}
<1>1. ASSUME NEW p \in Nat, p <= n
      PROVE  Owner(p) # i
  <2>1. Owner(p) <= Owner(n) /\ Owner(p) \in Nat /\ Owner(n) \in Nat
    BY <1>1, OwnerMonotone, OwnerTypes
  <2> QED
    BY <2>1
<1>2. ASSUME NEW k \in OfServer
      PROVE  OwnLines(i, k, (n + 1) + 1) = {}
  <2>1. OwnLines(i, k, (n + 1) + 1) = OwnLines(i, k, n + 1)
    BY OwnLinesNext, KeywordSorts
  <2>2. OwnLines(i, k, n + 1) \subseteq 1..n
    BY OwnLinesTypes
  <2>3. \A p \in 1..n : p \in Nat /\ p <= n
    OBVIOUS
  <2>4. \A p \in OwnLines(i, k, n + 1) : Owner(p) = i
    BY DEF OwnLines
  <2> QED
    BY <1>1, <2>1, <2>2, <2>3, <2>4
<1>3. Ended(i, n + 1) = {}
  <2>1. \A q \in LocationLines(i) : q \in Nat /\ ~(q <= n)
    BY <1>1, LocationLineFacts
  <2>2. \A q : q \in Ended(i, n + 1) => q \in Ended(i, n)
    BY EndedNext
  <2>3. \A q \in Ended(i, n) : q \in LocationLines(i) /\ q <= n
    BY EndedFacts
  <2> QED
    BY <2>1, <2>2, <2>3
<1> QED
  BY <1>2, <1>3

LEMMA ServerSoFar ==
    ASSUME Shape, IsSeq(file), NEW n \in Nat, n + 1 \in 1..Len(file),
           file[n + 1].key = "server", NEW l, SoFar(servers, n, l, FALSE), NEW m
    PROVE  SoFar(Append(servers, NewServer), n + 1, m, FALSE)
<1> DEFINE N == Len(servers)
           ss == Append(servers, NewServer)
<1>1. /\ IsSeq(servers) /\ N \in Nat /\ Len(ss) = N + 1
      /\ ss[N + 1] = NewServer /\ \A i \in 1..N : ss[i] = servers[i]
  BY AppendAny DEF Shape
<1>2. N = Owner(n) /\ Owner(n + 1) = N + 1
  BY OwnerNext DEF SoFar
<1>3. /\ \A k \in OfServer : OwnLines(N + 1, k, (n + 1) + 1) = {}
      /\ Ended(N + 1, n + 1) = {}
  BY <1>2, FirstLines
<1>4. 1..(N + 1) = (1..N) \cup {N + 1}
  BY <1>1, OneMore
<1> HIDE DEF ss, N
<1>5. ASSUME NEW i \in 1..N
      PROVE  FieldsSoFar(ss[i], i, n + 1) /\ LocsSoFar(ss[i], i, n + 1)
  <2>1. ss[i] = servers[i] /\ FieldsSoFar(servers[i], i, n) /\ LocsSoFar(servers[i], i, n)
    BY <1>1 DEF SoFar, N
  <2>2. file[n + 1].key \notin OfServer /\ file[n + 1].key # "}"
    BY KeywordSorts, Keywords
  <2> QED
    BY <2>1, <2>2, FieldsKept, LocsKept
<1>6. FieldsSoFar(ss[N + 1], N + 1, n + 1)
  <2>1. ASSUME NEW k \in OfServer
        PROVE  Written(N + 1, k, (n + 1) + 1) = Defaults[k]
    <3>1. k \in Mapped => Defaults[k] = {}
      BY ConfigAssumption
    <3> QED
      BY <1>3, <3>1, FirstEntriesNone DEF Written
  <2>2. ss[N + 1].fields = Defaults
    BY <1>1 DEF NewServer
  <2> QED
    BY <2>1, <2>2 DEF FieldsSoFar
<1>7. LocsSoFar(ss[N + 1], N + 1, n + 1)
  <2>1. Len(ss[N + 1].locs) = 0
    BY <1>1, NoElements DEF NewServer
  <2> QED
    BY <1>3, <2>1, FS_EmptySet DEF LocsSoFar
<1>8. PortsSoFar(ss, n + 1)
  <2>1. ASSUME NEW j \in 1..Len(ss), NEW i \in 1..(j - 1),
               ss[i].fields["listen"] = ss[j].fields["listen"]
        PROVE  OwnLines(j, "listen", (n + 1) + 1) = {}
    <3>1. CASE j = N + 1
      BY <1>3, <3>1, KeywordSorts
    <3>2. CASE j \in 1..N
      <4>1. i \in 1..N
        BY <1>1, <3>2
      <4>2. OwnLines(j, "listen", n + 1) = {}
        BY <1>1, <2>1, <3>2, <4>1 DEF SoFar, PortsSoFar, N
      <4>3. OwnLines(j, "listen", (n + 1) + 1) = OwnLines(j, "listen", n + 1)
        BY OwnLinesNext
      <4> QED
        BY <4>2, <4>3
    <3> QED
      BY <1>1, <1>4, <3>1, <3>2
  <2> QED
    BY <2>1 DEF PortsSoFar
<1> QED
  BY <1>1, <1>2, <1>4, <1>5, <1>6, <1>7, <1>8 DEF SoFar, ss

\* A directive of a server: the field it gives, and the ports.
LEMMA FieldUpdated ==
    ASSUME IsSeq(file), NEW n \in Nat, n + 1 \in 1..Len(file), NEW i, NEW v, NEW w,
           DOMAIN v.fields = OfServer, w.fields = Updated(v.fields, file[n + 1]),
           FieldsSoFar(v, i, n), file[n + 1].key \in OfServer, ~InLocation(file, n),
           Owner(n + 1) = i
    PROVE  FieldsSoFar(w, i, n + 1)
<1> DEFINE c == file[n + 1]
<1>1. SUFFICES ASSUME NEW k \in OfServer \ {"root", "server_name"}
               PROVE  w.fields[k] = Written(i, k, (n + 1) + 1)
  BY DEF FieldsSoFar
<1>2. v.fields[k] = Written(i, k, n + 1)
  BY DEF FieldsSoFar
<1>3. CASE c.key # k
  <2>1. OwnLines(i, k, (n + 1) + 1) = OwnLines(i, k, n + 1)
    BY <1>3, OwnLinesNext
  <2>2. w.fields[k] = v.fields[k]
    BY <1>3, UpdatedFacts
  <2> QED
    BY <1>2, <2>1, <2>2 DEF Written
<1>4. CASE c.key = k
  <2> DEFINE S == OwnLines(i, k, n + 1)
  <2>1. OwnLines(i, k, (n + 1) + 1) = S \cup {n + 1} /\ S \subseteq 1..n
    BY <1>4, OwnLinesNext, OwnLinesTypes
  <2>2. CASE k \in Mapped
    <3>1. w.fields[k] = Inserted(v.fields[k], c)
      BY <1>4, <2>2, UpdatedFacts
    <3>2. v.fields[k] = FirstEntries(S)
      BY <1>2, <2>2 DEF Written
    <3>3. FirstEntries(S \cup {n + 1}) = Inserted(FirstEntries(S), c)
      BY <2>1, FirstEntriesNext
    <3> QED
      BY <2>1, <2>2, <3>1, <3>2, <3>3 DEF Written
  <2>3. CASE k \notin Mapped
    <3>1. w.fields[k] = Value(c)
      BY <1>4, <2>3, UpdatedFacts
    <3>2. Max(S \cup {n + 1}) = n + 1 /\ S \cup {n + 1} # {}
      BY <2>1, MaxNext
    <3> QED
      BY <2>1, <2>3, <3>1, <3>2 DEF Written
  <2> QED
    BY <2>2, <2>3
<1> QED
  BY <1>3, <1>4

LEMMA ListenUpdated ==
    ASSUME NEW f, NEW l, DOMAIN f = OfServer, l.key \in OfServer
    PROVE  Updated(f, l)["listen"] = IF l.key = "listen" THEN l.value ELSE f["listen"]
<1>1. "listen" \in OfServer /\ "listen" \notin Mapped \cup {"root", "server_name"}
  BY DEF OfServer, Single, Mapped
<1> QED
  BY <1>1 DEF Updated, Value

LEMMA PortsUpdated ==
    ASSUME IsSeq(file), NEW n \in Nat, n + 1 \in 1..Len(file), NEW ss, NEW tt, NEW N \in Nat,
           N = Owner(n + 1), Len(ss) = N, Len(tt) = N, PortsSoFar(ss, n),
           \A i \in 1..N : i # N => tt[i] = ss[i],
           DOMAIN ss[N].fields = OfServer, tt[N].fields = Updated(ss[N].fields, file[n + 1]),
           file[n + 1].key \in OfServer,
           file[n + 1].key = "listen" =>
               \A i \in 1..(N - 1) : ss[i].fields["listen"] # file[n + 1].value
    PROVE  PortsSoFar(tt, n + 1)
<1> DEFINE c == file[n + 1]
<1>1. SUFFICES ASSUME NEW j \in 1..N, NEW i \in 1..(j - 1),
                      tt[i].fields["listen"] = tt[j].fields["listen"]
               PROVE  OwnLines(j, "listen", (n + 1) + 1) = {}
  BY DEF PortsSoFar
<1>2. i \in 1..N /\ i # N /\ tt[i] = ss[i]
  <2>1. i \in 1..N /\ i # N
    OBVIOUS
  <2> QED
    BY <2>1
<1>3. ss[i].fields["listen"] = ss[j].fields["listen"] =>
          OwnLines(j, "listen", n + 1) = {}
  BY DEF PortsSoFar
<1>4. CASE j = N /\ c.key = "listen"
  <2>1. tt[N].fields["listen"] = c.value
    BY <1>4, ListenUpdated
  <2>2. i \in 1..(N - 1)
    BY <1>4
  <2> QED
    BY <1>1, <1>2, <1>4, <2>1, <2>2
<1>5. CASE j # N \/ c.key # "listen"
  <2>1. tt[j].fields["listen"] = ss[j].fields["listen"]
    <3>1. ASSUME j = N, c.key # "listen"
          PROVE  Updated(ss[N].fields, c)["listen"] = ss[N].fields["listen"]
      BY <3>1, ListenUpdated
    <3> QED
      BY <1>5, <3>1
  <2>2. OwnLines(j, "listen", (n + 1) + 1) = OwnLines(j, "listen", n + 1)
    BY <1>5, OwnLinesNext
  <2> QED
    BY <1>1, <1>2, <1>3, <2>1, <2>2
<1> QED
  BY <1>4, <1>5

LEMMA DirectiveSoFar ==
    ASSUME Shape, PassesAgree, ParseDirective, SoFar(servers, at, loc, inLoc)
    PROVE  phase' = phase /\ SoFar(servers', at + 1, loc', inLoc')
<1> DEFINE N == Len(servers)
           n == at
<1>1. /\ Parse /\ ~inLoc /\ Line.key \in OfServer /\ ~PortTaken /\ inLoc' = inLoc
  BY DEF ParseDirective
<1>2. /\ n \in Nat /\ n + 1 \in 1..Len(file) /\ Line = file[n + 1] /\ Defined
      /\ ~InLocation(file, n) /\ IsSeq(file)
  BY <1>1, LineFacts DEF Shape
<1>3. phase' = phase
  BY <1>2 DEF ParseDirective
<1>4. /\ N \in 1..N /\ Len(servers') = N
      /\ servers'[N].fields = Updated(servers[N].fields, file[n + 1])
      /\ servers'[N].locs = servers[N].locs
      /\ \A i \in 1..N : i # N => servers'[i] = servers[i]
  BY <1>2, DirectiveFacts
<1>5. N \in Nat /\ DOMAIN servers[N].fields = OfServer
  BY <1>4, SeqFacts DEF Shape, ServerShape
<1>6. file[n + 1].key \in OfServer /\ file[n + 1].key \notin {"server", "}"}
  BY <1>1, <1>2, Keywords, KeywordSorts
<1>7. /\ N = Owner(n) /\ PortsSoFar(servers, n)
      /\ \A i \in 1..N : FieldsSoFar(servers[i], i, n) /\ LocsSoFar(servers[i], i, n)
  BY DEF SoFar
<1>8. Owner(n + 1) = N
  BY <1>2, <1>6, <1>7, OwnerNext
<1>9. file[n + 1].key = "listen" =>
          \A i \in 1..(N - 1) : servers[i].fields["listen"] # file[n + 1].value
  BY <1>1, <1>2 DEF PortTaken
<1> DEFINE tt == servers'
<1>10. ASSUME NEW i \in 1..N
       PROVE  FieldsSoFar(tt[i], i, n + 1) /\ LocsSoFar(tt[i], i, n + 1)
  <2> HIDE DEF N, n, tt
  <2>1. CASE i = N
    <3>1. FieldsSoFar(tt[N], N, n + 1)
      BY <1>2, <1>4, <1>5, <1>6, <1>7, <1>8, FieldUpdated DEF tt
    <3>2. tt[N].locs = servers[N].locs /\ LocsSoFar(servers[N], N, n)
      BY <1>4, <1>7 DEF tt
    <3>3. LocsSoFar(tt[N], N, n + 1)
      BY <1>2, <1>6, <3>2, LocsKept
    <3> QED
      BY <2>1, <3>1, <3>3
  <2>2. CASE i # N
    <3>1. tt[i] = servers[i] /\ FieldsSoFar(servers[i], i, n) /\ LocsSoFar(servers[i], i, n)
      BY <1>4, <1>7, <2>2 DEF tt
    <3>2. FieldsSoFar(tt[i], i, n + 1)
      BY <1>2, <1>8, <2>2, <3>1, FieldsKept
    <3>3. LocsSoFar(tt[i], i, n + 1)
      BY <1>2, <1>6, <3>1, LocsKept
    <3> QED
      BY <3>2, <3>3
  <2> QED
    BY <2>1, <2>2
<1>11. PortsSoFar(tt, n + 1)
  <2> HIDE DEF N, n
  <2>1. /\ Len(servers) = N /\ Len(tt) = N
        /\ tt[N].fields = Updated(servers[N].fields, file[n + 1])
        /\ \A i \in 1..N : i # N => tt[i] = servers[i]
    BY <1>4 DEF N
  <2> HIDE DEF tt
  <2> QED
    BY <1>2, <1>5, <1>6, <1>7, <1>8, <1>9, <2>1, PortsUpdated
<1> QED
  BY <1>1, <1>3, <1>4, <1>8, <1>10, <1>11 DEF SoFar

\* A line of which nothing is kept.
LEMMA NothingSoFar ==
    ASSUME Shape, PassesAgree, ParseNothing, SoFar(servers, at, loc, inLoc)
    PROVE  phase' = phase /\ SoFar(servers', at + 1, loc', inLoc')
<1> DEFINE n == at
           c == file[n + 1].key
<1>1. /\ Parse /\ UNCHANGED <<phase, inLoc, servers, loc>> /\ inLoc \in BOOLEAN
      /\ Line.key \in {Blank, "#", ";"} \cup (IF inLoc THEN {} ELSE {"}"})
  BY DEF ParseNothing, Bare, Shape
<1>2. /\ n \in Nat /\ n + 1 \in 1..Len(file) /\ Line = file[n + 1] /\ IsSeq(file)
      /\ inLoc <=> InLocation(file, n)
  BY <1>1, LineFacts DEF Shape
<1>3. c \notin OfServer \cup OfLocation \cup {"server", "location"}
  BY <1>1, <1>2, Keywords
<1>4. c = "}" => ~inLoc
  BY <1>1, <1>2, KeywordSorts
<1>5. /\ Len(servers) = Owner(n + 1) /\ PortsSoFar(servers, n + 1)
      /\ \A i \in 1..Len(servers) :
            FieldsSoFar(servers[i], i, n + 1) /\ LocsSoFar(servers[i], i, n + 1)
  BY <1>2, <1>3, <1>4, ServersKept
<1>6. ASSUME inLoc
      PROVE  LocSoFar(loc, Len(servers), n + 1)
  <2>1. LocSoFar(loc, Len(servers), n)
    BY <1>6 DEF SoFar
  <2>2. DOMAIN loc.fields = OfLocation
    BY DEF Shape, LocationShape
  <2>3. c \notin {"}", "location"} /\ c \notin OfLocation
    BY <1>3, <1>4, <1>6
  <2> HIDE DEF n
  <2> QED
    BY <1>2, <2>1, <2>2, <2>3, LocKept
<1> QED
  BY <1>1, <1>5, <1>6 DEF SoFar

\* A location is opened: nothing is written in it yet.
LEMMA LocationSoFar ==
    ASSUME Shape, PassesAgree, ParseLocation, SoFar(servers, at, loc, inLoc)
    PROVE  phase' = phase /\ SoFar(servers', at + 1, loc', inLoc')
<1> DEFINE n == at
           N == Len(servers)
           m == loc'
<1>1. Parse /\ ~inLoc /\ Line.key = "location" /\ servers' = servers
  BY DEF ParseLocation
<1>2. /\ n \in Nat /\ n + 1 \in 1..Len(file) /\ Line = file[n + 1] /\ IsSeq(file)
      /\ ~InLocation(file, n) /\ Defined
  BY <1>1, LineFacts DEF Shape
<1>3. phase' = phase /\ m = NewLocation(file[n + 1], servers[N].fields)
  BY <1>2 DEF ParseLocation, Inherited, Back
<1>4. file[n + 1].key = "location" /\ "location" \notin OfServer \cup {"server", "}"}
  BY <1>1, <1>2, KeywordSorts
<1>5. /\ N = Owner(n + 1) /\ PortsSoFar(servers, n + 1)
      /\ \A i \in 1..N :
            FieldsSoFar(servers[i], i, n + 1) /\ LocsSoFar(servers[i], i, n + 1)
  BY <1>2, <1>4, ServersKept
<1>6. n + 1 \in Keyed("location") /\ N \in 1..N
  BY <1>2, <1>4, SeqFacts, KeyedFacts DEF Defined, Shape
<1>7. \A r \in Keyed("location") : Open(r, n + 1) <=> r = n + 1
  <2>1. n \in 0..Len(file)
    BY <1>2, Ranges, SeqFacts
  <2>2. \A r \in Keyed("location") : ~Open(r, n)
    BY <1>2, <2>1, InLocationOpen
  <2> QED
    BY <1>2, <1>4, <2>2, OpenNext
<1>8. m.path = file[n + 1].name
  BY <1>3, NewLocationShape
<1>9. ASSUME NEW k \in OfLocation
      PROVE  LocationAsWritten(m, N, n + 1, k, (n + 1) + 1)
  <2>1. FieldsSoFar(servers[N], N, n)
    BY <1>6 DEF SoFar
  <2>2. \A j \in OfServer \ {"root", "server_name"} :
            servers[N].fields[j] = Written(N, j, n + 1)
    BY <2>1 DEF FieldsSoFar
  <2> HIDE DEF n, N, m
  <2> QED
    BY <1>2, <1>3, <1>6, <2>2, FieldInherited
<1>10. LocSoFar(m, N, n + 1)
  <2> HIDE DEF n, N, m
  <2> QED
    BY <1>5, <1>6, <1>7, <1>8, <1>9 DEF LocSoFar
<1> QED
  BY <1>1, <1>3, <1>5, <1>10 DEF SoFar

\* A directive of a location.
LEMMA OverrideSoFar ==
    ASSUME Shape, PassesAgree, ParseOverride, SoFar(servers, at, loc, inLoc)
    PROVE  phase' = phase /\ SoFar(servers', at + 1, loc', inLoc')
<1> DEFINE n == at
           m == loc'
<1>1. Parse /\ inLoc /\ Line.key \in OfLocation /\ UNCHANGED <<inLoc, servers>>
  BY DEF ParseOverride
<1>2. /\ n \in Nat /\ n + 1 \in 1..Len(file) /\ Line = file[n + 1] /\ IsSeq(file)
      /\ InLocation(file, n) /\ Defined
  BY <1>1, LineFacts DEF Shape
<1>3. phase' = phase
  BY <1>2 DEF ParseOverride, Defined
<1>4. file[n + 1].key \in OfLocation /\ file[n + 1].key \notin {"server", "location", "}"}
  BY <1>1, <1>2, Keywords, KeywordSorts
<1>5. /\ Len(servers) = Owner(n + 1) /\ PortsSoFar(servers, n + 1)
      /\ \A i \in 1..Len(servers) :
            FieldsSoFar(servers[i], i, n + 1) /\ LocsSoFar(servers[i], i, n + 1)
  BY <1>2, <1>4, ServersKept
<1>6. LocSoFar(m, Len(servers), n + 1)
  <2>1. LocSoFar(loc, Len(servers), n)
    BY <1>1 DEF SoFar
  <2>2. DOMAIN loc.fields = OfLocation
    BY DEF Shape, LocationShape
  <2>3. m.path = loc.path /\ m.fields = Overridden(loc.fields, file[n + 1])
    BY <1>2, OverrideFacts
  <2> HIDE DEF n, m
  <2> QED
    BY <1>2, <1>4, <2>1, <2>2, <2>3, LocKept
<1> QED
  BY <1>1, <1>3, <1>5, <1>6 DEF SoFar

\* A location is left and goes to its server, behind the ones that are there.
LEMMA CloseSoFar ==
    ASSUME Shape, PassesAgree, ParseClose, SoFar(servers, at, loc, inLoc)
    PROVE  phase' = phase /\ SoFar(servers', at + 1, loc', inLoc')
<1> DEFINE n == at
           N == Len(servers)
           tt == servers'
<1>1. Parse /\ inLoc /\ Line.key = "}" /\ inLoc' = FALSE /\ phase' = phase
  BY DEF ParseClose
<1>2. /\ n \in Nat /\ n + 1 \in 1..Len(file) /\ Line = file[n + 1] /\ IsSeq(file)
  BY <1>1, LineFacts DEF Shape
<1>3. file[n + 1].key = "}" /\ "}" \notin OfServer \cup OfLocation \cup {"server"}
  BY <1>1, <1>2, Keywords
<1>4. /\ N = Owner(n) /\ PortsSoFar(servers, n) /\ LocSoFar(loc, N, n)
      /\ \A i \in 1..N : FieldsSoFar(servers[i], i, n) /\ LocsSoFar(servers[i], i, n)
  BY <1>1 DEF SoFar
<1>5. PICK q \in Keyed("location") :
          /\ Open(q, n) /\ \A r \in Keyed("location") : Open(r, n) => r = q
          /\ Owner(q) = N /\ loc.path = file[q].name
          /\ \A k \in OfLocation : LocationAsWritten(loc, N, q, k, n + 1)
  BY <1>4 DEF LocSoFar
<1>6. servers # <<>>
  <2>1. q \in 1..n /\ q \in DOMAIN file /\ file[q].key = "location"
    <3>1. q \in 1..Len(file) /\ file[q].key = "location" /\ q <= n /\ DOMAIN file = 1..Len(file)
      BY <1>2, <1>5, SeqFacts, KeyedFacts DEF Open
    <3> QED
      BY <1>2, <3>1
  <2>2. /\ Judged(file, q) /\ (ServerBefore(file, n + 1) => servers # <<>>)
    BY <1>1, <2>1 DEF PassesAgree, Parse, Read
  <2>3. ServerBefore(file, q)
    BY <2>1, <2>2 DEF Judged
  <2>4. 1..(q - 1) \subseteq 1..((n + 1) - 1)
    BY <1>2, <2>1
  <2>5. ServerBefore(file, n + 1)
    BY <2>3, <2>4 DEF ServerBefore
  <2> QED
    BY <2>2, <2>5
<1>7. /\ N \in 1..N /\ Len(tt) = N /\ tt[N].locs = Append(servers[N].locs, loc)
      /\ tt[N].fields = servers[N].fields
      /\ \A i \in 1..N : i # N => tt[i] = servers[i]
  BY <1>6, CloseFacts
<1>8. IsSeq(servers[N].locs)
  BY <1>7 DEF Shape, ServerShape
<1>9. Owner(n + 1) = N
  BY <1>2, <1>3, <1>4, OwnerNext
<1> HIDE DEF n, N, tt
<1>10. ASSUME NEW i \in 1..N
       PROVE  FieldsSoFar(tt[i], i, n + 1)
  <2>1. tt[i].fields = servers[i].fields /\ FieldsSoFar(servers[i], i, n)
    BY <1>4, <1>7
  <2> QED
    BY <1>2, <1>3, <2>1, FieldsKept
<1>11. ASSUME NEW i \in 1..N, i # N
       PROVE  LocsSoFar(tt[i], i, n + 1)
  <2>1. tt[i].locs = servers[i].locs /\ LocsSoFar(servers[i], i, n)
    BY <1>4, <1>7, <1>11
  <2>2. \A r \in LocationLines(i) : ~Open(r, n)
    BY <1>2, <1>5, <1>11, LocationLineFacts
  <2> QED
    BY <1>2, <2>1, <2>2, LocsKept
<1>12. LocsSoFar(tt[N], N, n + 1)
  <2> DEFINE L == servers[N].locs
             M == tt[N].locs
             E == Ended(N, n)
             Nth(r) == Cardinality({s \in LocationLines(N) : s <= r})
  <2>1. LocsSoFar(servers[N], N, n) /\ Len(L) = Cardinality(E)
    BY <1>4, <1>7 DEF LocsSoFar
  <2>2. /\ Len(L) \in Nat /\ Len(M) = Len(L) + 1 /\ M[Len(L) + 1] = loc
        /\ \A j \in 1..Len(L) : M[j] = L[j]
    BY <1>7, <1>8, AppendAny
  <2>3. /\ q \in LocationLines(N) /\ q \notin E /\ IsFiniteSet(E)
        /\ \A r \in E : r \in Keyed("location") /\ ~Open(r, n)
        /\ \A r \in LocationLines(N) : Open(r, n) => r = q
    BY <1>2, <1>5, LocationLineFacts, EndedFacts
  <2>4. Ended(N, n + 1) = E \cup {q}
    <3>1. \A r : r \in Ended(N, n + 1) <=>
                     r \in E \/ (r \in LocationLines(N) /\ Open(r, n) /\ file[n + 1].key = "}")
      BY <1>2, EndedNext, Zenon
    <3>2. \A r : r \in Ended(N, n + 1) <=> r \in E \/ r = q
      BY <1>3, <1>5, <2>3, <3>1
    <3> QED
      BY <3>2
  <2>5. Cardinality(Ended(N, n + 1)) = Len(M)
    BY <2>1, <2>2, <2>3, <2>4, FS_AddElement
  <2>6. Nth(q) = Len(L) + 1 /\ \A r \in E : Nth(r) \in 1..Len(L)
    BY <1>2, <1>5, <2>1, <2>3, EndedIndex
  <2>7. ASSUME NEW k \in OfLocation
        PROVE  /\ LocationAsWritten(loc, N, q, k, (n + 1) + 1)
               /\ \A r \in E : LocationAsWritten(L[Nth(r)], N, r, k, (n + 1) + 1)
    <3>1. file[n + 1].key # k
      BY <1>3
    <3>2. LocationAsWritten(loc, N, q, k, (n + 1) + 1)
      BY <1>2, <1>5, <3>1, FieldKept
    <3>3. ASSUME NEW r \in E
          PROVE  LocationAsWritten(L[Nth(r)], N, r, k, (n + 1) + 1)
      <4>1. LocationAsWritten(L[Nth(r)], N, r, k, n + 1)
        BY <2>1 DEF LocsSoFar
      <4> HIDE DEF Nth, L, E
      <4> QED
        BY <1>2, <2>3, <3>1, <4>1, FieldKept
    <3> QED
      BY <3>2, <3>3
  <2>8. \A r \in E : L[Nth(r)].path = file[r].name
    BY <2>1 DEF LocsSoFar
  <2>9. ASSUME NEW r \in Ended(N, n + 1)
        PROVE  /\ M[Nth(r)].path = file[r].name
               /\ \A k \in OfLocation : LocationAsWritten(M[Nth(r)], N, r, k, (n + 1) + 1)
    <3> HIDE DEF Nth, L, M, E
    <3>1. CASE r = q
      BY <1>5, <2>2, <2>6, <2>7, <3>1
    <3>2. CASE r \in E
      BY <2>2, <2>6, <2>7, <2>8, <3>2
    <3> QED
      BY <2>4, <3>1, <3>2
  <2> QED
    BY <2>5, <2>9 DEF LocsSoFar
<1>13. PortsSoFar(tt, n + 1)
  <2>1. PortsSoFar(servers, n + 1)
    BY <1>2, <1>3, <1>4, PortsKept
  <2>2. /\ Len(tt) = Len(servers)
        /\ \A i \in 1..Len(servers) : tt[i].fields = servers[i].fields
    BY <1>7 DEF N
  <2>3. \A j \in 1..Len(servers) : \A i \in 1..(j - 1) : i \in 1..Len(servers)
    BY <1>7 DEF N
  <2> QED
    BY <2>1, <2>2, <2>3 DEF PortsSoFar
<1> QED
  BY <1>1, <1>7, <1>9, <1>10, <1>11, <1>12, <1>13 DEF SoFar, n, tt

-----------------------------------------------------------------------------
(***************************************************************************)
(* What is read is what is written                                         *)
(***************************************************************************)

\* SoFar depends on the file and its parameters only.
LEMMA SameFile ==
    ASSUME file' = file, NEW ss, NEW n, NEW l, NEW in
    PROVE  SoFar(ss, n, l, in)' <=> SoFar(ss, n, l, in)
BY DEF SoFar, FieldsSoFar, LocsSoFar, LocSoFar, PortsSoFar, Open, Ended, Owner, Keyed,
       Written, OwnLines, Block, FirstEntries, LocationLines, LocationAsWritten

LEMMA EndOfFileSoFar ==
    ASSUME Shape, PassesAgree, EndOfFile
    PROVE  ReadSoFar'
<1>1. phase = "validate" /\ phase' \in {"parse", "invalid"} /\ inLoc' = FALSE
      /\ UNCHANGED <<file, at, servers, loc>>
  BY DEF EndOfFile
<1>2. at = 0 /\ servers = <<>> /\ IsSeq(file)
  BY <1>1 DEF PassesAgree, Shape
<1>3. Len(servers) = 0 /\ Owner(0) = 0 /\ 1..0 = {}
  BY <1>2, NoElements, OwnerNone
<1>4. SoFar(servers, 0, loc, FALSE)
  BY <1>3 DEF SoFar, PortsSoFar
<1>5. SoFar(servers, at, loc, inLoc)'
  BY <1>1, <1>2, <1>4, SameFile
<1> QED
  BY <1>1, <1>5 DEF ReadSoFar

LEMMA FinishSoFar ==
    ASSUME Shape, PassesAgree, ReadSoFar, Finish
    PROVE  ReadSoFar'
<1>1. /\ phase = "parse" /\ at = Len(file) /\ phase' = IF inLoc THEN "fault" ELSE "done"
      /\ UNCHANGED <<file, inLoc, at, servers, loc>>
  BY DEF Finish
<1>2. SoFar(servers, at, loc, inLoc) /\ (inLoc <=> InLocation(file, at))
      /\ ~InLocation(file, Len(file))
  BY <1>1 DEF ReadSoFar, PassesAgree
<1>3. ~inLoc /\ ~InLocation(file, at)
  BY <1>1, <1>2
<1>4. SoFar(servers, at, loc, inLoc)'
  BY <1>1, <1>2, SameFile
<1> QED
  BY <1>1, <1>3, <1>4 DEF ReadSoFar

LEMMA ParseSoFar ==
    ASSUME Shape, PassesAgree, ReadSoFar,
           ParseNothing \/ ParseServer \/ ParseDirective \/ ParseLocation \/ ParseOverride
               \/ ParseClose
    PROVE  ReadSoFar'
<1>1. Parse
  BY DEF ParseNothing, ParseServer, ParseDirective, ParseLocation, ParseOverride, ParseClose
<1>2. phase = "parse" /\ at' = at + 1 /\ file' = file /\ at \in Nat
      /\ at + 1 \in 1..Len(file) /\ Line = file[at + 1] /\ IsSeq(file)
  BY <1>1, LineFacts DEF Shape
<1>3. SoFar(servers, at, loc, inLoc)
  BY <1>2 DEF ReadSoFar
<1>4. ASSUME ParseServer
      PROVE  phase' = phase /\ SoFar(servers', at + 1, loc', inLoc')
  <2>1. /\ ~inLoc /\ file[at + 1].key = "server" /\ servers' = Append(servers, NewServer)
        /\ UNCHANGED <<phase, inLoc, loc>> /\ inLoc \in BOOLEAN
    BY <1>2, <1>4 DEF ParseServer, Shape
  <2>2. inLoc = FALSE
    BY <2>1
  <2> QED
    BY <1>2, <1>3, <2>1, <2>2, ServerSoFar
<1>5. phase' = phase /\ SoFar(servers', at + 1, loc', inLoc')
  BY <1>3, <1>4, NothingSoFar, DirectiveSoFar, LocationSoFar, OverrideSoFar, CloseSoFar
<1>6. SoFar(servers, at, loc, inLoc)'
  BY <1>2, <1>5, SameFile
<1> QED
  BY <1>2, <1>5, <1>6 DEF ReadSoFar

LEMMA NextSoFar == Shape /\ PassesAgree /\ ReadSoFar /\ [Next]_vars => ReadSoFar'
<1> SUFFICES ASSUME Shape, PassesAgree, ReadSoFar, [Next]_vars
             PROVE  ReadSoFar'
  OBVIOUS
<1>1. CASE UNCHANGED vars
  <2>1. UNCHANGED <<phase, file, inLoc, at, servers, loc>>
    BY <1>1 DEF vars
  <2>2. SoFar(servers, at, loc, inLoc)' <=> SoFar(servers, at, loc, inLoc)
    BY <2>1, SameFile
  <2> QED
    BY <2>1, <2>2 DEF ReadSoFar
<1>2. CASE \E l \in Lines : Pass(l) \/ OpenBlock(l) \/ CloseBlock(l) \/ Reject(l)
  <2>1. phase' \in {"validate", "invalid"}
    BY <1>2 DEF Pass, OpenBlock, CloseBlock, Reject, Validate
  <2> QED
    BY <2>1 DEF ReadSoFar
<1>3. CASE EndOfFile
  BY <1>3, EndOfFileSoFar
<1>4. CASE Throw
  BY <1>4 DEF Throw, ReadSoFar
<1>5. CASE ParseNothing \/ ParseServer \/ ParseDirective \/ ParseLocation \/ ParseOverride
               \/ ParseClose
  BY <1>5, ParseSoFar
<1>6. CASE Finish
  BY <1>6, FinishSoFar
<1> QED
  BY <1>1, <1>2, <1>3, <1>4, <1>5, <1>6 DEF Next, FirstPass, SecondPass

\* At every line, Parser::parsing has built the servers and locations that are
\* written up to it, and holds the one location whose block is open.
THEOREM ReadSoFarHolds == Spec => []ReadSoFar
<1>1. Init => ReadSoFar
  BY DEF Init, ReadSoFar
<1> QED
  BY <1>1, NextSoFar, Shaped, PassesAgreeHolds, PTL DEF Spec

\* No two servers are given the same port: set_listen is refused the port of
\* every other server of server_list.
THEOREM PortsDistinctHolds == Spec => []PortsDistinct
<1>1. Shape /\ ReadSoFar => PortsDistinct
  <2> SUFFICES ASSUME Shape, ReadSoFar, phase = "done",
                      NEW j \in DOMAIN servers, NEW i \in 1..(j - 1),
                      servers[i].fields["listen"] = servers[j].fields["listen"]
               PROVE  OwnLines(j, "listen", Len(file) + 1) = {}
    BY DEF PortsDistinct
  <2>1. PortsSoFar(servers, at) /\ at = Len(file)
    BY DEF ReadSoFar, SoFar
  <2>2. j \in 1..Len(servers)
    BY SeqFacts DEF Shape
  <2> QED
    BY <2>1, <2>2 DEF PortsSoFar
<1> QED
  BY <1>1, ReadSoFarHolds, Shaped, PTL

\* However blocks and lines follow each other, a server and its locations get
\* what is written in them, and nothing of what is written in others.
THEOREM AsWrittenHolds == Spec => []AsWritten
<1>1. Shape /\ ReadSoFar => AsWritten
  <2> SUFFICES ASSUME Shape, ReadSoFar, phase = "done"
               PROVE  AsWritten
    BY DEF AsWritten
  <2> DEFINE n == Len(file)
  <2>1. SoFar(servers, n, loc, inLoc) /\ ~InLocation(file, n)
    BY DEF ReadSoFar
  <2>2. IsSeq(file) /\ n \in Nat /\ n \in 0..n /\ DOMAIN servers = 1..Len(servers)
    BY SeqFacts DEF Shape
  <2>3. \A q \in Keyed("location") : ~Open(q, n)
    BY <2>1, <2>2, InLocationOpen
  <2>4. Len(servers) = Cardinality(Keyed("server"))
    <3>1. \A q \in Keyed("server") : q \in 1..n
      BY <2>2, KeyedFacts
    <3>2. {q \in Keyed("server") : q <= n} = Keyed("server")
      BY <2>2, <3>1
    <3> QED
      BY <2>1, <3>2 DEF SoFar, Owner
  <2>5. ASSUME NEW i
        PROVE  Ended(i, n) = LocationLines(i)
    <3>1. \A q \in LocationLines(i) : q \in Keyed("location") /\ q <= n
      BY <2>2, LocationLineFacts
    <3>2. \A q \in Ended(i, n) : q \in LocationLines(i)
      BY DEF Ended
    <3>3. \A q \in LocationLines(i) : q \in Ended(i, n)
      BY <2>2, <2>3, <3>1, EndedFacts
    <3> QED
      BY <3>2, <3>3
  <2>6. \A i \in 1..Len(servers) : FieldsSoFar(servers[i], i, n) /\ LocsSoFar(servers[i], i, n)
    BY <2>1 DEF SoFar
  <2> HIDE DEF n
  <2>7. \A i \in DOMAIN servers :
            /\ \A k \in OfServer \ {"root", "server_name"} :
                  servers[i].fields[k] = Written(i, k, n + 1)
            /\ Len(servers[i].locs) = Cardinality(LocationLines(i))
            /\ \A q \in LocationLines(i) :
                  LET m == Cardinality({r \in LocationLines(i) : r <= q})
                      l == servers[i].locs[m]
                  IN /\ l.path = file[q].name
                     /\ \A k \in OfLocation : LocationAsWritten(l, i, q, k, n + 1)
    BY <2>2, <2>5, <2>6 DEF FieldsSoFar, LocsSoFar
  <2> QED
    BY <2>4, <2>7 DEF AsWritten, n
<1> QED
  BY <1>1, ReadSoFarHolds, Shaped, PTL
=============================================================================
