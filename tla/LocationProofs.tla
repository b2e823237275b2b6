---------------------------- MODULE LocationProofs ----------------------------
(***************************************************************************)
(* Proofs about LocationMatch: requests leave the map of a server as it    *)
(* was configured, and a target is answered by its most specific location. *)
(***************************************************************************)
EXTENDS LocationMatch, WellFoundedInduction, TLAPS

-----------------------------------------------------------------------------
(***************************************************************************)
(* Smallest and greatest numbers                                           *)
(***************************************************************************)

LEMMA SmallestExists ==
    ASSUME NEW T, T \subseteq Nat, T # {}
    PROVE  \E x \in T : \A y \in T : x <= y
  <1> DEFINE R == OpToRel(<, Nat)
  <1>1. IsWellFoundedOn(R, Nat)
    BY NatLessThanWellFounded
  <1>2. \A x, y \in Nat : x < y => <<x, y>> \in R
    BY DEF OpToRel
  <1>3. ASSUME NEW Q, NEW S, IsWellFoundedOn(Q, S), T \subseteq S
        PROVE  \E x \in T : \A y \in T : ~(<<y, x>> \in Q)
    BY <1>3, WFMin
  <1> HIDE DEF R
  <1>4. PICK x \in T : \A y \in T : ~(<<y, x>> \in R)
    BY <1>1, <1>3
  <1>5. ASSUME NEW y \in T
        PROVE  x <= y
    <2>1. x \in Nat /\ y \in Nat
      OBVIOUS
    <2>2. ~(y < x)
      BY <1>2, <1>4, <2>1
    <2> QED BY <2>1, <2>2
  <1> QED BY <1>5

LEMMA GreatestExists ==
    ASSUME NEW n \in Nat, NEW T, T \subseteq 0..n, T # {}
    PROVE  \E x \in T : \A y \in T : x >= y
  <1> DEFINE U == {m \in Nat : \A y \in T : m >= y}
  <1>1. n \in U
    OBVIOUS
  <1>2. PICK m \in U : \A k \in U : m <= k
    BY <1>1, SmallestExists
  <1>3. CASE m \in T
    BY <1>3
  <1>4. CASE m \notin T
    <2>1. \A y \in T : y \in Nat /\ y <= m /\ y # m
      BY <1>4
    <2>2. PICK y \in T : TRUE
      OBVIOUS
    <2>3. m - 1 \in Nat
      BY <2>1, <2>2
    <2>4. \A z \in T : m - 1 >= z
      BY <2>1
    <2>5. m - 1 \in U
      BY <2>3, <2>4
    <2>6. m <= m - 1
      BY <1>2, <2>5
    <2> QED BY <2>6
  <1> QED BY <1>3, <1>4

\* What Max returns.
LEMMA MaxIs ==
    ASSUME NEW n \in Nat, NEW T, T \subseteq 0..n, T # {}
    PROVE  Max(T) \in T /\ \A y \in T : Max(T) >= y
  <1>1. \E x \in T : \A y \in T : x >= y
    BY GreatestExists
  <1> QED BY <1>1 DEF Max

\* What Min returns.
LEMMA MinIs ==
    ASSUME NEW T, T \subseteq Nat, T # {}
    PROVE  Min(T) \in T /\ \A y \in T : Min(T) <= y
  <1>1. \E x \in T : \A y \in T : x <= y
    BY SmallestExists
  <1> QED BY <1>1 DEF Min

-----------------------------------------------------------------------------
(***************************************************************************)
(* Paths                                                                   *)
(***************************************************************************)

LEMMA PathSeq ==
    ASSUME NEW s \in SeqOf(Names, MaxDepth)
    PROVE  s \in Seq(Names) /\ Len(s) \in 0..MaxDepth
  <1>1. PICK m \in 0..MaxDepth : s \in [1..m -> Names]
    BY DEF SeqOf
  <1>2. m \in Nat /\ MaxDepth \in Nat
    BY LocationAssumption
  <1> QED BY <1>1, <1>2

LEMMA SeqPath ==
    ASSUME NEW s \in Seq(Names), Len(s) <= MaxDepth
    PROVE  s \in SeqOf(Names, MaxDepth)
  <1>1. Len(s) \in 0..MaxDepth /\ s \in [1..Len(s) -> Names]
    BY LocationAssumption
  <1> QED BY <1>1 DEF SeqOf

\* The first name with a ".".
LEMMA FirstDotted ==
    ASSUME NEW s \in Seq(Names), \E i \in DOMAIN s : s[i] \in Dotted
    PROVE  LET n == SelectInSeq(s, LAMBDA name : name \in Dotted) IN
           /\ n \in 1..Len(s) /\ s[n] \in Dotted
           /\ \A i \in 1..(n - 1) : s[i] \notin Dotted
  <1> DEFINE I == {i \in 1..Len(s) : s[i] \in Dotted}
  <1>1. SelectInSeq(s, LAMBDA name : name \in Dotted) = IF I # {} THEN Min(I) ELSE 0
    BY DEF SelectInSeq
  <1>2. I \subseteq Nat /\ I # {}
    OBVIOUS
  <1>3. Min(I) \in I /\ \A y \in I : Min(I) <= y
    BY <1>2, MinIs
  <1> DEFINE n == Min(I)
  <1>4. SelectInSeq(s, LAMBDA name : name \in Dotted) = n
    BY <1>1, <1>2
  <1>5. n \in 1..Len(s) /\ s[n] \in Dotted /\ \A y \in I : n <= y
    BY <1>3
  <1> HIDE DEF n
  <1>6. \A i \in 1..(n - 1) : s[i] \notin Dotted
    BY <1>5
  <1> QED BY <1>4, <1>5, <1>6

\* The first k names of a path.
LEMMA TakeIs ==
    ASSUME NEW s \in Seq(Names), NEW k \in 0..Len(s)
    PROVE  /\ SubSeq(s, 1, k) \in Seq(Names)
           /\ Len(SubSeq(s, 1, k)) = k
           /\ \A i \in 1..k : SubSeq(s, 1, k)[i] = s[i]
  OBVIOUS

LEMMA SameSeq ==
    ASSUME NEW s \in Seq(Names), NEW t \in Seq(Names), Len(s) = Len(t),
           \A i \in 1..Len(s) : s[i] = t[i]
    PROVE  s = t
  <1>1. /\ s = [i \in 1..Len(s) |-> s[i]]
        /\ t = [i \in 1..Len(s) |-> t[i]]
    OBVIOUS
  <1>2. [i \in 1..Len(s) |-> s[i]] = [i \in 1..Len(s) |-> t[i]]
    OBVIOUS
  <1> QED BY <1>1, <1>2

\* Prefixes, name by name.
LEMMA PrefixIs ==
    ASSUME NEW s \in Seq(Names), NEW t \in Seq(Names)
    PROVE  IsPrefix(s, t) <=> /\ Len(s) <= Len(t)
                              /\ \A i \in 1..Len(s) : s[i] = t[i]
  <1>0. Len(s) \in Nat /\ Len(t) \in Nat
    OBVIOUS
  <1>1. ASSUME Len(s) <= Len(t)
        PROVE  (SubSeq(s, 1, Len(s)) = SubSeq(t, 1, Len(s)))
                 <=> \A i \in 1..Len(s) : s[i] = t[i]
    <2> DEFINE u == SubSeq(s, 1, Len(s))
               v == SubSeq(t, 1, Len(s))
    <2>1. Len(s) \in 0..Len(s) /\ Len(s) \in 0..Len(t)
      BY <1>0, <1>1
    <2>2. u \in Seq(Names) /\ Len(u) = Len(s) /\ \A i \in 1..Len(s) : u[i] = s[i]
      BY <2>1, TakeIs
    <2>3. v \in Seq(Names) /\ Len(v) = Len(s) /\ \A i \in 1..Len(s) : v[i] = t[i]
      BY <2>1, TakeIs
    <2> HIDE DEF u, v
    <2>4. u = v <=> \A i \in 1..Len(s) : s[i] = t[i]
      BY <2>2, <2>3, SameSeq
    <2> QED BY <2>4 DEF u, v
  <1> QED BY <1>1 DEF IsPrefix

-----------------------------------------------------------------------------
(***************************************************************************)
(* What is looked up                                                       *)
(***************************************************************************)

\* The directory of a target is a prefix of its names; the names it leaves
\* out begin with the last, or with one that has a ".".
LEMMA DirectoryIs ==
    ASSUME NEW t \in Targets
    PROVE  /\ t.names \in Seq(Names)
           /\ \E k \in 0..Len(t.names) :
                 /\ Directory(t) = SubSeq(t.names, 1, k)
                 /\ k < Len(t.names) => \/ t.names[k + 1] \in Dotted
                                        \/ k + 1 = Len(t.names) /\ ~t.slash
  <1> DEFINE s == t.names
  <1>1. t \in [names : SeqOf(Names, MaxDepth), slash : BOOLEAN,
               query : {"none", "plain", "dotted"}]
        /\ (s = <<>> => t.slash)
    BY DEF Targets
  <1>2. s \in SeqOf(Names, MaxDepth)
    BY <1>1
  <1> HIDE DEF s
  <1>3. s \in Seq(Names) /\ Len(s) \in Nat
    BY <1>2, PathSeq
  <1>4. CASE \E i \in DOMAIN s : s[i] \in Dotted
    <2> DEFINE n == SelectInSeq(s, LAMBDA name : name \in Dotted)
    <2>1. n \in 1..Len(s) /\ s[n] \in Dotted
      BY <1>3, <1>4, FirstDotted
    <2>2. Directory(t) = SubSeq(s, 1, n - 1)
      BY <1>4 DEF Directory, s
    <2> HIDE DEF n
    <2>3. n - 1 \in 0..Len(s) /\ (n - 1) + 1 = n
      BY <1>3, <2>1
    <2> QED BY <1>3, <2>1, <2>2, <2>3 DEF s
  <1>5. CASE ~\E i \in DOMAIN s : s[i] \in Dotted
    <2>1. CASE t.query = "dotted" /\ ~t.slash
      <3>1. Directory(t) = SubSeq(s, 1, Len(s) - 1)
        BY <1>5, <2>1 DEF Directory, Front, s
      <3>2. s # <<>>
        BY <1>1, <2>1
      <3>3. Len(s) - 1 \in 0..Len(s) /\ (Len(s) - 1) + 1 = Len(s)
        BY <1>3, <3>2
      <3> QED BY <1>3, <2>1, <3>1, <3>3 DEF s
    <2>2. CASE ~(t.query = "dotted" /\ ~t.slash)
      <3>1. Directory(t) = s
        BY <1>5, <2>2 DEF Directory, s
      <3>2. Len(s) \in 0..Len(s) /\ SubSeq(s, 1, Len(s)) = s
        <4>1. Len(s) \in 0..Len(s)
          BY <1>3
        <4>2. /\ SubSeq(s, 1, Len(s)) \in Seq(Names)
              /\ Len(SubSeq(s, 1, Len(s))) = Len(s)
              /\ \A i \in 1..Len(s) : SubSeq(s, 1, Len(s))[i] = s[i]
          BY <1>3, <4>1, TakeIs
        <4>3. \A w \in Seq(Names) :
                Len(w) = Len(s) /\ (\A i \in 1..Len(s) : w[i] = s[i]) => w = s
          BY <1>3, SameSeq
        <4> QED BY <4>1, <4>2, <4>3
      <3> QED BY <1>3, <3>1, <3>2 DEF s
    <2> QED BY <2>1, <2>2
  <1> QED BY <1>4, <1>5

LEMMA DirectorySeq ==
    ASSUME NEW t \in Targets
    PROVE  Directory(t) \in Seq(Names) /\ Len(Directory(t)) \in Nat
  <1>1. PICK k \in 0..Len(t.names) : Directory(t) = SubSeq(t.names, 1, k)
    BY DirectoryIs
  <1>2. t.names \in Seq(Names)
    BY DirectoryIs
  <1>3. SubSeq(t.names, 1, k) \in Seq(Names) /\ Len(SubSeq(t.names, 1, k)) = k
    BY <1>2, TakeIs
  <1>4. Len(t.names) \in Nat /\ k \in Nat
    BY <1>2
  <1> QED BY <1>1, <1>3, <1>4

\* The walk ends no earlier than at any path it reaches.
LEMMA RouteIs ==
    ASSUME NEW map, NEW t \in Targets
    PROVE  \E m \in Reached(map, Directory(t)) \cup {0} :
             /\ m \in 0..Len(Directory(t))
             /\ Route(map, t) = SubSeq(Directory(t), 1, m)
             /\ \A k \in Reached(map, Directory(t)) : m >= k
  <1> DEFINE d == Directory(t)
             R == Reached(map, d) \cup {0}
             m == Max(R)
  <1>1. Len(d) \in Nat
    BY DirectorySeq
  <1> HIDE DEF d
  <1>2. R \subseteq 0..Len(d) /\ R # {}
    BY <1>1 DEF Reached
  <1>3. m \in R /\ \A y \in R : m >= y
    BY <1>1, <1>2, MaxIs
  <1>4. Route(map, t) = SubSeq(d, 1, m)
    BY DEF Route, d
  <1> HIDE DEF m
  <1>5. m \in 0..Len(d) /\ \A k \in Reached(map, d) : m >= k
    BY <1>2, <1>3
  <1> QED BY <1>3, <1>4, <1>5 DEF d

LEMMA EmptyTake ==
    ASSUME NEW s \in Seq(Names)
    PROVE  SubSeq(s, 1, 0) = <<>>
  OBVIOUS

LEMMA FirstTarget ==
    [names |-> <<>>, slash |-> TRUE, query |-> "none"] \in Targets
  <1>1. <<>> \in Seq(Names) /\ Len(<<>>) <= MaxDepth
    BY LocationAssumption
  <1>2. <<>> \in SeqOf(Names, MaxDepth)
    BY <1>1, SeqPath
  <1> QED BY <1>2 DEF Targets

-----------------------------------------------------------------------------
(***************************************************************************)
(* The map never changes                                                   *)
(***************************************************************************)

\* A server without blocks, or with one for "/".
Rooted(c) == c = {} \/ <<>> \in c

Unchanged ==
    /\ config \in Configs
    /\ locMap = Start(config)
    /\ target \in Targets

LEMMA UnchangedInit == Init => Unchanged
  BY FirstTarget DEF Init, Unchanged

LEMMA UnchangedStep ==
    ASSUME \A c \in Configs : Rooted(c)
    PROVE  Unchanged /\ [Next]_vars => Unchanged'
  <1> SUFFICES ASSUME Unchanged, [Next]_vars
               PROVE  Unchanged'
    OBVIOUS
  <1>1. CASE Next
    <2>1. PICK t \in Targets : Request(t)
      BY <1>1 DEF Next
    <2>2. <<>> \in locMap
      BY DEF Unchanged, Rooted, Start
    <2>3. 0 \in Reached(locMap, Directory(t))
      <3>1. \A j \in 0..0 : SubSeq(Directory(t), 1, j) = <<>>
        BY DirectorySeq, EmptyTake
      <3>2. 0 \in 0..Len(Directory(t))
        BY DirectorySeq
      <3> QED BY <2>2, <3>1, <3>2 DEF Reached
    <2>4. locMap' = locMap
      BY <2>1, <2>3 DEF Request, Matched
    <2>5. config' = config /\ target' = t
      BY <2>1 DEF Request
    <2> QED BY <2>4, <2>5 DEF Unchanged
  <1>2. CASE UNCHANGED vars
    BY <1>2 DEF Unchanged, vars
  <1> QED BY <1>1, <1>2

\* Requests do not change how a server routes, if it has a block for "/" or
\* none at all: init_client_location has nothing to insert.
THEOREM RoutesKeptHolds ==
    ASSUME \A c \in Configs : Rooted(c)
    PROVE  Spec => []RoutesKept
  <1>1. Init => Unchanged
    BY UnchangedInit
  <1>2. Unchanged /\ [Next]_vars => Unchanged'
    BY UnchangedStep
  <1>3. Unchanged => RoutesKept
    BY DEF Unchanged, RoutesKept
  <1> QED BY <1>1, <1>2, <1>3, PTL DEF Spec

Placed == Unchanged /\ chosen \in locMap

LEMMA RouteFound ==
    ASSUME NEW map, <<>> \in map, NEW t \in Targets
    PROVE  Route(map, t) \in map
  <1> DEFINE d == Directory(t)
  <1>1. d \in Seq(Names)
    BY DirectorySeq
  <1>2. PICK m \in Reached(map, d) \cup {0} : Route(map, t) = SubSeq(d, 1, m)
    BY RouteIs
  <1>3. SubSeq(d, 1, 0) \in map
    BY <1>1, EmptyTake
  <1> HIDE DEF d
  <1>4. ASSUME NEW k \in Reached(map, d)
        PROVE  SubSeq(d, 1, k) \in map
    <2>1. k \in 0..Len(d) /\ \A j \in 0..k : SubSeq(d, 1, j) \in map
      BY DEF Reached
    <2>2. Len(d) \in Nat
      BY <1>1
    <2>3. k \in 0..k
      BY <2>1, <2>2
    <2> QED BY <2>1, <2>3
  <1> QED BY <1>2, <1>3, <1>4

\* The location that answers is one of the server's.
THEOREM TypeOKHolds ==
    ASSUME \A c \in Configs : Rooted(c)
    PROVE  Spec => []TypeOK
  <1>1. Init => Placed
    <2>1. Init => Unchanged
      BY UnchangedInit
    <2>2. Init => chosen \in locMap
      BY DEF Init, Rooted, Start
    <2> QED BY <2>1, <2>2 DEF Placed
  <1>2. Placed /\ [Next]_vars => Placed'
    <2> SUFFICES ASSUME Placed, [Next]_vars
                 PROVE  Placed'
      OBVIOUS
    <2>1. Unchanged'
      BY UnchangedStep DEF Placed
    <2>2. CASE Next
      <3>1. PICK t \in Targets : Request(t)
        BY <2>2 DEF Next
      <3>2. locMap' = locMap /\ <<>> \in locMap
        BY <2>1, <3>1 DEF Placed, Unchanged, Request, Rooted, Start
      <3>3. chosen' = Route(locMap, t)
        BY <3>1 DEF Request, Matched
      <3> QED BY <2>1, <3>2, <3>3, RouteFound DEF Placed
    <2>3. CASE UNCHANGED vars
      BY <2>1, <2>3 DEF Placed, vars
    <2> QED BY <2>2, <2>3
  <1>3. Placed => TypeOK
    <2> SUFFICES ASSUME Placed
                 PROVE  TypeOK
      OBVIOUS
    <2>1. config \in Configs /\ locMap = Start(config) /\ target \in Targets
      BY DEF Placed, Unchanged
    <2>2. config \subseteq SeqOf(Names, MaxDepth)
      BY <2>1, LocationAssumption
    <2>3. <<>> \in SeqOf(Names, MaxDepth)
      BY FirstTarget, DirectoryIs, LocationAssumption, SeqPath
    <2>4. config \subseteq locMap /\ locMap \subseteq SeqOf(Names, MaxDepth)
      BY <2>1, <2>2, <2>3 DEF Start
    <2> QED BY <2>1, <2>4 DEF Placed, TypeOK
  <1> QED BY <1>1, <1>2, <1>3, PTL DEF Spec

-----------------------------------------------------------------------------
(***************************************************************************)
(* The most specific location                                              *)
(***************************************************************************)

\* With every location its parents up to "/", and no "." in a path.
Closed(c) ==
    \A p \in c : /\ \A k \in 0..Len(p) : SubSeq(p, 1, k) \in c
                 /\ \A i \in 1..Len(p) : p[i] \notin Dotted

LEMMA ClosedRooted ==
    ASSUME NEW c \in Configs, Closed(c)
    PROVE  Rooted(c)
  <1>1. CASE c # {}
    <2>1. PICK p \in c : TRUE
      BY <1>1
    <2>2. p \in Seq(Names)
      BY LocationAssumption, PathSeq
    <2>3. Len(p) \in Nat
      BY <2>2
    <2>4. 0 \in 0..Len(p)
      BY <2>3
    <2>5. SubSeq(p, 1, 0) \in c
      BY <2>4 DEF Closed
    <2>6. SubSeq(p, 1, 0) = <<>>
      BY <2>2, EmptyTake
    <2> QED BY <2>5, <2>6 DEF Rooted
  <1> QED BY <1>1 DEF Rooted

\* A path that a target begins with is a prefix of what is looked up.
LEMMA PathLookedUp ==
    ASSUME NEW t \in Targets, NEW path \in Seq(Names), BeginsWith(t, path),
           \A i \in 1..Len(path) : path[i] \notin Dotted
    PROVE  /\ Len(path) <= Len(Directory(t))
           /\ \A i \in 1..Len(path) : path[i] = Directory(t)[i]
  <1> DEFINE s == t.names
             d == Directory(t)
             n == Len(path)
  <1>1. s \in Seq(Names)
    BY DirectoryIs
  <1>2. PICK k \in 0..Len(s) :
          /\ d = SubSeq(s, 1, k)
          /\ k < Len(s) => \/ s[k + 1] \in Dotted
                           \/ k + 1 = Len(s) /\ ~t.slash
    BY DirectoryIs
  <1>3. n <= Len(s) /\ \A i \in 1..n : path[i] = s[i]
    BY <1>1, PrefixIs DEF BeginsWith
  <1>4. path = s => t.slash
    BY DEF BeginsWith
  <1>5. n = Len(s) => path = s
    BY <1>1, <1>3, SameSeq
  <1>6. n \in Nat /\ Len(s) \in Nat
    BY <1>1
  <1>7. \A i \in 1..n : path[i] \notin Dotted
    OBVIOUS
  <1>8. Len(d) = k /\ \A i \in 1..k : d[i] = s[i]
    BY <1>1, <1>2, TakeIs
  <1> HIDE DEF s, d, n
  <1>9. n <= k
    <2>1. SUFFICES ASSUME k < n
                   PROVE  FALSE
      BY <1>6
    <2>2. k + 1 \in 1..n /\ k < Len(s)
      BY <1>3, <1>6, <2>1
    <2>3. s[k + 1] \notin Dotted
      BY <1>3, <1>7, <2>2
    <2>4. k + 1 = Len(s) /\ ~t.slash
      BY <1>2, <2>2, <2>3
    <2>5. n = Len(s)
      BY <1>3, <1>6, <2>1, <2>4
    <2> QED BY <1>4, <1>5, <2>4, <2>5
  <1>10. n <= Len(d) /\ \A i \in 1..n : path[i] = d[i]
    BY <1>3, <1>6, <1>8, <1>9
  <1> QED BY <1>10 DEF d, n

Routed ==
    /\ Unchanged
    /\ chosen = Route(locMap, target)

LEMMA RouteSpecific ==
    ASSUME NEW c \in Configs, Closed(c), NEW path \in c, NEW t \in Targets,
           BeginsWith(t, path)
    PROVE  IsPrefix(path, Route(Start(c), t))
  <1> DEFINE d == Directory(t)
             n == Len(path)
             map == Start(c)
  <1>1. map = c
    BY DEF Start
  <1>2. path \in Seq(Names) /\ n \in Nat
    BY LocationAssumption, PathSeq
  <1>3. d \in Seq(Names) /\ Len(d) \in Nat
    BY DirectorySeq
  <1>4. \A i \in 1..n : path[i] \notin Dotted
    BY DEF Closed
  <1>5. n <= Len(d) /\ \A i \in 1..n : path[i] = d[i]
    BY <1>2, <1>4, PathLookedUp
  <1>6. \A j \in 0..n : SubSeq(path, 1, j) \in map
    BY <1>1 DEF Closed
  <1>7. PICK m \in 0..Len(d) :
          /\ Route(map, t) = SubSeq(d, 1, m)
          /\ \A k \in Reached(map, d) : m >= k
    BY RouteIs
  <1> HIDE DEF d, n, map
  <1>8. ASSUME NEW j \in 0..n
        PROVE  SubSeq(d, 1, j) \in map
    <2>1. j \in 0..Len(d) /\ j \in 0..Len(path)
      BY <1>2, <1>3, <1>5 DEF n
    <2> DEFINE u == SubSeq(d, 1, j)
               v == SubSeq(path, 1, j)
    <2>2. u \in Seq(Names) /\ Len(u) = j /\ \A i \in 1..j : u[i] = d[i]
      BY <1>3, <2>1, TakeIs
    <2>3. v \in Seq(Names) /\ Len(v) = j /\ \A i \in 1..j : v[i] = path[i]
      BY <1>2, <2>1, TakeIs
    <2>4. \A i \in 1..j : path[i] = d[i]
      BY <1>2, <1>5
    <2> HIDE DEF u, v
    <2>5. u = v
      BY <2>2, <2>3, <2>4, SameSeq
    <2> QED BY <1>6, <2>5 DEF u, v
  <1>9. n \in Reached(map, d)
    BY <1>2, <1>3, <1>5, <1>8 DEF Reached
  <1>10. n <= m
    BY <1>2, <1>7, <1>9
  <1> DEFINE r == SubSeq(d, 1, m)
  <1>11. r \in Seq(Names) /\ Len(r) = m /\ \A i \in 1..m : r[i] = d[i]
    BY <1>3, TakeIs
  <1> HIDE DEF r
  <1>12. Len(path) <= Len(r) /\ \A i \in 1..Len(path) : path[i] = r[i]
    BY <1>2, <1>5, <1>10, <1>11 DEF n
  <1>13. IsPrefix(path, r)
    BY <1>2, <1>11, <1>12, PrefixIs
  <1> QED BY <1>7, <1>13 DEF r, map

\* Every request is answered by the most specific location whose path its
\* target begins with, whatever was requested before, on every server whose
\* locations have blocks for all their parents and no "." in their paths.
THEOREM MostSpecificHolds ==
    ASSUME \A c \in Configs : Closed(c)
    PROVE  Spec => []MostSpecific
  <1>1. \A c \in Configs : Rooted(c)
    BY ClosedRooted
  <1>2. Init => Routed
    <2>1. Init => Unchanged
      BY UnchangedInit
    <2>2. Init => chosen = Route(locMap, target)
      <3> SUFFICES ASSUME Init
                   PROVE  <<>> = Route(locMap, target)
        BY DEF Init
      <3>1. target \in Targets /\ target.names = <<>>
        BY FirstTarget DEF Init
      <3>2. PICK k \in 0..Len(target.names) :
              Directory(target) = SubSeq(target.names, 1, k)
        BY <3>1, DirectoryIs
      <3>3. Directory(target) = <<>>
        <4>1. Len(target.names) = 0
          BY <3>1
        <4>2. k = 0
          BY <4>1
        <4> QED BY <3>1, <3>2, <4>2, DirectoryIs, EmptyTake
      <3>4. PICK m \in 0..Len(Directory(target)) :
              Route(locMap, target) = SubSeq(Directory(target), 1, m)
        BY <3>1, RouteIs
      <3>5. m = 0
        BY <3>3
      <3> QED BY <3>1, <3>4, <3>5, DirectorySeq, EmptyTake
    <2> QED BY <2>1, <2>2 DEF Routed
  <1>3. Routed /\ [Next]_vars => Routed'
    <2> SUFFICES ASSUME Routed, [Next]_vars
                 PROVE  Routed'
      OBVIOUS
    <2>1. Unchanged'
      BY <1>1, UnchangedStep DEF Routed
    <2>2. CASE Next
      <3>1. PICK t \in Targets : Request(t)
        BY <2>2 DEF Next
      <3>2. locMap' = locMap
        BY <2>1, <3>1 DEF Routed, Unchanged, Request
      <3> QED BY <2>1, <3>1, <3>2 DEF Routed, Request, Matched
    <2>3. CASE UNCHANGED vars
      BY <2>1, <2>3 DEF Routed, vars
    <2> QED BY <2>2, <2>3
  <1>4. Routed => MostSpecific
    <2> SUFFICES ASSUME Routed, NEW path \in config, BeginsWith(target, path)
                 PROVE  IsPrefix(path, chosen)
      BY DEF MostSpecific
    <2>1. config \in Configs /\ target \in Targets
          /\ chosen = Route(Start(config), target)
      BY DEF Routed, Unchanged
    <2> QED BY <2>1, RouteSpecific
  <1> QED BY <1>2, <1>3, <1>4, PTL DEF Spec
===============================================================================
