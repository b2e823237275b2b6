---------------------------- MODULE SessionProofs ----------------------------
(***************************************************************************)
(* Sessions are kept apart for any number of browsers, servers and         *)
(* connections, and any number of ids and runs of the process.             *)
(***************************************************************************)
EXTENDS Session, TLAPS

LEMMA IdleFacts ==
    /\ Idle \in Link /\ Idle.stage = "idle" /\ Idle.sets = "nothing"
    /\ Idle.cookie = 0 /\ Idle.from = 0
BY BoundAssumption, SMT DEF Idle, Link

LEMMA NoJarFacts == NoJar \in Jar /\ NoJar.sid = 0 /\ NoJar.from = 0
BY BoundAssumption, SMT DEF NoJar, Jar

\* What a browser makes of an answer is a jar.
LEMMA KeptFacts ==
    ASSUME NEW c \in Jar, NEW k \in Link, run \in 1..MaxRun
    PROVE  /\ Kept(c, k) \in Jar
           /\ \/ Kept(c, k).sid = c.sid /\ Kept(c, k).from = c.from
              \/ /\ k.sets = "id"
                 /\ Kept(c, k).sid = k.sid /\ Kept(c, k).from = run
<1>1. CASE k.sets = "id"
  BY <1>1, BoundAssumption, SMT DEF Kept, Link, Jar
<1>2. CASE k.sets = "status"
  BY <1>2, SMT DEF Kept, Jar
<1>3. CASE k.sets = "nothing"
  BY <1>3, SMT DEF Kept, Jar
<1> QED
  BY <1>1, <1>2, <1>3, SMT DEF Link

\* A request that is sent, and one that is answered.
LEMMA AskedFacts ==
    ASSUME NEW v \in Server, NEW c \in Jar
    PROVE  /\ Asked(v, c) \in Link /\ Asked(v, c).stage = "asked"
           /\ Asked(v, c).server = v /\ Asked(v, c).cookie = c.sid
           /\ Asked(v, c).from = c.from /\ Asked(v, c).sets = "nothing"
BY SMT DEF Asked, Link, Jar

LEMMA AnsweredFacts ==
    ASSUME NEW q \in Link, NEW i \in Id,
           NEW sets \in {"nothing", "id", "status"}
    PROVE  /\ Answered(q, i, sets) \in Link
           /\ Answered(q, i, sets).stage = "answered"
           /\ Answered(q, i, sets).server = q.server
           /\ Answered(q, i, sets).cookie = q.cookie
           /\ Answered(q, i, sets).from = q.from
           /\ Answered(q, i, sets).sets = sets
           /\ Answered(q, i, sets).sid = i
BY SMT DEF Answered, Link

LEMMA InitSInv == Init => SInv
<1> SUFFICES ASSUME Init PROVE SInv
  OBVIOUS
<1> USE BoundAssumption, NoOneAssumption
<1>1. TypeOK
  BY IdleFacts, NoJarFacts, SMT DEF Init, TypeOK, NoSids, Id
<1>2. Counted /\ OneServer
  BY SMT DEF Init, Counted, OneServer, NoSids, Id
<1>3. HonestJar /\ HonestLink /\ Stages
  <2>1. run = 1 /\ \A b \in Browser : jar[b] = NoJar
                   /\ \A l \in Lane : link[b][l] = Idle
    BY SMT DEF Init
  <2> QED
    BY <2>1, IdleFacts, NoJarFacts, SMT
    DEF HonestJar, HonestLink, Honest, Stages
<1>4. OwnSession /\ SidApart /\ SessionKept /\ ConfirmedOnce
  BY IdleFacts, NoJarFacts, SMT
  DEF Init, OwnSession, SidApart, SessionKept, ConfirmedOnce
<1> QED
  BY <1>1, <1>2, <1>3, <1>4 DEF SInv

\* One connection changes, and nothing else.
LEMMA LinkStep ==
    ASSUME SInv, NEW b \in Browser, NEW l \in Lane, NEW k \in Link,
           Becomes(b, l, k)
    PROVE  /\ link' \in [Browser -> [Lane -> Link]]
           /\ \A c \in Browser, m \in Lane :
                 link'[c][m] = IF c = b /\ m = l THEN k ELSE link[c][m]
BY SMT DEF SInv, TypeOK, Becomes

LEMMA NextSInv == SInv /\ [Next]_vars => SInv'
<1> SUFFICES ASSUME SInv, [Next]_vars PROVE SInv'
  OBVIOUS
<1> USE BoundAssumption, NoOneAssumption
<1>0. TypeOK /\ Counted /\ OneServer /\ HonestJar /\ HonestLink /\ Stages
      /\ OwnSession /\ SidApart /\ SessionKept /\ ConfirmedOnce
  BY DEF SInv
<1>f. /\ run \in Nat /\ run # 0
      /\ \A c \in Browser :
            /\ jar[c] \in Jar /\ jar[c].sid \in {0} \cup Id /\ jar[c].from \in Nat
            /\ \A m \in Lane :
                  LET q == link[c][m] IN
                  /\ q \in Link /\ q.from \in Nat /\ q.cookie \in {0} \cup Id
                  /\ q.sid \in {0} \cup Id
                  /\ q.sets # "nothing" => q.stage = "answered"
                  /\ q.stage = "answered" => q.sid \in Id /\ q.server \in Server
  <2>1. /\ run \in Nat /\ run # 0
        /\ \A c \in Browser : jar[c] \in Jar /\ \A m \in Lane : link[c][m] \in Link
    BY <1>0, SMT DEF TypeOK
  <2>2. \A q \in Link :
            /\ q.from \in Nat /\ q.cookie \in {0} \cup Id /\ q.sid \in {0} \cup Id
    BY SMT DEF Link
  <2>3. \A c \in Jar : c.sid \in {0} \cup Id /\ c.from \in Nat
    BY SMT DEF Jar
  <2>4. \A c \in Browser, m \in Lane :
            LET q == link[c][m] IN
            /\ q.sets # "nothing" => q.stage = "answered"
            /\ q.stage = "answered" => q.sid # 0 /\ q.server \in Server
    BY <1>0 DEF Stages
  <2> QED
    BY <2>1, <2>2, <2>3, <2>4, SMT
<1>1. ASSUME NEW b \in Browser, NEW l \in Lane, NEW v \in Server, Ask(b, l, v)
      PROVE  SInv'
  <2> DEFINE k == Asked(v, jar[b])
  <2>1. jar[b] \in Jar
    BY <1>0, SMT DEF TypeOK
  <2>2. /\ k \in Link /\ k.stage = "asked" /\ k.server = v
        /\ k.cookie = jar[b].sid /\ k.from = jar[b].from /\ k.sets = "nothing"
    BY <2>1, AskedFacts
  <2>3. /\ link' \in [Browser -> [Lane -> Link]]
        /\ \A c \in Browser, m \in Lane :
              link'[c][m] = IF c = b /\ m = l THEN k ELSE link[c][m]
    BY <1>1, <2>2, LinkStep DEF Ask
  <2> HIDE DEF k
  <2>4. UNCHANGED <<newId, sidMap, owner, run, jar>>
    BY <1>1 DEF Ask
  <2>5. TypeOK' /\ Counted' /\ OneServer' /\ SidApart'
    BY <1>0, <2>3, <2>4, SMT DEF TypeOK, Counted, OneServer, SidApart
  <2>6. HonestJar' /\ HonestLink' /\ Stages'
    BY <1>0, <2>2, <2>3, <2>4, SMT DEF HonestJar, HonestLink, Stages, Honest
  <2>7. OwnSession' /\ SessionKept'
    BY <1>0, <2>2, <2>3, <2>4, SMT DEF OwnSession, SessionKept, Known
  <2>8. ConfirmedOnce'
    BY <1>0, <2>2, <2>3, <2>4, SMT DEF ConfirmedOnce
  <2> QED
    BY <2>5, <2>6, <2>7, <2>8 DEF SInv
<1>2. ASSUME NEW b \in Browser, NEW l \in Lane, Unparsed(b, l) \/ Lose(b, l)
      PROVE  SInv'
  <2>1. /\ link' \in [Browser -> [Lane -> Link]]
        /\ \A c \in Browser, m \in Lane :
              link'[c][m] = IF c = b /\ m = l THEN Idle ELSE link[c][m]
    BY <1>2, IdleFacts, LinkStep DEF Unparsed, Lose
  <2>2. UNCHANGED <<newId, sidMap, owner, run, jar>>
    BY <1>2 DEF Unparsed, Lose
  <2>3. TypeOK' /\ Counted' /\ OneServer' /\ SidApart'
    BY <1>0, <2>1, <2>2, SMT DEF TypeOK, Counted, OneServer, SidApart
  <2>4. HonestJar' /\ HonestLink' /\ Stages'
    <3>1. HonestJar' /\ Stages'
      BY <1>0, <2>1, <2>2, IdleFacts, SMT DEF HonestJar, Stages, Honest
    <3>2. HonestLink'
      BY <1>0, <1>f, <2>1, <2>2, IdleFacts, SMT DEF HonestLink, Honest
    <3> QED
      BY <3>1, <3>2
  <2>5. OwnSession' /\ SessionKept'
    BY <1>0, <2>1, <2>2, IdleFacts, SMT DEF OwnSession, SessionKept, Known
  <2>6. ConfirmedOnce'
    BY <1>0, <2>1, <2>2, IdleFacts, SMT DEF ConfirmedOnce
  <2> QED
    BY <2>3, <2>4, <2>5, <2>6 DEF SInv
<1>3. ASSUME NEW b \in Browser, NEW l \in Lane, Confirm(b, l)
      PROVE  SInv'
  <2> DEFINE v == link[b][l].server
             i == link[b][l].cookie
             k == Answered(link[b][l], i, "status")
  <2>1. v \in Server /\ i \in Id /\ link[b][l] \in Link /\ sidMap[v][i] = "new"
    BY <1>0, <1>3, SMT DEF Confirm, Manage, Known, Stages, TypeOK, Link
  <2>2. /\ k \in Link /\ k.stage = "answered" /\ k.server = v /\ k.cookie = i
        /\ k.from = link[b][l].from /\ k.sets = "status" /\ k.sid = i
    <3>1. \A q \in Link, j \in Id :
              /\ Answered(q, j, "status") \in Link
              /\ Answered(q, j, "status").stage = "answered"
              /\ Answered(q, j, "status").server = q.server
              /\ Answered(q, j, "status").cookie = q.cookie
              /\ Answered(q, j, "status").from = q.from
              /\ Answered(q, j, "status").sets = "status"
              /\ Answered(q, j, "status").sid = j
      BY AnsweredFacts, SMT
    <3> QED
      BY <2>1, <3>1
  <2>3. /\ link' \in [Browser -> [Lane -> Link]]
        /\ \A c \in Browser, m \in Lane :
              link'[c][m] = IF c = b /\ m = l THEN k ELSE link[c][m]
    BY <1>3, <2>2, LinkStep DEF Confirm, Managed
  <2>4. /\ UNCHANGED <<newId, owner, run, jar>>
        /\ sidMap' \in [Server -> [Id -> {"none", "new", "old"}]]
        /\ \A w \in Server, j \in Id :
              sidMap'[w][j] = IF w = v /\ j = i THEN "old" ELSE sidMap[w][j]
    BY <1>0, <1>3, <2>1, SMT DEF Confirm, TypeOK
  <2>5. link[b][l].stage = "asked"
    BY <1>3 DEF Confirm, Manage
  <2> HIDE DEF k, v, i
  <2>6. TypeOK' /\ Counted' /\ OneServer' /\ SidApart'
    <3>1. TypeOK' /\ SidApart'
      BY <1>0, <2>3, <2>4, SMT DEF TypeOK, SidApart
    <3>2. \A w \in Server, j \in Id : sidMap'[w][j] # "none" => sidMap[w][j] # "none"
      BY <2>1, <2>4, SMT
    <3>3. Counted' /\ OneServer'
      BY <1>0, <2>4, <3>2, SMT DEF Counted, OneServer
    <3> QED
      BY <3>1, <3>3
  <2>7. i # 0
    BY <2>1, SMT DEF Id
  <2>8. k.from <= run /\ (k.from = run => owner[i] = b) /\ k.from \in Nat
    <3>1. Honest(b, link[b][l].cookie, link[b][l].from)
      BY <1>0 DEF HonestLink
    <3>2. link[b][l].from \in Nat /\ link[b][l].cookie = i
      BY <1>f DEF i
    <3> QED
      BY <2>2, <2>7, <3>1, <3>2, SMT DEF Honest
  <2>9. HonestJar' /\ HonestLink' /\ Stages'
    <3>1. HonestJar' /\ Stages'
      BY <1>0, <2>1, <2>2, <2>3, <2>4, <2>7, SMT DEF HonestJar, Stages, Honest
    <3>2. HonestLink'
      BY <1>0, <2>2, <2>3, <2>4, <2>8, SMT DEF HonestLink, Honest
    <3> QED
      BY <3>1, <3>2
  <2>10. OwnSession'
    <3>1. owner[k.sid] = b \/ (k.cookie = k.sid /\ k.from < run)
      BY <1>f, <2>2, <2>8, SMT
    <3> QED
      BY <1>0, <2>2, <2>3, <2>4, <3>1, SMT DEF OwnSession
  <2>11. SessionKept'
    <3> SUFFICES ASSUME NEW c \in Browser, NEW m \in Lane,
                        link'[c][m].stage = "answered", link'[c][m].sets = "id",
                        link'[c][m].cookie # 0, link'[c][m].from = run
                 PROVE  sidMap'[link'[c][m].server][link'[c][m].cookie] = "none"
      BY <2>4, SMT DEF SessionKept, Known
    <3>1. link'[c][m] = link[c][m] /\ link[c][m] \in Link
      BY <1>0, <2>2, <2>3, SMT DEF TypeOK
    <3>2. sidMap[link[c][m].server][link[c][m].cookie] = "none"
          /\ link[c][m].server \in Server /\ link[c][m].cookie \in Id
      BY <1>0, <1>f, <3>1, SMT DEF SessionKept, Known
    <3> QED
      BY <2>1, <2>4, <3>1, <3>2, SMT
  <2>12. ConfirmedOnce'
    <3>1. \A c \in Browser, m \in Lane : link[c][m].sets = "status" =>
              /\ link[c][m].server \in Server /\ link[c][m].sid \in Id
              /\ sidMap[link[c][m].server][link[c][m].sid] = "old"
              /\ link[c][m].sid # i
      <4> TAKE c \in Browser, m \in Lane
      <4> HAVE link[c][m].sets = "status"
      <4>1. /\ link[c][m].server \in Server /\ link[c][m].sid \in Id
            /\ sidMap[link[c][m].server][link[c][m].sid] = "old"
        BY <1>0, <1>f, SMT DEF ConfirmedOnce
      <4> QED
        BY <1>0, <2>1, <4>1, SMT DEF OneServer
    <3>2. \A c, d \in Browser, m, n \in Lane :
              link[c][m].sets = "status" /\ link[d][n].sets = "status"
              /\ link[d][n].sid = link[c][m].sid => d = c /\ n = m
      BY <1>0, <1>f, SMT DEF ConfirmedOnce
    <3>3. \A c \in Browser, m \in Lane : link'[c][m].sets = "status" =>
              /\ sidMap'[link'[c][m].server][link'[c][m].sid] = "old"
              /\ link'[c][m].sid = i => c = b /\ m = l
      BY <2>1, <2>2, <2>3, <2>4, <3>1, SMT
    <3>4. \A c, d \in Browser, m, n \in Lane :
              link'[c][m].sets = "status" /\ link'[d][n].sets = "status"
              /\ link'[d][n].sid = link'[c][m].sid => d = c /\ n = m
      BY <2>2, <2>3, <3>1, <3>2, SMT
    <3> QED
      BY <3>3, <3>4, SMT DEF ConfirmedOnce
  <2> QED
    BY <2>6, <2>9, <2>10, <2>11, <2>12 DEF SInv
<1>4. ASSUME NEW b \in Browser, NEW l \in Lane, Recognise(b, l)
      PROVE  SInv'
  <2> DEFINE v == link[b][l].server
             i == link[b][l].cookie
             k == Answered(link[b][l], i, "nothing")
  <2>1. v \in Server /\ i \in Id /\ link[b][l] \in Link
    BY <1>0, <1>f, <1>4, SMT DEF Recognise, Manage, Known, Stages
  <2>2. /\ k \in Link /\ k.stage = "answered" /\ k.server = v /\ k.cookie = i
        /\ k.from = link[b][l].from /\ k.sets = "nothing" /\ k.sid = i
    BY <2>1, AnsweredFacts, SMTT(30)
  <2>3. /\ link' \in [Browser -> [Lane -> Link]]
        /\ \A c \in Browser, m \in Lane :
              link'[c][m] = IF c = b /\ m = l THEN k ELSE link[c][m]
    BY <1>4, <2>2, LinkStep DEF Recognise, Managed
  <2>4. UNCHANGED <<newId, sidMap, owner, run, jar>>
    BY <1>4 DEF Recognise
  <2>5. i # 0
    BY <2>1, SMT DEF Id
  <2>6. k.from <= run /\ (k.from = run => owner[i] = b) /\ k.from \in Nat
    BY <1>0, <1>f, <2>2, <2>5, SMT DEF HonestLink, Honest
  <2> HIDE DEF k, v, i
  <2>7. TypeOK' /\ Counted' /\ OneServer' /\ SidApart'
    BY <1>0, <2>3, <2>4, SMT DEF TypeOK, Counted, OneServer, SidApart
  <2>8. HonestJar' /\ HonestLink' /\ Stages'
    <3>1. HonestJar' /\ Stages'
      BY <1>0, <2>1, <2>2, <2>3, <2>4, <2>5, SMT DEF HonestJar, Stages, Honest
    <3>2. HonestLink'
      BY <1>0, <2>2, <2>3, <2>4, <2>6, SMT DEF HonestLink, Honest
    <3> QED
      BY <3>1, <3>2
  <2>9. OwnSession'
    <3>1. owner[k.sid] = b \/ (k.cookie = k.sid /\ k.from < run)
      BY <1>f, <2>2, <2>6, SMT
    <3> QED
      BY <1>0, <2>2, <2>3, <2>4, <3>1, SMT DEF OwnSession
  <2>10. SessionKept' /\ ConfirmedOnce'
    BY <1>0, <2>2, <2>3, <2>4, SMTT(20) DEF SessionKept, Known, ConfirmedOnce
  <2> QED
    BY <2>7, <2>8, <2>9, <2>10 DEF SInv
<1>5. ASSUME NEW b \in Browser, NEW l \in Lane, CreateSid(b, l)
      PROVE  SInv'
  <2> DEFINE v == link[b][l].server
             i == newId + 1
             k == Answered(link[b][l], i, "id")
  <2>1. /\ v \in Server /\ i \in Id /\ i # 0 /\ link[b][l] \in Link
        /\ newId \in Nat /\ i = newId + 1
    BY <1>0, <1>5, SMT DEF CreateSid, Manage, Stages, TypeOK, Link, Id
  <2>2. /\ k \in Link /\ k.stage = "answered" /\ k.server = v
        /\ k.cookie = link[b][l].cookie /\ k.from = link[b][l].from
        /\ k.sets = "id" /\ k.sid = i
    BY <2>1, AnsweredFacts
  <2>3. /\ link' \in [Browser -> [Lane -> Link]]
        /\ \A c \in Browser, m \in Lane :
              link'[c][m] = IF c = b /\ m = l THEN k ELSE link[c][m]
    BY <1>5, <2>2, LinkStep DEF CreateSid, Managed
  <2>4. /\ newId' = i /\ UNCHANGED <<run, jar>>
        /\ sidMap' \in [Server -> [Id -> {"none", "new", "old"}]]
        /\ owner' \in [Id -> Browser \cup {NoOne}]
        /\ \A w \in Server, j \in Id :
              sidMap'[w][j] = IF w = v /\ j = i THEN "new" ELSE sidMap[w][j]
        /\ \A j \in Id : owner'[j] = IF j = i THEN b ELSE owner[j]
    BY <1>0, <1>5, <2>1, SMT DEF CreateSid, TypeOK
  <2>5. owner[i] = NoOne /\ \A w \in Server : sidMap[w][i] = "none"
    BY <1>0, <2>1, SMT DEF Counted
  <2>6. k.cookie = 0 \/ sidMap[v][k.cookie] = "none"
    BY <1>5, <2>2 DEF CreateSid, Known
  <2>7. /\ k.from <= run /\ k.from \in Nat /\ k.cookie \in {0} \cup Id
        /\ k.from = run /\ k.cookie # 0 => owner[k.cookie] = b
    BY <1>0, <1>f, <2>2, SMT DEF HonestLink, Honest
  <2> HIDE DEF k, v, i
  \* No id that has an owner is the one made now.
  <2>8. \A j \in Id, c \in Browser : owner[j] = c => j # i /\ owner'[j] = c
    BY <2>4, <2>5, SMT
  <2>9. TypeOK' /\ SidApart'
    BY <1>0, <2>1, <2>3, <2>4, SMT DEF TypeOK, SidApart
  <2>10. Counted'
    BY <1>0, <2>1, <2>4, <2>5, SMTT(20) DEF Counted, Id
  <2>11. OneServer'
    BY <1>0, <2>4, <2>5, SMT DEF OneServer
  <2>12. HonestJar' /\ HonestLink' /\ Stages'
    <3>1. HonestJar'
      BY <1>0, <1>f, <2>4, <2>8, SMT DEF HonestJar, Honest
    <3>2. HonestLink'
      <4>1. \A c \in Browser, m \in Lane :
                /\ link[c][m].from <= run /\ link[c][m].cookie \in {0} \cup Id
                /\ link[c][m].from = run /\ link[c][m].cookie # 0
                       => owner'[link[c][m].cookie] = c
        <5> TAKE c \in Browser, m \in Lane
        <5>1. /\ link[c][m].from <= run /\ link[c][m].cookie \in {0} \cup Id
              /\ link[c][m].from = run /\ link[c][m].cookie # 0
                     => owner[link[c][m].cookie] = c
          BY <1>0, <1>f, SMT DEF HonestLink, Honest
        <5> QED
          BY <2>8, <5>1
      <4>2. k.from = run /\ k.cookie # 0 => owner'[k.cookie] = b
        BY <2>7, <2>8
      <4> QED
        BY <2>2, <2>3, <2>4, <2>7, <4>1, <4>2, SMT DEF HonestLink, Honest
    <3>3. Stages'
      <4>1. \A c \in Browser, m \in Lane :
                link[c][m].stage = "answered" /\ link[c][m].sets = "id"
                    => owner'[link[c][m].sid] = c
        BY <1>0, <1>f, <2>8 DEF Stages
      <4> QED
        BY <1>0, <2>1, <2>2, <2>3, <2>4, <4>1, SMT DEF Stages
    <3> QED
      BY <3>1, <3>2, <3>3
  <2>13. OwnSession'
    <3>1. \A c \in Browser, m \in Lane : link[c][m].stage = "answered" =>
              \/ owner'[link[c][m].sid] = c
              \/ link[c][m].cookie = link[c][m].sid /\ link[c][m].from < run
      BY <1>0, <1>f, <2>8 DEF OwnSession
    <3> QED
      BY <2>1, <2>2, <2>3, <2>4, <3>1, SMT DEF OwnSession
  <2>14. SessionKept'
    <3> SUFFICES ASSUME NEW c \in Browser, NEW m \in Lane,
                        link'[c][m].stage = "answered", link'[c][m].sets = "id",
                        link'[c][m].cookie # 0, link'[c][m].from = run
                 PROVE  sidMap'[link'[c][m].server][link'[c][m].cookie] = "none"
      BY <2>4, SMT DEF SessionKept, Known
    <3>1. link'[c][m].server \in Server /\ link'[c][m].cookie \in Id
      BY <1>f, <2>1, <2>2, <2>3, <2>7, SMT
    <3>2. link'[c][m].cookie # i
      BY <1>0, <2>2, <2>3, <2>7, <2>8, <3>1, SMT DEF HonestLink, Honest
    <3>3. sidMap[link'[c][m].server][link'[c][m].cookie] = "none"
      BY <1>0, <2>2, <2>3, <2>6, SMT DEF SessionKept, Known
    <3> QED
      BY <2>4, <3>1, <3>2, <3>3, SMT
  <2>15. ConfirmedOnce'
    <3>1. \A c \in Browser, m \in Lane : link[c][m].sets = "status" =>
              /\ link[c][m].server \in Server /\ link[c][m].sid \in Id
              /\ sidMap'[link[c][m].server][link[c][m].sid] = "old"
      BY <1>0, <1>f, <2>4, <2>5, SMT DEF ConfirmedOnce
    <3> QED
      BY <1>0, <2>2, <2>3, <3>1, SMT DEF ConfirmedOnce
  <2> QED
    BY <2>9, <2>10, <2>11, <2>12, <2>13, <2>14, <2>15 DEF SInv
<1>6. ASSUME NEW b \in Browser, NEW l \in Lane, Deliver(b, l)
      PROVE  SInv'
  <2> DEFINE j == Kept(jar[b], link[b][l])
  <2>1. link[b][l] \in Link /\ link[b][l].stage = "answered"
        /\ UNCHANGED <<newId, sidMap, owner, run>>
    BY <1>0, <1>6, SMT DEF Deliver, TypeOK
  <2>2. /\ link' \in [Browser -> [Lane -> Link]]
        /\ \A c \in Browser, m \in Lane :
              link'[c][m] = IF c = b /\ m = l THEN Idle ELSE link[c][m]
    BY <1>6, IdleFacts, LinkStep DEF Deliver
  <2>3. /\ jar' \in [Browser -> Jar]
        /\ \A c \in Browser : jar'[c] = IF c = b THEN j ELSE jar[c]
    BY <1>0, <1>6, <2>1, KeptFacts, SMT DEF Deliver, TypeOK
  \* The jar names the id it had, or one made in this run for this browser.
  <2>4. \/ j.sid = jar[b].sid /\ j.from = jar[b].from
        \/ j.sid \in Id /\ j.from = run /\ owner[j.sid] = b
    <3>1. jar[b] \in Jar /\ run \in 1..MaxRun
      BY <1>0, SMT DEF TypeOK
    <3>2. \/ j.sid = jar[b].sid /\ j.from = jar[b].from
          \/ /\ link[b][l].sets = "id"
             /\ j.sid = link[b][l].sid /\ j.from = run
      BY <2>1, <3>1, KeptFacts
    <3>3. link[b][l].sets = "id" =>
              link[b][l].sid \in Id /\ owner[link[b][l].sid] = b
      BY <1>0, <1>f, <2>1, SMT DEF Stages
    <3> QED
      BY <3>2, <3>3
  <2> HIDE DEF j
  <2>5. TypeOK' /\ Counted' /\ OneServer'
    BY <1>0, <2>1, <2>2, <2>3, SMT DEF TypeOK, Counted, OneServer
  <2>6. HonestJar' /\ HonestLink' /\ Stages'
    <3>1. HonestJar'
      BY <1>0, <1>f, <2>1, <2>3, <2>4, SMT DEF HonestJar, Honest
    <3>2. HonestLink'
      BY <1>0, <1>f, <2>1, <2>2, IdleFacts, SMT DEF HonestLink, Honest
    <3>3. Stages'
      BY <1>0, <2>1, <2>2, IdleFacts, SMT DEF Stages
    <3> QED
      BY <3>1, <3>2, <3>3
  <2>7. OwnSession' /\ SessionKept' /\ ConfirmedOnce'
    <3>1. OwnSession'
      BY <1>0, <2>1, <2>2, IdleFacts, SMT DEF OwnSession
    <3>2. SessionKept'
      BY <1>0, <2>1, <2>2, IdleFacts, SMT DEF SessionKept, Known
    <3>3. ConfirmedOnce'
      BY <1>0, <2>1, <2>2, IdleFacts, SMT DEF ConfirmedOnce
    <3> QED
      BY <3>1, <3>2, <3>3
  <2>8. SidApart'
    <3>1. \A c \in Browser : jar[c].sid # 0 /\ jar[c].from = run
                                => owner[jar[c].sid] = c
      BY <1>0, <1>f, SMT DEF HonestJar, Honest
    <3> QED
      BY <1>0, <1>f, <2>3, <2>4, <3>1, SMT DEF SidApart
  <2> QED
    BY <2>5, <2>6, <2>7, <2>8 DEF SInv
<1>7. ASSUME NEW b \in Browser, Forget(b)
      PROVE  SInv'
  <2>1. UNCHANGED <<newId, sidMap, owner, run, link>>
    BY <1>7 DEF Forget
  <2>2. \A c \in Browser : jar'[c] = IF c = b THEN NoJar ELSE jar[c]
    BY <1>0, <1>7, SMT DEF Forget, TypeOK
  <2>3. TypeOK'
    BY <1>0, <1>7, <2>1, NoJarFacts, SMT DEF Forget, TypeOK
  <2>4. HonestJar' /\ HonestLink' /\ Stages' /\ SidApart'
    <3>1. SidApart'
      BY <1>0, <2>2, NoJarFacts, SMT DEF SidApart
    <3>2. HonestJar' /\ HonestLink' /\ Stages'
      BY <1>0, <2>1, <2>2, NoJarFacts, SMT DEF HonestJar, HonestLink, Stages, Honest, TypeOK
    <3> QED
      BY <3>1, <3>2
  <2>5. Counted' /\ OneServer' /\ OwnSession' /\ SessionKept' /\ ConfirmedOnce'
    BY <1>0, <2>1, SMT DEF Counted, OneServer, OwnSession, SessionKept, Known, ConfirmedOnce
  <2> QED
    BY <2>3, <2>4, <2>5 DEF SInv
<1>8. CASE Restart
  <2>1. /\ run' = run + 1 /\ run' \in 1..MaxRun /\ jar' = jar
        /\ newId' = 0 /\ sidMap' = NoSids /\ owner' = [i \in Id |-> NoOne]
        /\ link' = [b \in Browser |-> [l \in Lane |-> Idle]]
    BY <1>0, <1>8, SMT DEF Restart, TypeOK
  <2>2. TypeOK'
    BY <1>0, <2>1, IdleFacts, SMT DEF TypeOK, NoSids
  <2>3. Counted' /\ OneServer'
    BY <2>1, SMT DEF Counted, OneServer, NoSids, Id
  <2>4. HonestJar' /\ HonestLink' /\ Stages'
    <3>1. HonestJar'
      BY <1>0, <1>f, <2>1, SMT DEF HonestJar, Honest
    <3>2. \A c \in Browser, m \in Lane : link'[c][m] = Idle
      BY <2>1, SMT
    <3>3. HonestLink' /\ Stages'
      BY <1>f, <2>1, <3>2, IdleFacts, SMT DEF HonestLink, Stages, Honest
    <3> QED
      BY <3>1, <3>3
  <2>5. OwnSession' /\ SidApart' /\ SessionKept' /\ ConfirmedOnce'
    BY <1>0, <2>1, IdleFacts, SMT
    DEF OwnSession, SidApart, SessionKept, ConfirmedOnce
  <2> QED
    BY <2>2, <2>3, <2>4, <2>5 DEF SInv
<1>9. CASE UNCHANGED vars
  <2>1. TypeOK' /\ Counted' /\ OneServer' /\ HonestJar' /\ HonestLink' /\ Stages'
    BY <1>0, <1>9, SMT
    DEF vars, TypeOK, Counted, OneServer, HonestJar, HonestLink, Honest, Stages
  <2>2. OwnSession' /\ SidApart' /\ SessionKept' /\ ConfirmedOnce'
    BY <1>0, <1>9, SMT
    DEF vars, OwnSession, SidApart, SessionKept, Known, ConfirmedOnce
  <2> QED
    BY <2>1, <2>2 DEF SInv
<1> QED
  BY <1>1, <1>2, <1>3, <1>4, <1>5, <1>6, <1>7, <1>8, <1>9, Zenon DEF Next, Step

LEMMA Invariant == Spec => []SInv
<1>1. Init => SInv
  BY InitSInv
<1>2. SInv /\ [Next]_vars => SInv'
  BY NextSInv
<1> QED
  BY <1>1, <1>2, PTL DEF Spec

\* Every variable has its type.
THEOREM TypeOKHolds == Spec => []TypeOK
BY Invariant, PTL DEF SInv

\* No server takes a request for one of another browser's session, unless the
\* id outlived the process that made it.
THEOREM OwnSessionHolds == Spec => []OwnSession
BY Invariant, PTL DEF SInv

\* Two browsers never hold one id made in one run of the process.
THEOREM SidApartHolds == Spec => []SidApart
BY Invariant, PTL DEF SInv

\* A request that names a session its server knows is never given a new one.
THEOREM SessionKeptHolds == Spec => []SessionKept
BY Invariant, PTL DEF SInv

\* At most one answer on its way tells a browser that its session is old.
THEOREM ConfirmedOnceHolds == Spec => []ConfirmedOnce
BY Invariant, PTL DEF SInv
=============================================================================
