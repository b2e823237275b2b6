---------------------------- MODULE ResponseProofs ----------------------------
(***************************************************************************)
(* RInv is an invariant of the loop: in each phase of a connection its     *)
(* socket, its file, its cursor and its program fit together.              *)
(***************************************************************************)
EXTENDS ExchangeProofs

\* What the next kevent() will have registered.
Reg == Applied(kq, cmds, open)

\* The other fields of a Client that the handlers set one of.
LEMMA RespondFields ==
    ASSUME NEW c \in Client, NEW n \in 1..MaxOut
    PROVE  /\ Respond(c, n) \in Client
           /\ Respond(c, n).writeSize = c.writeSize /\ Respond(c, n).out = n
           /\ Respond(c, n).mode = c.mode /\ Respond(c, n).fileFd = c.fileFd
BY SizeAssumption, SMT DEF Client, Respond

LEMMA RewoundFields ==
    ASSUME NEW c \in Client
    PROVE  /\ Rewound(c) \in Client
           /\ Rewound(c).writeSize = 0 /\ Rewound(c).mode = c.mode
           /\ Rewound(c).fileFd = c.fileFd
BY SMT DEF Client, Rewound

LEMMA FileFdFields ==
    ASSUME NEW c \in Client, NEW f \in Fd \cup {NoFd}
    PROVE  LET d == [c EXCEPT !.fileFd = f] IN
           /\ d \in Client /\ d.fileFd = f
           /\ d.writeSize = c.writeSize /\ d.out = c.out /\ d.mode = c.mode
BY SMT DEF Client

LEMMA BodyFields ==
    ASSUME NEW c \in Client, NEW n \in 0..MaxBody
    PROVE  /\ [c EXCEPT !.body = n] \in Client
           /\ [c EXCEPT !.body = n].writeSize = c.writeSize
BY SMT DEF Client

LEMMA ModeFields ==
    ASSUME NEW c \in Client
    PROVE  LET d == [c EXCEPT !.mode = "cgi"] IN
           /\ d \in Client /\ d.writeSize = c.writeSize /\ d.fileFd = c.fileFd
BY SMT DEF Client

LEMMA FreshFields ==
    FreshClient.fileFd = NoFd /\ FreshClient.writeSize = 0 /\ FreshClient.out = 0
BY SMT DEF FreshClient

\* A connection that a step leaves as it is, as far as RInv looks: its program
\* may end, its file may be lost.
Same(t) ==
    /\ client'[t] = client[t] /\ got'[t] = got[t]
    /\ peer[t] = "none" => peer'[t] = "none"
    /\ child[t] = "none" => child'[t] = "none"

SameFile(t) ==
    LET f == client[t].fileFd IN
    IF fileMap[f] = t
    THEN \/ /\ fileMap'[f] = t
            /\ \A k \in Knote : k[1] = f => (k \in Reg' <=> k \in Reg)
         \/ fileMap'[f] # t /\ "gone" \in Faults
    ELSE fileMap'[f] # t

LEMMA RegFacts == \A k \in Reg \cup Reg' : k \in Knote
BY SMT DEF Reg, Applied

LEMMA InPhaseKept ==
    ASSUME TypeOK, NEW t \in Fd, InPhase(t), t \in clients' <=> t \in clients, Same(t),
           t \in clients /\ ~Busy(t) =>
               \A k \in Knote : k[1] = t => (k \in Reg' <=> k \in Reg),
           t \in clients /\ Busy(t) => SameFile(t)
    PROVE  InPhase(t)'
<1>1. CASE t \notin clients
  BY <1>1 DEF InPhase, Unused, Same
<1>2. CASE t \in clients /\ Busy(t)
  <2> DEFINE f == client[t].fileFd
  <2>1. Waiting(t) /\ SameFile(t) /\ Busy(t)'
    BY <1>2 DEF InPhase, Busy, Same
  <2>2. f \in Fd
    BY <1>2 DEF TypeOK, Client, Busy
  <2>3. ReadOf(f) \in Knote /\ ReadOf(f)[1] = f /\ WriteOf(f) \in Knote
        /\ WriteOf(f)[1] = f
    BY <2>2, PairFacts
  <2>4. client'[t] = client[t] /\ got'[t] = got[t]
        /\ (child[t] = "none" => child'[t] = "none")
    BY DEF Same
  <2>5. Waiting(t)'
    <3>1. CASE fileMap[f] = t /\ fileMap'[f] = t
      <4>1. /\ ReadOf(f) \in Reg' <=> ReadOf(f) \in Reg
            /\ WriteOf(f) \in Reg' <=> WriteOf(f) \in Reg
        BY <2>1, <2>3, <3>1 DEF SameFile
      <4> QED
        BY <2>1, <2>4, <3>1, <4>1 DEF Waiting, Reg
    <3>2. CASE fileMap'[f] # t
      <4>1. "gone" \in Faults
        BY <2>1, <3>2 DEF Waiting, SameFile
      <4> QED
        BY <2>1, <2>4, <3>2, <4>1 DEF Waiting
    <3> QED
      BY <2>1, <3>1, <3>2 DEF SameFile
  <2> QED
    BY <1>2, <2>1, <2>5 DEF InPhase
<1>3. CASE t \in clients /\ ~Busy(t)
  <2>1. Attended(t) /\ ~Busy(t)' /\ t \in clients'
    BY <1>3 DEF InPhase, Busy, Same
  <2>2. \A k \in Knote : k[1] = t => (k \in Reg' <=> k \in Reg)
    BY <1>3
  <2>3. WriteOf(t) \in Knote /\ WriteOf(t)[1] = t
    BY PairFacts
  <2>4. PICK k \in Reg : k[1] = t
    BY <2>1 DEF Attended, Reg
  <2>5. k \in Reg'
    BY <2>2, <2>4, RegFacts
  <2>6. WriteOf(t) \in Reg' <=> WriteOf(t) \in Reg
    BY <2>2, <2>3
  <2>7. Attended(t)'
    BY <2>1, <2>4, <2>5, <2>6 DEF Attended, Same, Reg
  <2> QED
    BY <2>1, <2>7 DEF InPhase
<1> QED
  BY <1>1, <1>2, <1>3

\* A step that concerns connection s and the descriptors D, which are no other
\* client's and files of no other client.
LEMMA OthersKept ==
    ASSUME IInv, RInv, NEW s \in Fd, NEW D,
           clients' \ {s} = clients \ {s},
           \A t \in Fd \ {s} : Same(t),
           \A k \in Knote : k[1] \notin D => (k \in Reg' <=> k \in Reg),
           \A d \in D : d \notin clients \ {s},
           \A f \in Fd \ D : fileMap'[f] = fileMap[f],
           \A f \in Fd \cap D : /\ fileMap[f] \in {s, NoFd}
                               /\ fileMap'[f] \in {s, NoFd}
    PROVE  \A t \in Fd \ {s} : InPhase(t)'
<1> SUFFICES ASSUME NEW t \in Fd, t # s PROVE InPhase(t)'
  OBVIOUS
<1>1. TypeOK /\ InPhase(t) /\ (t \in clients' <=> t \in clients) /\ Same(t)
  BY DEF IInv, RInv
<1>2. t # NoFd
  BY FdAssumption
<1>3. ASSUME t \in clients
      PROVE  \A k \in Knote : k[1] = t => (k \in Reg' <=> k \in Reg)
  BY <1>3
<1>4. ASSUME t \in clients, Busy(t) PROVE SameFile(t)
  <2> DEFINE f == client[t].fileFd
  <2>1. f \in Fd
    BY <1>1, <1>4 DEF TypeOK, Client, Busy
  <2>2. CASE fileMap[f] = t
    <3>1. f \notin D
      BY <1>2, <2>1, <2>2
    <3>2. \A k \in Knote : k[1] = f => (k \in Reg' <=> k \in Reg)
      BY <3>1
    <3>3. fileMap'[f] = t
      BY <2>1, <2>2, <3>1
    <3> QED
      BY <2>2, <3>2, <3>3 DEF SameFile
  <2>3. CASE fileMap[f] # t
    BY <1>2, <2>1, <2>3 DEF SameFile
  <2> QED
    BY <2>2, <2>3
<1> QED
  BY <1>1, <1>3, <1>4, InPhaseKept

\* The same when nothing is opened, closed or registered.
LEMMA OthersKeptAlone ==
    ASSUME IInv, RInv, NEW s \in Fd, clients' = clients, Reg' = Reg,
           fileMap' = fileMap, \A t \in Fd \ {s} : Same(t)
    PROVE  \A t \in Fd \ {s} : InPhase(t)'
<1> DEFINE D == {}
<1>1. /\ \A k \in Knote : k[1] \notin D => (k \in Reg' <=> k \in Reg)
      /\ \A d \in D : d \notin clients \ {s}
      /\ \A f \in Fd \ D : fileMap'[f] = fileMap[f]
      /\ \A f \in Fd \cap D : fileMap[f] \in {s, NoFd} /\ fileMap'[f] \in {s, NoFd}
  OBVIOUS
<1> HIDE DEF D
<1> QED
  BY <1>1, OthersKept

\* No client is named twice: a file's descriptor leads nowhere else.
LEMMA NoEntry ==
    ASSUME IInv, NEW d \in Fd, d \in clients \/ d \notin open
    PROVE  fileMap[d] = NoFd
BY StateFacts DEF Files

LEMMA LossesKept ==
    ASSUME IInv, LossesReal, batch' \subseteq batch,
           broken' \subseteq broken \/ "gone" \in Faults,
           \A d \in batch' : d.fd \in clients => d.fd \in clients'
    PROVE  LossesReal'
BY DEF LossesReal

\* A step in which every connection stays as it is.
LEMMA AllKept ==
    ASSUME IInv, RInv, LossesReal', UNCHANGED <<clients, fileMap>>,
           \A k \in Knote : k \in Reg' <=> k \in Reg,
           \A t \in Fd : Same(t)
    PROVE  RInv'
<1> SUFFICES ASSUME NEW t \in Fd PROVE InPhase(t)'
  BY DEF RInv
<1>1. TypeOK /\ InPhase(t) /\ Same(t)
  BY DEF IInv, RInv
<1>2. t \in clients /\ Busy(t) => SameFile(t)
  BY DEF SameFile
<1> QED
  BY <1>1, <1>2, InPhaseKept

\* One connection moves on, the others stay as they are.
LEMMA OneMovesOn ==
    ASSUME LossesReal', NEW s \in Fd, InPhase(s)', \A t \in Fd \ {s} : InPhase(t)'
    PROVE  RInv'
BY DEF RInv

LEMMA DropRInv ==
    ASSUME IInv, RInv, NEW e \in batch, e.fd \in clients, Handled(e), Drop(e.fd)
    PROVE  RInv'
<1> DEFINE s == e.fd
<1>1. s \in Fd /\ s # Listen /\ ~Busy(s)
  BY ClientEvent, FdAssumption
<1>2. fileMap[s] = NoFd /\ fileMap' = fileMap /\ clients' = clients \ {s}
  BY <1>1, NoEntry DEF Drop
<1>3. \A k \in Knote : k[1] \notin {s} => (k \in Reg' <=> k \in Reg)
  BY DropRegisters DEF Reg
<1>4. \A t \in Fd \ {s} : Same(t)
  BY DEF Drop, Same, IInv, TypeOK, children
<1>5. \A t \in Fd \ {s} : InPhase(t)'
  BY <1>1, <1>2, <1>3, <1>4, OthersKept
<1>6. InPhase(s)'
  <2>1. child[s] = "none"
    BY <1>1 DEF RInv, InPhase, Attended
  <2>2. peer'[s] = "none" /\ got'[s] = 0 /\ child' = child
    BY <1>1 DEF Drop, IInv, TypeOK, children
  <2> QED
    BY <1>2, <2>1, <2>2 DEF InPhase, Unused
<1>7. LossesReal'
  <2>1. \A d \in batch' : d \in batch /\ d.fd # s
    BY <1>1, EventFacts DEF Handled
  <2> QED
    BY <1>2, <2>1, LossesKept DEF Drop, RInv, files
<1> QED
  BY <1>1, <1>5, <1>6, <1>7, OneMovesOn

LEMMA AcceptRInv ==
    ASSUME IInv, RInv, NEW e \in batch, Accept(e)
    PROVE  RInv'
<1>1. PICK s \in Fd \ open :
          /\ open' = open \cup {s}
          /\ clients' = clients \cup {s}
          /\ client' = [client EXCEPT ![s] = FreshClient]
          /\ peer' = [peer EXCEPT ![s] = "up"]
          /\ cmds' = Add(cmds, ReadOf(s))
  BY DEF Accept
<1>2. UNCHANGED <<kq, files, got, children, fileMap>> /\ Handled(e)
  BY DEF Accept
<1>3. s \in Fd /\ s \notin clients /\ fileMap[s] = NoFd
  BY StateFacts, NoEntry
<1>4. Reg' = Reg \cup {ReadOf(s)}
  BY <1>1, <1>2, AcceptRegisters DEF Reg
<1>5. ReadOf(s)[1] = s /\ WriteOf(s)[1] = s /\ ReadOf(s) # WriteOf(s)
  BY <1>3, PairFacts
<1>6. \A t \in Fd \ {s} : Same(t)
  BY <1>1, <1>2 DEF Same, IInv, TypeOK, children
<1>7. \A t \in Fd \ {s} : InPhase(t)'
  BY <1>1, <1>2, <1>3, <1>4, <1>5, <1>6, OthersKept
<1>8. InPhase(s)'
  <2>1. client'[s] = FreshClient /\ got'[s] = 0 /\ child'[s] = "none"
    BY <1>1, <1>2, <1>3 DEF IInv, TypeOK, RInv, InPhase, Unused, children
  <2>2. WriteOf(s) \notin Reg
    BY <1>3, <1>5, StateFacts DEF Reg
  <2>3. WriteOf(s) \notin Reg' /\ ReadOf(s) \in Reg'
    BY <1>4, <1>5, <2>2
  <2>4. Attended(s)' /\ ~Busy(s)'
    BY <1>5, <2>1, <2>3, FreshFields DEF Attended, Busy, Reg
  <2> QED
    BY <1>1, <2>4 DEF InPhase
<1>9. LossesReal'
  BY <1>1, <1>2, LossesKept DEF RInv, files, Handled
<1> QED
  BY <1>3, <1>7, <1>8, <1>9, OneMovesOn

\* A client whose request has been received: its cursor is at 0 and no program
\* runs for it.
LEMMA RequestFacts ==
    ASSUME IInv, RInv, NEW e \in batch, e.fd \in clients, e.filter = "READ"
    PROVE  /\ e.fd \in Fd /\ e.fd # Listen /\ ~Busy(e.fd)
           /\ got[e.fd] = 0 /\ client[e.fd].writeSize = 0 /\ child[e.fd] = "none"
           /\ fileMap[e.fd] = NoFd /\ client[e.fd] \in Client
           /\ ReadOf(e.fd) \in Reg /\ WriteOf(e.fd) \notin Reg
<1>1. e.fd \in Fd /\ e.fd # Listen /\ ~Busy(e.fd)
  BY ClientEvent, FdAssumption
<1>2. Phase(e.fd) = "reading"
  BY ClientEvent
<1>3. WriteOf(e.fd) \notin Reg
  BY <1>1, <1>2 DEF Phase, Reg
<1>4. Attended(e.fd)
  BY <1>1 DEF RInv, InPhase
<1>5. ReadOf(e.fd) \in Reg
  BY <1>1, EventFacts DEF Reg, ReadOf
<1> QED
  BY <1>1, <1>3, <1>4, <1>5, NoEntry DEF Attended, Reg, IInv, TypeOK

LEMMA AnswerRInv ==
    ASSUME IInv, RInv, NEW e \in batch, Received(e),
           NEW c \in Client, c.fileFd = NoFd, c.writeSize = 0, NEW n \in 1..MaxOut,
           client' = [client EXCEPT ![e.fd] = Respond(c, n)],
           cmds' = Add(Delete(cmds, ReadOf(e.fd)), WriteOf(e.fd)),
           NEW lost \in SUBSET (Fd \ open), open' = open \cup lost,
           UNCHANGED <<kq, files, peer, got, children, clients, fileMap>>
    PROVE  RInv'
<1> DEFINE s == e.fd
<1>1. s \in clients /\ e.filter = "READ" /\ Handled(e)
  BY DEF Received, ClientReadable
<1>2. /\ s \in Fd /\ got[s] = 0 /\ child[s] = "none" /\ fileMap[s] = NoFd
      /\ ReadOf(s)[1] = s /\ WriteOf(s)[1] = s
  BY <1>1, RequestFacts, PairFacts
<1>3. Reg' = (Reg \ {ReadOf(s)}) \cup {WriteOf(s)}
  BY AnswerRegisters DEF Reg
<1>4. \A t \in Fd \ {s} : Same(t)
  BY DEF Same, IInv, TypeOK, children
<1>5. \A t \in Fd \ {s} : InPhase(t)'
  BY <1>2, <1>3, <1>4, OthersKept
<1>6. InPhase(s)'
  <2>1. client'[s] = Respond(c, n)
    BY <1>2 DEF IInv, TypeOK
  <2>2. /\ client'[s].fileFd = NoFd /\ client'[s].writeSize = 0
        /\ client'[s].out = n /\ n > 0
    BY <2>1, RespondFields, SizeAssumption
  <2>3. WriteOf(s) \in Reg' /\ got'[s] = 0 /\ child'[s] = "none"
    BY <1>2, <1>3 DEF children
  <2>4. Attended(s)' /\ ~Busy(s)'
    BY <1>2, <2>2, <2>3 DEF Attended, Busy, Reg
  <2> QED
    BY <1>1, <2>4 DEF InPhase
<1>7. LossesReal'
  BY <1>1, LossesKept DEF RInv, files, Handled
<1> QED
  BY <1>2, <1>5, <1>6, <1>7, OneMovesOn

LEMMA SendAllRInv ==
    ASSUME IInv, RInv, NEW e \in batch, SendAll(e)
    PROVE  RInv'
<1> DEFINE s == e.fd
<1>1. s \in clients /\ Handled(e) /\ ~Busy(s)
  BY DEF SendAll, ClientWritable
<1>2. s \in Fd /\ fileMap[s] = NoFd /\ child[s] = "none"
  BY <1>1, ClientEvent, NoEntry DEF RInv, InPhase, Attended
<1>3. /\ client' = [client EXCEPT ![s] = FreshClient]
      /\ got' = [got EXCEPT ![s] = 0]
      /\ UNCHANGED <<open, kq, files, peer, children, clients, fileMap>>
  BY DEF SendAll
<1>4. Reg' = (Reg \ {WriteOf(s)}) \cup {ReadOf(s)}
  BY <1>3, SendAllRegisters DEF Reg
<1>5. ReadOf(s)[1] = s /\ WriteOf(s)[1] = s /\ ReadOf(s) # WriteOf(s)
  BY <1>2, PairFacts
<1>6. \A t \in Fd \ {s} : Same(t)
  BY <1>3 DEF Same, IInv, TypeOK, children
<1>7. \A t \in Fd \ {s} : InPhase(t)'
  BY <1>2, <1>3, <1>4, <1>5, <1>6, OthersKept
<1>8. InPhase(s)'
  <2>1. client'[s] = FreshClient /\ got'[s] = 0 /\ child'[s] = "none"
    BY <1>2, <1>3 DEF IInv, TypeOK, children
  <2>2. WriteOf(s) \notin Reg' /\ ReadOf(s) \in Reg'
    BY <1>4, <1>5
  <2>3. Attended(s)' /\ ~Busy(s)'
    BY <1>5, <2>1, <2>2, FreshFields DEF Attended, Busy, Reg
  <2> QED
    BY <1>1, <1>3, <2>3 DEF InPhase
<1>9. LossesReal'
  BY <1>1, <1>3, LossesKept DEF RInv, files, Handled
<1> QED
  BY <1>2, <1>7, <1>8, <1>9, OneMovesOn

LEMMA OpenForRInv ==
    ASSUME IInv, RInv, NEW e \in batch, NEW f \in Fd \ open, NEW filter \in Filter,
           NEW c \in Client, c.writeSize = client[e.fd].writeSize,
           OpenFor(e, f, filter, c)
    PROVE  RInv'
<1> DEFINE s == e.fd
           k == <<f, filter>>
<1>1. s \in clients /\ e.filter = "READ" /\ Handled(e)
  BY DEF OpenFor, Received, ClientReadable
<1>2. /\ s \in Fd /\ got[s] = 0 /\ child[s] = "none" /\ fileMap[s] = NoFd
      /\ ReadOf(s)[1] = s /\ c.writeSize = 0
  BY <1>1, RequestFacts, PairFacts
<1>3. f \in Fd /\ f \notin clients /\ f # s /\ fileMap[f] = NoFd /\ f # NoFd
  BY <1>1, StateFacts, NoEntry, FdAssumption
<1>4. /\ client' = [client EXCEPT ![s] = [c EXCEPT !.fileFd = f]]
      /\ fileMap' = [fileMap EXCEPT ![f] = s]
      /\ UNCHANGED <<broken, peer, got, children, clients>>
  BY <1>3 DEF OpenFor, Inserted, IInv, TypeOK
<1>5. Reg' = (Reg \ {ReadOf(s)}) \cup {k}
  BY OpenForRegisters DEF Reg
<1>6. \A t \in Fd \ {s} : Same(t)
  BY <1>4 DEF Same, IInv, TypeOK, children
<1>7. \A t \in Fd \ {s} : InPhase(t)'
  <2> DEFINE D == {s, f}
  <2>1. \A d \in D : d \notin clients \ {s}
    BY <1>3
  <2>2. /\ \A g \in Fd \ D : fileMap'[g] = fileMap[g]
        /\ \A g \in Fd \cap D : fileMap[g] \in {s, NoFd} /\ fileMap'[g] \in {s, NoFd}
    BY <1>2, <1>3, <1>4 DEF IInv, TypeOK
  <2>3. \A i \in Knote : i[1] \notin D => (i \in Reg' <=> i \in Reg)
    BY <1>2, <1>5
  <2> HIDE DEF D, s
  <2> QED
    BY <1>2, <1>4, <1>6, <2>1, <2>2, <2>3, OthersKept
<1>8. InPhase(s)'
  <2>1. client'[s].fileFd = f /\ client'[s].writeSize = 0
    BY <1>2, <1>3, <1>4, FileFdFields DEF IInv, TypeOK
  <2>2. fileMap'[f] = s /\ got'[s] = 0 /\ child'[s] = "none"
    BY <1>2, <1>3, <1>4 DEF IInv, TypeOK, children
  <2>3. ReadOf(f) \in Reg' \/ WriteOf(f) \in Reg'
    BY <1>5 DEF Filter, ReadOf, WriteOf
  <2>4. Waiting(s)' /\ Busy(s)'
    BY <1>3, <2>1, <2>2, <2>3 DEF Waiting, Busy, Reg
  <2> QED
    BY <1>1, <1>4, <2>4 DEF InPhase
<1>9. LossesReal'
  BY <1>1, <1>4, LossesKept DEF RInv, Handled
<1> QED
  BY <1>2, <1>7, <1>8, <1>9, OneMovesOn

\* A client whose file has an event: the file leads back to it, and the filter
\* tells whether it is read or written.
LEMMA OwnerFacts ==
    ASSUME IInv, RInv, NEW e \in batch, e.fd \in Files
    PROVE  LET s == OwnerOf(e) IN
           /\ s \in Fd /\ s \in clients /\ e.fd \in Fd /\ e.fd \notin clients
           /\ e.fd # s /\ FileOf(e) = e.fd /\ client[s].fileFd = e.fd
           /\ Busy(s) /\ fileMap[e.fd] = s /\ fileMap[s] = NoFd
           /\ client[s] \in Client /\ got[s] = 0
           /\ child[s] # "none" => client[s].mode = "cgi"
           /\ e.filter = "READ" => ReadOf(e.fd) \in Reg /\ client[s].writeSize = 0
           /\ e.filter = "WRITE" => /\ ReadOf(e.fd) \notin Reg
                                   /\ WriteOf(e.fd) \in Reg /\ child[s] = "none"
<1> DEFINE s == OwnerOf(e)
<1>1. /\ s \in Fd /\ s \in clients /\ e.fd \in Fd /\ e.fd \notin clients /\ e.fd # s
      /\ FileOf(e) = e.fd /\ client[s].fileFd = e.fd /\ Busy(s)
      /\ fileMap[e.fd] = s /\ e.fd # Listen
  BY FileFacts DEF OwnerOf, FileOf
<1>2. fileMap[s] = NoFd /\ client[s] \in Client
  BY <1>1, NoEntry DEF IInv, TypeOK
<1>3. Waiting(s)
  BY <1>1 DEF RInv, InPhase
<1>4. <<e.fd, e.filter>> \in Reg
  BY <1>1, EventFacts DEF Reg
<1>5. e.filter = "WRITE" => ReadOf(e.fd) \notin Reg
  <2>1. \A j, k \in Reg : j[1] = k[1] => j = k
    BY DEF IInv, OneFilter, Reg
  <2>2. ReadOf(e.fd)[1] = e.fd /\ WriteOf(e.fd)[1] = e.fd /\ ReadOf(e.fd) # WriteOf(e.fd)
    BY <1>1, PairFacts
  <2>3. e.filter = "WRITE" => WriteOf(e.fd) \in Reg
    BY <1>4 DEF WriteOf
  <2> QED
    BY <2>1, <2>2, <2>3
<1>6. e.filter = "READ" => ReadOf(e.fd) \in Reg /\ client[s].writeSize = 0
  BY <1>1, <1>3, <1>4 DEF Waiting, Reg, ReadOf
<1>7. e.filter = "WRITE" => WriteOf(e.fd) \in Reg /\ child[s] = "none"
  BY <1>1, <1>3, <1>4, <1>5 DEF Waiting, Reg, WriteOf
<1> QED
  BY <1>1, <1>2, <1>3, <1>5, <1>6, <1>7 DEF Waiting

\* A file is finished: its client, with the cursor at 0, is armed.
LEMMA FinishRInv ==
    ASSUME IInv, RInv, NEW e \in batch, e.fd \in Files, Handled(e),
           NEW s, s = OwnerOf(e),
           clients' = clients, fileMap' = [fileMap EXCEPT ![e.fd] = NoFd],
           got' = got, peer' = peer, broken' \subseteq broken,
           \A t \in Fd \ {s} : client'[t] = client[t],
           client'[s].fileFd = NoFd, client'[s].writeSize = 0,
           FilesNeverFail => client'[s].out > 0,
           \A i : i \in Reg' <=> (i \in Reg /\ i[1] # e.fd) \/ i = WriteOf(s),
           \A t \in Fd : child[t] = "none" => child'[t] = "none",
           child'[s] = "none"
    PROVE  RInv'
<1> DEFINE f == e.fd
           D == {s, f}
<1>1. /\ s \in Fd /\ s \in clients /\ f \in Fd /\ f \notin clients /\ f # s
      /\ fileMap[f] = s /\ fileMap[s] = NoFd /\ got[s] = 0
  BY OwnerFacts
<1>2. WriteOf(s) \in Knote /\ WriteOf(s)[1] = s
  BY <1>1, PairFacts
<1>3. \A t \in Fd \ {s} : InPhase(t)'
  <2>1. \A t \in Fd \ {s} : Same(t)
    BY DEF Same
  <2>2. \A k \in Knote : k[1] \notin D => (k \in Reg' <=> k \in Reg)
    BY <1>2
  <2>3. /\ \A g \in Fd \ D : fileMap'[g] = fileMap[g]
        /\ \A g \in Fd \cap D : fileMap[g] \in {s, NoFd} /\ fileMap'[g] \in {s, NoFd}
    BY <1>1 DEF IInv, TypeOK
  <2>4. \A d \in D : d \notin clients \ {s}
    BY <1>1
  <2> HIDE DEF D
  <2> QED
    BY <1>1, <2>1, <2>2, <2>3, <2>4, OthersKept
<1>4. InPhase(s)'
  <2>1. Attended(s)' /\ ~Busy(s)'
    BY <1>1, <1>2 DEF Attended, Busy, Reg
  <2> QED
    BY <1>1, <2>1 DEF InPhase
<1>5. LossesReal'
  BY LossesKept DEF RInv, Handled
<1> QED
  BY <1>1, <1>3, <1>4, <1>5, OneMovesOn

LEMMA CloseFileRInv ==
    ASSUME IInv, RInv, NEW e \in batch, e.fd \in Files, Handled(e), NEW c \in Client,
           c.writeSize = 0, FilesNeverFail => c.out > 0,
           CloseFile(FileOf(e), OwnerOf(e), c),
           \A t \in Fd : child[t] = "none" => child'[t] = "none",
           child'[OwnerOf(e)] = "none"
    PROVE  RInv'
<1>s. PICK s \in Fd : s = OwnerOf(e)
  BY OwnerFacts
<1>1. FileOf(e) = e.fd
  BY OwnerFacts
<1>2. /\ clients' = clients /\ fileMap' = [fileMap EXCEPT ![e.fd] = NoFd]
      /\ got' = got /\ peer' = peer /\ broken' \subseteq broken
      /\ client' = [client EXCEPT ![s] = [c EXCEPT !.fileFd = NoFd]]
  BY <1>s, <1>1 DEF CloseFile, network
<1>3. \A i : i \in Reg' <=> (i \in Reg /\ i[1] # e.fd) \/ i = WriteOf(s)
  BY <1>s, CloseFileRegisters DEF Reg
<1>4. /\ client'[s].fileFd = NoFd /\ client'[s].writeSize = 0
      /\ FilesNeverFail => client'[s].out > 0
  BY <1>2, FileFdFields DEF IInv, TypeOK
<1>5. \A t \in Fd \ {s} : client'[t] = client[t]
  BY <1>2 DEF IInv, TypeOK
<1> QED
  BY <1>s, <1>2, <1>3, <1>4, <1>5, FinishRInv

LEMMA CgiFailedRInv ==
    ASSUME IInv, RInv, NEW e \in batch, CgiFailed(e)
    PROVE  RInv'
<1>1. e.fd \in Files /\ e.filter = "WRITE" /\ Handled(e)
  BY DEF CgiFailed, CgiBodyDone, FileReady
<1>s. PICK s \in Fd : s = OwnerOf(e)
  BY <1>1, OwnerFacts
<1>2. FileOf(e) = e.fd /\ client[s] \in Client /\ child[s] = "none"
  BY <1>s, <1>1, OwnerFacts
<1>3. PICK lost \in SUBSET Slots(e), n \in 1..MaxOut :
          /\ open' = (open \ {e.fd}) \cup lost
          /\ fileMap' = [fileMap EXCEPT ![e.fd] = NoFd]
          /\ client' = [client EXCEPT ![s] =
                           Respond([Rewound(client[s]) EXCEPT !.fileFd = NoFd], n)]
          /\ cmds' = Add(CgiCmds(s), WriteOf(s))
  BY <1>s, <1>2 DEF CgiFailed
<1>4. /\ kq' = WithoutFd(kq, e.fd) /\ broken' \subseteq broken
      /\ UNCHANGED <<network, children, clients>>
  BY <1>2 DEF CgiFailed, CgiBodyDone
<1>5. \A i : i \in Reg' <=> (i \in Reg /\ i[1] # e.fd) \/ i = WriteOf(s)
  BY <1>s, <1>1, <1>3, <1>4, CgiFailedRegisters DEF Reg
<1>6. client'[s].fileFd = NoFd /\ client'[s].writeSize = 0 /\ client'[s].out > 0
  <2> DEFINE b == Rewound(client[s])
             c == [b EXCEPT !.fileFd = NoFd]
  <2>1. b \in Client /\ b.writeSize = 0
    BY <1>2, RewoundFields
  <2>2. c \in Client /\ c.writeSize = 0 /\ c.fileFd = NoFd
    <3> HIDE DEF b
    <3> QED
      BY <2>1, FileFdFields
  <2>3. client'[s] = Respond(c, n)
    BY <1>3 DEF IInv, TypeOK
  <2> HIDE DEF c
  <2>4. n > 0
    BY SizeAssumption
  <2> QED
    BY <2>2, <2>3, <2>4, RespondFields
<1>7. \A t \in Fd \ {s} : client'[t] = client[t]
  BY <1>3 DEF IInv, TypeOK
<1> QED
  BY <1>s, <1>1, <1>2, <1>3, <1>4, <1>5, <1>6, <1>7, FinishRInv DEF network, children

LEMMA CgiStartedRInv ==
    ASSUME IInv, RInv, NEW e \in batch, CgiStarted(e)
    PROVE  RInv'
<1> DEFINE f == e.fd
<1>1. f \in Files /\ e.filter = "WRITE" /\ Handled(e) /\ client[OwnerOf(e)].mode = "cgi"
  BY DEF CgiStarted, CgiBodyDone, FileReady
<1>s. PICK s \in Fd : s = OwnerOf(e)
  BY <1>1, OwnerFacts
<1>2. /\ FileOf(e) = f /\ client[s] \in Client /\ s \in clients /\ got[s] = 0
      /\ f \in Fd /\ f # s /\ f \notin clients /\ fileMap[f] = s /\ fileMap[s] = NoFd
  BY <1>s, <1>1, OwnerFacts
<1>3. PICK g \in Slots(e) :
          /\ Output(e, g)
          /\ open' = (open \ {f}) \cup {g}
          /\ fileMap' = Inserted([fileMap EXCEPT ![f] = NoFd], g, s)
          /\ client' = [client EXCEPT ![s] = [Rewound(client[s]) EXCEPT !.fileFd = g]]
          /\ cmds' = Add(CgiCmds(s), ReadOf(g))
  BY <1>s, <1>2 DEF CgiStarted
<1>4. /\ kq' = WithoutFd(kq, f) /\ broken' \subseteq broken
      /\ UNCHANGED <<network, clients>>
  BY <1>2 DEF CgiStarted, CgiBodyDone
<1>5. /\ g \in Fd /\ g \notin clients /\ g # NoFd /\ g # s
      /\ fileMap[g] = NoFd \/ g = f
  BY <1>2, NoEntry, StateFacts, FdAssumption DEF Slots
<1>6. \A i : i \in Reg' <=> (i \in Reg /\ i[1] # f) \/ i = ReadOf(g)
  BY <1>s, <1>1, <1>3, <1>4, CgiStartedRegisters DEF Reg
<1>7. fileMap'[g] = s /\ \A h \in Fd \ {f, g} : fileMap'[h] = fileMap[h]
      /\ fileMap'[f] \in {s, NoFd}
  <2> DEFINE m == [fileMap EXCEPT ![f] = NoFd]
  <2>1. /\ m \in [Fd -> Fd \cup {NoFd}] /\ m[g] = NoFd /\ m[f] = NoFd
        /\ \A h \in Fd : h # f => m[h] = fileMap[h]
    BY <1>2, <1>5 DEF IInv, TypeOK
  <2> HIDE DEF m
  <2> QED
    BY <1>2, <1>3, <1>5, <2>1 DEF Inserted, m
<1>8. ReadOf(g) \in Knote /\ ReadOf(g)[1] = g
  BY <1>5, PairFacts
<1>9. \A t \in Fd \ {s} : InPhase(t)'
  <2> DEFINE D == {f, g}
  <2>1. \A t \in Fd \ {s} : Same(t)
    BY <1>s, <1>3, <1>4 DEF Output, Same, IInv, TypeOK, network
  <2>2. \A k \in Knote : k[1] \notin D => (k \in Reg' <=> k \in Reg)
    BY <1>6, <1>8
  <2>3. /\ \A h \in Fd \ D : fileMap'[h] = fileMap[h]
        /\ \A h \in Fd \cap D : fileMap[h] \in {s, NoFd} /\ fileMap'[h] \in {s, NoFd}
    BY <1>2, <1>5, <1>7
  <2>4. \A d \in D : d \notin clients \ {s}
    BY <1>2, <1>5
  <2> HIDE DEF D, f
  <2> QED
    BY <1>4, <2>1, <2>2, <2>3, <2>4, OthersKept
<1>10. InPhase(s)'
  <2> DEFINE b == Rewound(client[s])
  <2>1. b \in Client /\ b.writeSize = 0 /\ b.mode = "cgi"
    BY <1>s, <1>1, <1>2, RewoundFields
  <2>2. client'[s].fileFd = g /\ client'[s].writeSize = 0 /\ client'[s].mode = "cgi"
    <3>1. client'[s] = [b EXCEPT !.fileFd = g]
      BY <1>s, <1>3 DEF Output, IInv, TypeOK
    <3> HIDE DEF b
    <3> QED
      BY <1>5, <2>1, <3>1, FileFdFields
  <2>3. got'[s] = 0 /\ ReadOf(g) \in Reg' /\ s \in clients'
    BY <1>2, <1>4, <1>6 DEF network
  <2>4. Waiting(s)' /\ Busy(s)'
    BY <1>5, <1>7, <2>2, <2>3 DEF Waiting, Busy, Reg
  <2> QED
    BY <2>3, <2>4 DEF InPhase
<1>11. LossesReal'
  BY <1>1, <1>4, LossesKept DEF RInv, Handled
<1> QED
  BY <1>9, <1>10, <1>11, OneMovesOn

\* A file is lost: nothing leads to its client any more.
LEMMA FileGoneRInv ==
    ASSUME IInv, RInv, NEW e \in batch, FileGone(e)
    PROVE  RInv'
<1> DEFINE f == e.fd
<1>1. e.flags = "bad" /\ f \notin clients /\ Handled(e)
  BY DEF FileGone
<1>2. f \in Files /\ "gone" \in Faults
  BY <1>1, ListenFacts DEF IInv, FreshEvents, RInv, LossesReal
<1>s. PICK s \in Fd : s = OwnerOf(e)
  BY <1>2, OwnerFacts
<1>3. /\ f \in Fd /\ fileMap[f] = s /\ client[s].fileFd = f /\ Busy(s) /\ s \in clients
      /\ s # NoFd
  BY <1>s, <1>2, OwnerFacts, FdAssumption
<1>4. /\ fileMap' = [fileMap EXCEPT ![f] = NoFd] /\ broken' \subseteq broken
      /\ UNCHANGED <<network, children, clients, client>>
  BY DEF FileGone
<1>5. \A i : i \in Reg' <=> i \in Reg /\ i[1] # f
  BY <1>2, FileGoneRegisters DEF Reg
<1>6. \A t \in Fd : Same(t)
  BY <1>4 DEF Same, network, children
<1>7. fileMap'[f] = NoFd /\ \A g \in Fd \ {f} : fileMap'[g] = fileMap[g]
  BY <1>3, <1>4 DEF IInv, TypeOK
<1>8. \A t \in Fd \ {s} : InPhase(t)'
  <2> DEFINE D == {f}
  <2>1. \A k \in Knote : k[1] \notin D => (k \in Reg' <=> k \in Reg)
    BY <1>5
  <2>2. /\ \A g \in Fd \ D : fileMap'[g] = fileMap[g]
        /\ \A g \in Fd \cap D : fileMap[g] \in {s, NoFd} /\ fileMap'[g] \in {s, NoFd}
    BY <1>3, <1>7
  <2>3. (\A d \in D : d \notin clients \ {s}) /\ clients' = clients
    BY <1>1, <1>4
  <2>4. \A t \in Fd \ {s} : Same(t)
    BY <1>6
  <2> HIDE DEF D, f
  <2> QED
    BY <2>1, <2>2, <2>3, <2>4, OthersKept
<1>9. InPhase(s)'
  <2>1. SameFile(s)
    BY <1>2, <1>3, <1>7 DEF SameFile
  <2>2. TypeOK /\ InPhase(s) /\ (s \in clients' <=> s \in clients)
    BY <1>4 DEF IInv, RInv
  <2> QED
    BY <1>3, <1>6, <2>1, <2>2, InPhaseKept
<1>10. LossesReal'
  BY <1>1, <1>4, LossesKept DEF RInv, Handled
<1> QED
  BY <1>8, <1>9, <1>10, OneMovesOn

LEMMA CgiRunningRInv ==
    ASSUME IInv, RInv, NEW e \in batch, CgiRunning(e)
    PROVE  RInv'
<1>1. e.fd \in Files /\ Handled(e)
  BY DEF CgiRunning, FileReady
<1>2. fileMap' = fileMap
  <2>1. fileMap' = Inserted(fileMap, e.fd, OwnerOf(e)) /\ fileMap[e.fd] # NoFd
    BY <1>1, OwnerFacts, FdAssumption DEF CgiRunning
  <2> QED
    BY <1>1, <2>1 DEF Inserted, IInv, TypeOK, Files
<1>3. Reg' = Reg /\ UNCHANGED <<files, network, children, clients, client>>
  BY CgiRunningRegisters DEF CgiRunning, Reg
<1>4. \A t \in Fd : Same(t)
  BY <1>3 DEF Same, network, children
<1>5. LossesReal'
  BY <1>1, <1>3, LossesKept DEF RInv, Handled, files
<1> QED
  BY <1>2, <1>3, <1>4, <1>5, AllKept

\* write() took a part of a body: only the cursor of the client moves, and no
\* one reads the file.
LEMMA WriteMoreRInv ==
    ASSUME IInv, RInv, NEW e \in batch, WriteMore(e)
    PROVE  RInv'
<1>1. e.fd \in Files /\ e.filter = "WRITE" /\ Handled(e)
  BY DEF WriteMore, FileReady
<1>s. PICK s \in Fd : s = OwnerOf(e)
  BY <1>1, OwnerFacts
<1>2. /\ s \in clients /\ Busy(s) /\ client[s].fileFd = e.fd /\ fileMap[e.fd] = s
      /\ client[s] \in Client /\ got[s] = 0 /\ child[s] = "none"
      /\ ReadOf(e.fd) \notin Reg /\ WriteOf(e.fd) \in Reg
  BY <1>s, <1>1, OwnerFacts
<1>3. PICK n \in 1..MaxBody : client' = [client EXCEPT ![s].writeSize = @ + n]
  BY <1>s DEF WriteMore
<1>4. /\ UNCHANGED <<open, kq, files, network, children, clients, fileMap, cmds>>
      /\ Reg' = Reg
  BY DEF WriteMore, Reg
<1>5. client'[s].fileFd = client[s].fileFd /\ client'[s].mode = client[s].mode
  BY <1>2, <1>3, SMT DEF IInv, TypeOK, Client
<1>6. \A t \in Fd \ {s} : InPhase(t)'
  <2>1. \A t \in Fd \ {s} : Same(t)
    BY <1>3, <1>4 DEF Same, IInv, TypeOK, network, children
  <2> QED
    BY <1>4, <2>1, OthersKeptAlone
<1>7. InPhase(s)'
  <2>1. Waiting(s)' /\ Busy(s)'
    BY <1>2, <1>4, <1>5 DEF Waiting, Busy, Reg, network, children
  <2> QED
    BY <1>2, <1>4, <2>1 DEF InPhase
<1>8. LossesReal'
  BY <1>1, <1>4, LossesKept DEF RInv, Handled, files
<1> QED
  BY <1>6, <1>7, <1>8, OneMovesOn

\* send() took a part of a response: the cursor and what the peer received
\* move together.
LEMMA SendPartialRInv ==
    ASSUME IInv, RInv, NEW e \in batch, SendPartial(e)
    PROVE  RInv'
<1> DEFINE s == e.fd
<1>1. s \in clients /\ e.filter = "WRITE" /\ Handled(e) /\ ~Busy(s)
  BY DEF SendPartial, ClientWritable
<1>2. s \in Fd /\ s # Listen /\ client[s] \in Client
  BY <1>1, ClientEvent, FdAssumption DEF IInv, TypeOK
<1>3. PICK n \in 1..MaxOut :
          /\ client[s].writeSize + n < client[s].out
          /\ client' = [client EXCEPT ![s].writeSize = @ + n]
          /\ got' = [got EXCEPT ![s] = @ + n]
  BY DEF SendPartial
<1>4. /\ UNCHANGED <<open, kq, files, peer, backlog, children, clients, fileMap, cmds>>
      /\ Reg' = Reg
  BY DEF SendPartial, Reg
<1>5. /\ client'[s].fileFd = client[s].fileFd /\ client'[s].out = client[s].out
      /\ client'[s].writeSize = client[s].writeSize + n
  BY <1>2, <1>3, SMT DEF IInv, TypeOK, Client
<1>6. \A t \in Fd \ {s} : InPhase(t)'
  <2>1. \A t \in Fd \ {s} : Same(t)
    BY <1>3, <1>4 DEF Same, IInv, TypeOK, children
  <2> QED
    BY <1>2, <1>4, <2>1, OthersKeptAlone
<1>7. InPhase(s)'
  <2>1. Attended(s)
    BY <1>1, <1>2 DEF RInv, InPhase
  <2>2. WriteOf(s) \in Reg
    BY <1>1, <1>2, EventFacts DEF Reg, WriteOf
  <2>3. got'[s] = client'[s].writeSize
    BY <1>2, <1>3, <1>5, <2>1 DEF Attended, IInv, TypeOK
  <2>4. Attended(s)' /\ ~Busy(s)'
    BY <1>1, <1>3, <1>4, <1>5, <2>1, <2>2, <2>3 DEF Attended, Busy, Reg, children
  <2> QED
    BY <1>1, <1>4, <2>4 DEF InPhase
<1>8. LossesReal'
  BY <1>1, <1>4, LossesKept DEF RInv, Handled, files
<1> QED
  BY <1>2, <1>6, <1>7, <1>8, OneMovesOn

\* kevent() reports the loss of a file only if it was lost: the connections
\* that report an end are clients'.
LEMMA KeventRInv ==
    ASSUME IInv, RInv, Kevent
    PROVE  RInv'
<1>1. /\ kq' = Applied(kq, cmds, open) /\ cmds' = NoCmds
      /\ UNCHANGED <<open, files, network, children, clients, client, fileMap>>
  BY DEF Kevent
<1>2. Reg' = Reg
  BY <1>1, NoCmdsFacts DEF Reg
<1>3. \A t \in Fd : Same(t)
  BY <1>1 DEF Same, network, children
<1>4. LossesReal'
  <2> SUFFICES ASSUME "gone" \notin Faults, NEW d \in batch', d.flags = "bad"
               PROVE  d.fd \in clients
    BY <1>1 DEF RInv, LossesReal, files
  <2>1. broken = {}
    BY DEF RInv, LossesReal
  <2>2. d # Arrival
    BY DEF Arrival
  <2>3. PICK k \in Reg : d = EventOf(k)
    <3>1. Refused(kq, cmds, open) = {}
      BY DEF IInv, NoSelfError
    <3> QED
      BY <2>2, <3>1 DEF Kevent, Reg
  <2>4. d.fd = k[1] /\ AtEof(k)
    BY <2>3 DEF EventOf
  <2>5. k[1] \in Fd
    BY <2>3, StateFacts DEF Reg, IInv, TypeOK, Files
  <2>6. k[1] \notin clients => peer[k[1]] = "none"
    BY <2>5 DEF RInv, InPhase, Unused
  <2> QED
    BY <2>1, <2>4, <2>6 DEF AtEof
<1> QED
  BY <1>1, <1>2, <1>3, <1>4, AllKept

\* What peers, programs and disks do.
LEMMA EnvironmentRInv ==
    ASSUME IInv, RInv, Environment
    PROVE  RInv'
<1>1. UNCHANGED ServerVars /\ got' = got
  BY DEF Environment, Connect, PeerSend, PeerFin, PeerReset, ChildWrite, ChildExit,
         FileLost, FileCut, network
<1>2. Reg' = Reg
  BY <1>1 DEF Reg, ServerVars
<1>3. broken' \subseteq broken \/ "gone" \in Faults
  BY DEF Environment, Connect, PeerSend, PeerFin, PeerReset, ChildWrite, ChildExit,
         FileLost, FileCut, files
<1>4. \A t \in Fd : peer[t] = "none" => peer'[t] = "none"
  BY SMT DEF Environment, Connect, PeerSend, PeerFin, PeerReset, ChildWrite, ChildExit,
         FileLost, FileCut, network, IInv, TypeOK
<1>5. \A t \in Fd : child[t] = "none" => child'[t] = "none"
  BY SMT DEF Environment, Connect, PeerSend, PeerFin, PeerReset, ChildWrite, ChildExit,
         FileLost, FileCut, children, IInv, TypeOK
<1>6. \A t \in Fd : Same(t)
  BY <1>1, <1>4, <1>5 DEF Same, ServerVars
<1>7. LossesReal'
  BY <1>1, <1>3, LossesKept DEF RInv, ServerVars
<1> QED
  BY <1>1, <1>2, <1>6, <1>7, AllKept DEF ServerVars

\* What the handlers of the events of a socket do.
LEMMA SocketRInv ==
    ASSUME IInv, RInv, NEW e \in batch, HandleSocket(e)
    PROVE  RInv'
<1>1. CASE ClientGone(e) \/ RecvFail(e) \/ SendFail(e)
  BY <1>1, DropRInv DEF ClientGone, RecvFail, SendFail, ClientReadable, ClientWritable
<1>2. CASE Accept(e)
  BY <1>2, AcceptRInv
<1>3. CASE AcceptFail(e) \/ RecvPartial(e)
  <2>1. /\ Handled(e) /\ Reg' = Reg
        /\ UNCHANGED <<files, peer, got, children, clients, client, fileMap>>
    BY <1>3 DEF AcceptFail, RecvPartial, Received, network, Reg
  <2>2. \A t \in Fd : Same(t)
    BY <2>1 DEF Same, children
  <2>3. LossesReal'
    BY <2>1, LossesKept DEF RInv, Handled, files
  <2> QED
    BY <2>1, <2>2, <2>3, AllKept
<1>4. CASE AnswerAtOnce(e)
  <2>1. Received(e)
    BY <1>4 DEF AnswerAtOnce
  <2>2. /\ e.fd \in Fd /\ client[e.fd] \in Client
        /\ client[e.fd].fileFd = NoFd /\ client[e.fd].writeSize = 0
    BY <2>1, RequestFacts DEF Received, ClientReadable, Busy
  <2>3. PICK n \in 1..MaxOut : client' = [client EXCEPT ![e.fd] = Respond(client[e.fd], n)]
    BY <1>4 DEF AnswerAtOnce
  <2>4. /\ cmds' = Add(Delete(cmds, ReadOf(e.fd)), WriteOf(e.fd))
        /\ {} \in SUBSET (Fd \ open) /\ open' = open \cup {}
        /\ UNCHANGED <<kq, files, peer, got, children, clients, fileMap>>
    BY <1>4 DEF AnswerAtOnce
  <2> QED
    BY <2>1, <2>2, <2>3, <2>4, AnswerRInv
<1>5. CASE DeleteTree(e)
  <2>1. Received(e)
    BY <1>5 DEF DeleteTree
  <2>2. /\ e.fd \in Fd /\ client[e.fd] \in Client
        /\ client[e.fd].fileFd = NoFd /\ client[e.fd].writeSize = 0
    BY <2>1, RequestFacts DEF Received, ClientReadable, Busy
  <2>3. PICK lost \in SUBSET (Fd \ open), n \in 1..MaxOut :
           /\ open' = open \cup lost
           /\ client' = [client EXCEPT ![e.fd] = Respond(client[e.fd], n)]
    BY <1>5 DEF DeleteTree
  <2>4. /\ cmds' = Add(Delete(cmds, ReadOf(e.fd)), WriteOf(e.fd))
        /\ UNCHANGED <<kq, files, peer, got, children, clients, fileMap>>
    BY <1>5 DEF DeleteTree
  <2> QED
    BY <2>1, <2>2, <2>3, <2>4, AnswerRInv
<1>6. CASE NoCgiBody(e)
  <2> DEFINE c == [client[e.fd] EXCEPT !.mode = "cgi"]
  <2>1. Received(e)
    BY <1>6 DEF NoCgiBody
  <2>2. /\ e.fd \in Fd /\ client[e.fd] \in Client
        /\ client[e.fd].fileFd = NoFd /\ client[e.fd].writeSize = 0
    BY <2>1, RequestFacts DEF Received, ClientReadable, Busy
  <2>3. c \in Client /\ c.fileFd = NoFd /\ c.writeSize = 0
    BY <2>2, ModeFields
  <2>4. PICK n \in 1..MaxOut : client' = [client EXCEPT ![e.fd] = Respond(c, n)]
    BY <1>6 DEF NoCgiBody
  <2>5. /\ cmds' = Add(Delete(cmds, ReadOf(e.fd)), WriteOf(e.fd))
        /\ {} \in SUBSET (Fd \ open) /\ open' = open \cup {}
        /\ UNCHANGED <<kq, files, peer, got, children, clients, fileMap>>
    BY <1>6 DEF NoCgiBody
  <2> HIDE DEF c
  <2> QED
    BY <2>1, <2>3, <2>4, <2>5, AnswerRInv
<1>7. CASE OpenForRead(e) \/ OpenErrorPage(e)
  <2>1. PICK f \in Fd \ open : OpenFor(e, f, "READ", client[e.fd])
    BY <1>7 DEF OpenForRead, OpenErrorPage
  <2>2. client[e.fd] \in Client
    BY <2>1, RequestFacts DEF OpenFor, Received, ClientReadable
  <2> QED
    BY <2>1, <2>2, OpenForRInv DEF Filter
<1>8. CASE OpenUpload(e)
  <2>1. PICK f \in Fd \ open, n \in 0..MaxBody :
             OpenFor(e, f, "WRITE", [client[e.fd] EXCEPT !.body = n])
    BY <1>8 DEF OpenUpload
  <2> DEFINE c == [client[e.fd] EXCEPT !.body = n]
  <2>2. client[e.fd] \in Client
    BY <2>1, RequestFacts DEF OpenFor, Received, ClientReadable
  <2>3. c \in Client /\ c.writeSize = client[e.fd].writeSize
    BY <2>2, BodyFields
  <2>4. OpenFor(e, f, "WRITE", c)
    BY <2>1
  <2> HIDE DEF c
  <2> QED
    BY <2>3, <2>4, OpenForRInv DEF Filter
<1>9. CASE OpenCgiBody(e)
  <2>1. PICK f \in Fd \ open, n \in 0..MaxBody :
             OpenFor(e, f, "WRITE",
                     [[client[e.fd] EXCEPT !.body = n] EXCEPT !.mode = "cgi"])
    BY <1>9 DEF OpenCgiBody
  <2> DEFINE b == [client[e.fd] EXCEPT !.body = n]
             c == [b EXCEPT !.mode = "cgi"]
  <2>2. client[e.fd] \in Client
    BY <2>1, RequestFacts DEF OpenFor, Received, ClientReadable
  <2>3. b \in Client /\ b.writeSize = client[e.fd].writeSize
    BY <2>2, BodyFields
  <2>4. OpenFor(e, f, "WRITE", c)
    BY <2>1
  <2> HIDE DEF b
  <2>5. c \in Client /\ c.writeSize = client[e.fd].writeSize
    BY <2>3, ModeFields
  <2> HIDE DEF c
  <2> QED
    BY <2>4, <2>5, OpenForRInv DEF Filter
<1>10. CASE SendPartial(e)
  BY <1>10, SendPartialRInv
<1>11. CASE SendAll(e)
  BY <1>11, SendAllRInv
<1> QED
  BY <1>1, <1>2, <1>3, <1>4, <1>5, <1>6, <1>7, <1>8, <1>9, <1>10, <1>11
     DEF HandleSocket

\* A file that is read: the program whose output it is has ended.
LEMMA ReadableFacts ==
    ASSUME IInv, RInv, NEW e \in batch, Readable(e)
    PROVE  /\ e.fd \in Files /\ e.filter = "READ" /\ Handled(e)
           /\ child'[OwnerOf(e)] = "none"
           /\ \A t \in Fd : child[t] = "none" => child'[t] = "none"
<1>1. e.fd \in Files /\ e.filter = "READ" /\ Handled(e)
  BY DEF Readable, FileReady
<1>s. PICK s \in Fd : s = OwnerOf(e)
  BY <1>1, OwnerFacts
<1>2. child' = [child EXCEPT ![s] = "none"]
  BY <1>s DEF Readable
<1> QED
  BY <1>s, <1>1, <1>2 DEF IInv, TypeOK

\* read() or write() fails only if that is among the faults.
LEMMA FailureReal ==
    ASSUME RInv, NEW f, "io" \in Faults \/ f \in broken
    PROVE  ~FilesNeverFail
BY DEF RInv, LossesReal, FilesNeverFail

\* What the handlers of the events of a file do.
LEMMA FileRInv ==
    ASSUME IInv, RInv, NEW e \in batch, HandleFile(e)
    PROVE  RInv'
<1>1. CASE FileGone(e)
  BY <1>1, FileGoneRInv
<1>2. CASE CgiRunning(e)
  BY <1>2, CgiRunningRInv
<1>3. CASE ReadMore(e)
  <2>1. /\ Reg' = Reg
        /\ UNCHANGED <<broken, network, clients, client, fileMap>>
    BY <1>3 DEF ReadMore, Reg
  <2>2. Handled(e) /\ \A t \in Fd : child[t] = "none" => child'[t] = "none"
    BY <1>3, ReadableFacts DEF ReadMore
  <2>3. \A t \in Fd : Same(t)
    BY <2>1, <2>2 DEF Same, network
  <2>4. LossesReal'
    BY <2>1, <2>2, LossesKept DEF RInv, Handled
  <2> QED
    BY <2>1, <2>3, <2>4, AllKept
<1>4. CASE ReadLast(e)
  <2>1. Readable(e)
    BY <1>4 DEF ReadLast
  <2>2. PICK n \in 1..MaxOut :
             CloseFile(FileOf(e), OwnerOf(e), Respond(client[OwnerOf(e)], n))
    BY <1>4 DEF ReadLast
  <2> DEFINE c == Respond(client[OwnerOf(e)], n)
  <2>3. client[OwnerOf(e)] \in Client /\ client[OwnerOf(e)].writeSize = 0
    BY <2>1, ReadableFacts, OwnerFacts
  <2>4. c \in Client /\ c.writeSize = 0 /\ c.out > 0
    BY <2>3, RespondFields, SizeAssumption
  <2>5. CloseFile(FileOf(e), OwnerOf(e), c)
    BY <2>2
  <2> HIDE DEF c
  <2> QED
    BY <2>1, <2>4, <2>5, ReadableFacts, CloseFileRInv
<1>5. CASE ReadFail(e)
  <2>1. Readable(e) /\ CloseFile(FileOf(e), OwnerOf(e), client[OwnerOf(e)])
    BY <1>5 DEF ReadFail
  <2>2. client[OwnerOf(e)] \in Client /\ client[OwnerOf(e)].writeSize = 0
    BY <2>1, ReadableFacts, OwnerFacts
  <2>3. ~FilesNeverFail
    BY <1>5, FailureReal DEF ReadFail
  <2> QED
    BY <2>1, <2>2, <2>3, ReadableFacts, CloseFileRInv
<1>6. CASE WriteMore(e)
  BY <1>6, WriteMoreRInv
<1>7. CASE UploadDone(e)
  <2>1. e.fd \in Files /\ e.filter = "WRITE" /\ Handled(e) /\ child' = child
    BY <1>7 DEF UploadDone, FileReady
  <2>2. client[OwnerOf(e)] \in Client /\ child[OwnerOf(e)] = "none"
    BY <2>1, OwnerFacts
  <2> DEFINE b == Rewound(client[OwnerOf(e)])
  <2>3. PICK n \in 1..MaxOut : CloseFile(FileOf(e), OwnerOf(e), Respond(b, n))
    BY <1>7 DEF UploadDone
  <2> DEFINE c == Respond(b, n)
  <2>4. b \in Client /\ b.writeSize = 0
    BY <2>2, RewoundFields
  <2> HIDE DEF b
  <2>5. c \in Client /\ c.writeSize = 0 /\ c.out > 0
    BY <2>4, RespondFields, SizeAssumption
  <2>6. CloseFile(FileOf(e), OwnerOf(e), c)
    BY <2>3
  <2> HIDE DEF c
  <2> QED
    BY <2>1, <2>2, <2>5, <2>6, CloseFileRInv
<1>8. CASE WriteFail(e)
  <2> DEFINE c == Rewound(client[OwnerOf(e)])
  <2>1. /\ e.fd \in Files /\ e.filter = "WRITE" /\ Handled(e) /\ child' = child
        /\ CloseFile(FileOf(e), OwnerOf(e), c)
    BY <1>8 DEF WriteFail, FileReady
  <2>2. client[OwnerOf(e)] \in Client /\ child[OwnerOf(e)] = "none"
    BY <2>1, OwnerFacts
  <2>3. c \in Client /\ c.writeSize = 0
    BY <2>2, RewoundFields
  <2>4. ~FilesNeverFail
    BY <1>8, FailureReal DEF WriteFail
  <2> HIDE DEF c
  <2> QED
    BY <2>1, <2>2, <2>3, <2>4, CloseFileRInv
<1>9. CASE CgiStarted(e)
  BY <1>9, CgiStartedRInv
<1>10. CASE CgiFailed(e)
  BY <1>10, CgiFailedRInv
<1> QED
  BY <1>1, <1>2, <1>3, <1>4, <1>5, <1>6, <1>7, <1>8, <1>9, <1>10 DEF HandleFile

-----------------------------------------------------------------------------

LEMMA InitRInv == Init => RInv
BY DEF Init, RInv, LossesReal, InPhase, Unused

LEMMA NextRInv == IInv /\ RInv /\ [Next]_vars => RInv'
<1> SUFFICES ASSUME IInv, RInv, [Next]_vars PROVE RInv'
  OBVIOUS
<1>1. CASE Kevent
  BY <1>1, KeventRInv
<1>2. CASE \E e \in batch : HandleSocket(e) \/ HandleFile(e)
  BY <1>2, SocketRInv, FileRInv
<1>3. CASE Environment
  BY <1>3, EnvironmentRInv
<1>4. CASE UNCHANGED vars
  <2>1. /\ UNCHANGED <<clients, client, fileMap, got, peer, child, broken, batch>>
        /\ Reg' = Reg
    BY <1>4 DEF vars, Reg
  <2>2. \A t \in Fd : Same(t)
    BY <2>1 DEF Same
  <2>3. LossesReal'
    BY <2>1 DEF RInv, LossesReal
  <2> QED
    BY <2>1, <2>2, <2>3, AllKept
<1> QED
  BY <1>1, <1>2, <1>3, <1>4 DEF Next, Server

\* In each phase of a connection its socket, its file, its cursor, its program
\* and what the peer has received fit together, and no file is reported as lost
\* unless files can be lost: no handler of Webserv::start breaks this.
THEOREM PhasesFit == Spec => []RInv
<1>1. Spec => []IInv
  BY Invariance
<1> QED
  BY <1>1, InitRInv, NextRInv, PTL DEF Spec

\* Every client is waited for, by its socket or by its file, unless the kernel
\* reported the loss of that file (Webserv::start, the branches for EV_EOF).
THEOREM NeverForgottenHolds == Spec => []NeverForgotten
<1>1. IInv /\ RInv => NeverForgotten
  <2> SUFFICES ASSUME IInv, RInv, NEW s \in clients
               PROVE  \/ \E k \in Reg : k[1] = s \/ fileMap[k[1]] = s
                      \/ "gone" \in Faults /\ Stranded(s)
    BY DEF NeverForgotten, Reg
  <2>1. s \in Fd /\ client[s] \in Client /\ InPhase(s)
    BY DEF IInv, TypeOK, RInv
  <2>2. CASE Busy(s)
    <3> DEFINE f == client[s].fileFd
    <3>1. f \in Fd /\ Waiting(s)
      BY <2>1, <2>2 DEF InPhase, Busy, Client
    <3>2. ReadOf(f)[1] = f /\ WriteOf(f)[1] = f
      BY <3>1, PairFacts
    <3> QED
      BY <2>2, <3>1, <3>2 DEF Waiting, Stranded, Reg
  <2>3. CASE ~Busy(s)
    BY <2>1, <2>3 DEF InPhase, Attended, Reg
  <2> QED
    BY <2>2, <2>3
<1> QED
  BY <1>1, Invariance, PhasesFit, PTL

\* A CGI process belongs to a client in CGI mode that is registered for the
\* result file, where check_cgi_status reaps it, unless that file was lost.
THEOREM ChildWaitedHolds == Spec => []ChildWaited
<1>1. IInv /\ RInv => ChildWaited
  <2> SUFFICES ASSUME IInv, RInv, NEW s \in Fd, child[s] # "none"
               PROVE  /\ s \in clients /\ client[s].mode = "cgi" /\ Busy(s)
                      /\ \/ /\ client[s].fileFd \in Files
                            /\ ReadOf(client[s].fileFd) \in Reg
                         \/ "gone" \in Faults /\ Stranded(s)
    BY DEF ChildWaited, Reg
  <2>1. client[s] \in Client /\ InPhase(s)
    BY DEF IInv, TypeOK, RInv
  <2>2. s \in clients /\ Busy(s) /\ Waiting(s)
    BY <2>1 DEF InPhase, Unused, Attended
  <2>3. client[s].fileFd \in Fd /\ s # NoFd
    BY <2>1, <2>2, FdAssumption DEF Busy, Client
  <2> QED
    BY <2>2, <2>3 DEF Waiting, Stranded, Files, Reg
<1> QED
  BY <1>1, Invariance, PhasesFit, PTL

\* The cursor that write_file and send_data share is what the peer has received
\* of the response: it starts at the first byte, and none is skipped or repeated.
THEOREM ResponseIntactHolds == Spec => []ResponseIntact
<1>1. IInv /\ RInv => ResponseIntact
  BY DEF IInv, TypeOK, RInv, ResponseIntact, InPhase, Waiting, Attended
<1> QED
  BY <1>1, Invariance, PhasesFit, PTL

\* When no read() or write() of a file fails and none is lost, a socket is armed
\* for writing only with a response, of which something is left to send.  With
\* such a failure the handlers arm it with none.
THEOREM ResponseReadyHolds == ASSUME FilesNeverFail PROVE Spec => []ResponseReady
<1>1. IInv /\ RInv => ResponseReady
  <2> SUFFICES ASSUME IInv, RInv, NEW s \in clients, WriteOf(s) \in Reg
               PROVE  client[s].out > client[s].writeSize /\ ~Busy(s)
    BY DEF ResponseReady, Reg
  <2>1. s \in Fd /\ InPhase(s)
    BY DEF IInv, TypeOK, RInv
  <2>2. ~Busy(s)
    <3>1. WriteOf(s)[1] = s
      BY <2>1, PairFacts
    <3> QED
      BY <3>1 DEF IInv, QuietWhileBusy, Reg
  <2> QED
    BY <2>1, <2>2 DEF InPhase, Attended, Reg
<1> QED
  BY <1>1, Invariance, PhasesFit, PTL
=============================================================================
