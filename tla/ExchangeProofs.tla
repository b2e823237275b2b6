---------------------------- MODULE ExchangeProofs ----------------------------
(***************************************************************************)
(* The loop implements Exchange: every step is one that Exchange allows to *)
(* one connection, or leaves the phase of all of them as it is.            *)
(***************************************************************************)
EXTENDS WebservProofs

\* The phases of the connections, the variable of Exchange.
Phases == [s \in Fd |-> Phase(s)]

\* A command on another pair leaves the entry of a pair as it is.
LEMMA OtherFacts ==
    ASSUME NEW c \in [Knote -> Cmd], NEW k \in Knote, NEW j \in Knote, j # k
    PROVE  /\ Add(c, j) \in [Knote -> Cmd] /\ Add(c, j)[k] = c[k]
           /\ Delete(c, j) \in [Knote -> Cmd] /\ Delete(c, j)[k] = c[k]
BY SMT DEF Add, Added, Delete, Deleted, Cmd

LEMMA OthersFacts ==
    ASSUME NEW c \in [Knote -> Cmd], NEW k \in Knote, NEW i \in Knote, NEW j \in Knote,
           i # k, j # k
    PROVE  Add(Delete(c, i), j)[k] = c[k] /\ Delete(Add(c, i), j)[k] = c[k]
<1>1. /\ Add(c, i) \in [Knote -> Cmd] /\ Add(c, i)[k] = c[k]
      /\ Delete(c, i) \in [Knote -> Cmd] /\ Delete(c, i)[k] = c[k]
  BY OtherFacts
<1> QED
  BY <1>1, OtherFacts

\* The pairs of a descriptor, and those of two.
LEMMA SidesFacts ==
    ASSUME NEW r \in Fd
    PROVE  /\ WriteOf(r) \in Knote /\ ReadOf(r) \in Knote
           /\ \A s \in Fd : ReadOf(s) # WriteOf(r)
           /\ \A s \in Fd : s # r => WriteOf(s) # WriteOf(r)
           /\ \A s \in Fd, f \in Filter :
                 <<s, f>> \in Knote /\ (s # r => <<s, f>> # WriteOf(r))
BY SMT DEF Knote, Filter, WriteOf, ReadOf

\* What decides the phase of client r stays as it is.
Kept(r) ==
    /\ client'[r].fileFd = client[r].fileFd
    /\ cmds'[WriteOf(r)] = cmds[WriteOf(r)]
    /\ WriteOf(r) \in kq' <=> WriteOf(r) \in kq
    /\ r \in open' <=> r \in open

LEMMA PhaseKept ==
    ASSUME NEW r \in Fd, r \in clients' <=> r \in clients, r \in clients => Kept(r)
    PROVE  Phase(r)' = Phase(r)
<1>1. CASE r \notin clients
  BY <1>1 DEF Phase
<1>2. CASE r \in clients
  <2>1. WriteOf(r) \in Applied(kq, cmds, open)' <=> WriteOf(r) \in Applied(kq, cmds, open)
    BY <1>2, KnoteFacts, SMT DEF Kept, Applied, WriteOf
  <2> QED
    BY <1>2, <2>1, SMT DEF Kept, Phase, Busy
<1> QED
  BY <1>1, <1>2

\* The state of connection s changes and that of no other does.
LEMMA MoveFacts ==
    ASSUME NEW s \in Fd, NEW From, NEW to, Phase(s) \in From, Phase(s)' = to,
           \A r \in Fd \ {s} : Phase(r)' = Phase(r)
    PROVE  Abstract!Move(s, From, to)
<1>1. Phases[s] \in From
  BY DEF Phases
<1>2. Phases' = [Phases EXCEPT ![s] = to]
  <2>1. Phases' = [r \in Fd |-> Phase(r)']
    BY DEF Phases
  <2>2. Phases = [r \in Fd |-> Phase(r)]
    BY DEF Phases
  <2> QED
    BY <2>1, <2>2, Zenon
<1> QED
  BY <1>1, <1>2 DEF Abstract!Move, Phases

LEMMA StutterFacts ==
    ASSUME \A r \in Fd : Phase(r)' = Phase(r)
    PROVE  UNCHANGED Phases
BY SMT DEF Phases

\* What Exchange allows.
Allowed == Abstract!Next \/ UNCHANGED Phases

\* A client with an event waits on no file, and the filter of the event tells
\* its phase.
LEMMA ClientEvent ==
    ASSUME IInv, NEW e \in batch, e.fd \in clients
    PROVE  /\ e.fd \in Fd /\ e.fd \in open /\ ~Busy(e.fd)
           /\ cmds[WriteOf(e.fd)] = "none"
           /\ Phase(e.fd) \in {"reading", "sending"}
           /\ e.filter = "READ" => Phase(e.fd) = "reading"
           /\ e.filter = "WRITE" => Phase(e.fd) = "sending"
<1>1. e.fd \in Fd /\ e.fd # Listen
  BY StateFacts, FdAssumption
<1>2. /\ e.fd \in open /\ <<e.fd, e.filter>> \in Applied(kq, cmds, open)
      /\ \A k \in Knote : k[1] = e.fd => cmds[k] = "none"
  BY <1>1, EventFacts
<1>3. ~Busy(e.fd)
  BY DEF IInv, QuietWhileBusy
<1>4. cmds[WriteOf(e.fd)] = "none"
  BY <1>1, <1>2, KnoteFacts DEF WriteOf
<1>5. e.filter = "READ" => WriteOf(e.fd) \notin Applied(kq, cmds, open)
  BY <1>2, SMT DEF IInv, OneFilter, WriteOf
<1>6. e.filter = "WRITE" => WriteOf(e.fd) \in Applied(kq, cmds, open)
  BY <1>2 DEF WriteOf
<1> QED
  BY <1>1, <1>2, <1>3, <1>4, <1>5, <1>6 DEF Phase

\* A client that waits on a file.
LEMMA OwnerPhase ==
    ASSUME IInv, NEW e \in batch, e.fd \in Files, e.fd \notin clients
    PROVE  /\ OwnerOf(e) \in Fd /\ OwnerOf(e) \in clients /\ OwnerOf(e) \in open
           /\ FileOf(e) = e.fd /\ e.fd \in Fd /\ OwnerOf(e) # e.fd
           /\ Phase(OwnerOf(e)) = "serving"
<1>1. OwnerOf(e) \in clients /\ FileOf(e) = e.fd /\ e.fd \in Fd
  BY DEF IInv, FilesOwned, OwnerOf, FileOf, Files
<1>2. OwnerOf(e) \in Fd /\ OwnerOf(e) \in open
  BY <1>1, StateFacts
<1>3. Busy(OwnerOf(e))
  BY <1>1, FdAssumption DEF Busy, FileOf
<1> QED
  BY <1>1, <1>2, <1>3 DEF Phase

\* A handler that changes neither who is a client, nor which client has a file,
\* nor what sockets are registered for writing.
LEMMA StillAllowed ==
    ASSUME IInv, clients' = clients,
           \A r \in clients : Kept(r)
    PROVE  Allowed
<1>1. ASSUME NEW r \in Fd PROVE Phase(r)' = Phase(r)
  <2>1. r \in clients' <=> r \in clients
    OBVIOUS
  <2> QED
    BY <2>1, PhaseKept
<1> QED
  BY <1>1, StutterFacts DEF Allowed

\* A handler that moves connection s and leaves the others.
LEMMA OneMoves ==
    ASSUME IInv, NEW s \in Fd, NEW From, NEW to, Phase(s) \in From, Phase(s)' = to,
           clients' \ {s} = clients \ {s},
           \A r \in clients \ {s} : Kept(r)
    PROVE  Abstract!Move(s, From, to)
<1>1. ASSUME NEW r \in Fd \ {s} PROVE Phase(r)' = Phase(r)
  <2>1. r \in clients' <=> r \in clients
    OBVIOUS
  <2> QED
    BY <2>1, PhaseKept
<1> QED
  BY <1>1, MoveFacts

LEMMA DropAllowed ==
    ASSUME IInv, NEW e \in batch, e.fd \in clients, Drop(e.fd)
    PROVE  Allowed
<1> DEFINE s == e.fd
<1>1. s \in Fd /\ Phase(s) \in {"reading", "sending"}
  BY ClientEvent
<1>2. Phase(s)' = "closed"
  BY SMT DEF Drop, Phase
<1>3. clients' \ {s} = clients \ {s}
  BY DEF Drop
<1>4. ASSUME NEW r \in clients \ {s} PROVE Kept(r)
  <2>1. r \in Fd
    BY StateFacts
  <2> QED
    BY <2>1, SMT DEF Kept, Drop, WithoutFd, WriteOf, IInv, TypeOK
<1>5. Abstract!Move(s, {"reading", "sending"}, "closed")
  BY <1>1, <1>2, <1>3, <1>4, OneMoves
<1> QED
  BY <1>1, <1>5 DEF Allowed, Abstract!Next, Abstract!Close

\* The request is complete and answered at once.
LEMMA AnswerAllowed ==
    ASSUME IInv, NEW e \in batch, e.fd \in clients, e.filter = "READ",
           cmds' = Add(Delete(cmds, ReadOf(e.fd)), WriteOf(e.fd)),
           clients' = clients, kq' = kq, open \subseteq open',
           client'[e.fd].fileFd = client[e.fd].fileFd,
           \A r \in clients \ {e.fd} : client'[r] = client[r]
    PROVE  Allowed
<1> DEFINE s == e.fd
<1>1. s \in Fd /\ s \in open /\ ~Busy(s) /\ cmds[WriteOf(s)] = "none"
      /\ Phase(s) = "reading"
  BY ClientEvent
<1>2. cmds \in [Knote -> Cmd]
  BY DEF IInv, TypeOK
<1>3. WriteOf(s) \in Applied(kq', cmds', open')
  BY <1>1, <1>2, KnoteFacts, SMT
  DEF Applied, Add, Added, Delete, Deleted, ReadOf, WriteOf
<1>4. Phase(s)' = "sending"
  BY <1>1, <1>3, SMT DEF Phase, Busy
<1>5. ASSUME NEW r \in clients \ {s} PROVE Kept(r)
  <2>1. r \in Fd /\ r \in open
    BY StateFacts
  <2>2. cmds'[WriteOf(r)] = cmds[WriteOf(r)]
    BY <1>1, <1>2, <2>1, SidesFacts, OtherFacts
  <2>3. client'[r].fileFd = client[r].fileFd /\ r \in open'
    BY <2>1
  <2> QED
    BY <2>1, <2>2, <2>3, Zenon DEF Kept
<1>6. Abstract!Move(s, {"reading", "serving"}, "sending")
  BY <1>1, <1>4, <1>5, OneMoves
<1> QED
  BY <1>1, <1>6 DEF Allowed, Abstract!Next, Abstract!Answer

\* The request is complete and a file is opened for it.
LEMMA OpenForAllowed ==
    ASSUME IInv, NEW e \in batch, NEW f \in Fd \ open, NEW filter \in Filter,
           NEW c \in Client, OpenFor(e, f, filter, c)
    PROVE  Allowed
<1> DEFINE s == e.fd
<1>1. s \in clients /\ e.filter = "READ"
  BY DEF OpenFor, Received, ClientReadable
<1>2. s \in Fd /\ Phase(s) = "reading"
  BY <1>1, ClientEvent
<1>3. /\ cmds \in [Knote -> Cmd] /\ client \in [Fd -> Client] /\ f # NoFd
      /\ clients' = clients /\ kq' = kq /\ open' = open \cup {f}
  BY FdAssumption DEF IInv, TypeOK, OpenFor
<1>4. client'[s].fileFd = f
  BY <1>2, <1>3, FileFdFacts DEF OpenFor
<1>5. Phase(s)' = "serving"
  BY <1>1, <1>3, <1>4, SMT DEF Phase, Busy
<1>6. ASSUME NEW r \in clients \ {s} PROVE Kept(r)
  <2>1. r \in Fd /\ r \in open /\ r # f
    BY StateFacts
  <2>2. cmds'[WriteOf(r)] = cmds[WriteOf(r)]
    <3>1. cmds' = Add(Delete(cmds, ReadOf(s)), <<f, filter>>)
      BY DEF OpenFor
    <3>2. /\ WriteOf(r) \in Knote /\ ReadOf(s) \in Knote /\ <<f, filter>> \in Knote
          /\ ReadOf(s) # WriteOf(r) /\ <<f, filter>> # WriteOf(r)
      BY <1>2, <2>1, SidesFacts
    <3> QED
      BY <3>1, <3>2, <1>3, OthersFacts
  <2>3. client'[r] = client[r]
    BY <1>3, <2>1, SMT DEF OpenFor
  <2> QED
    BY <1>3, <2>1, <2>2, <2>3 DEF Kept
<1>7. Abstract!Move(s, {"reading"}, "serving")
  BY <1>2, <1>3, <1>5, <1>6, OneMoves
<1> QED
  BY <1>2, <1>7 DEF Allowed, Abstract!Next, Abstract!Serve

\* The response has been sent.
LEMMA SendAllAllowed ==
    ASSUME IInv, NEW e \in batch, SendAll(e)
    PROVE  Allowed
<1> DEFINE s == e.fd
<1>1. s \in clients /\ e.filter = "WRITE"
  BY DEF SendAll, ClientWritable
<1>2. s \in Fd /\ Phase(s) = "sending" /\ cmds[WriteOf(s)] = "none"
  BY <1>1, ClientEvent
<1>3. /\ cmds \in [Knote -> Cmd] /\ client \in [Fd -> Client]
      /\ clients' = clients /\ kq' = kq /\ open' = open
  BY DEF IInv, TypeOK, SendAll
<1>4. client'[s].fileFd = NoFd
  BY <1>2, <1>3, FreshFacts DEF SendAll
<1>5. WriteOf(s) \notin Applied(kq', cmds', open')
  BY <1>2, <1>3, KnoteFacts, SMT
  DEF SendAll, Applied, Add, Added, Delete, Deleted, ReadOf, WriteOf
<1>6. Phase(s)' = "reading"
  BY <1>1, <1>3, <1>4, <1>5, SMT DEF Phase, Busy
<1>7. ASSUME NEW r \in clients \ {s} PROVE Kept(r)
  <2>1. r \in Fd
    BY StateFacts
  <2>2. cmds'[WriteOf(r)] = cmds[WriteOf(r)]
    <3>1. cmds' = Delete(Add(cmds, ReadOf(s)), WriteOf(s))
      BY DEF SendAll
    <3>2. /\ WriteOf(r) \in Knote /\ ReadOf(s) \in Knote /\ WriteOf(s) \in Knote
          /\ ReadOf(s) # WriteOf(r) /\ WriteOf(s) # WriteOf(r)
      BY <1>2, <2>1, SidesFacts
    <3> QED
      BY <3>1, <3>2, <1>3, OthersFacts
  <2>3. client'[r] = client[r]
    BY <1>3, <2>1, SMT DEF SendAll
  <2> QED
    BY <1>3, <2>1, <2>2, <2>3 DEF Kept
<1>8. Abstract!Move(s, {"sending"}, "reading")
  BY <1>2, <1>3, <1>6, <1>7, OneMoves
<1> QED
  BY <1>2, <1>8 DEF Allowed, Abstract!Next, Abstract!Finish

\* A connection is accepted.
LEMMA AcceptAllowed ==
    ASSUME IInv, NEW e \in batch, Accept(e)
    PROVE  Allowed
<1>1. PICK s \in Fd \ open :
          /\ open' = open \cup {s}
          /\ clients' = clients \cup {s}
          /\ client' = [client EXCEPT ![s] = FreshClient]
          /\ cmds' = Add(cmds, ReadOf(s))
  BY DEF Accept
<1>2. /\ cmds \in [Knote -> Cmd] /\ client \in [Fd -> Client] /\ kq' = kq
  BY DEF IInv, TypeOK, Accept
<1>3. /\ s \notin clients /\ cmds[WriteOf(s)] = "none" /\ WriteOf(s) \notin kq
  <2>1. WriteOf(s)[1] = s
    BY DEF WriteOf
  <2> QED
    BY <2>1, StateFacts, SidesFacts
<1>4. Phase(s) = "closed"
  BY <1>3 DEF Phase
<1>5. client'[s].fileFd = NoFd
  BY <1>1, <1>2, FreshFacts
<1>6. WriteOf(s) \notin Applied(kq', cmds', open')
  BY <1>1, <1>2, <1>3, KnoteFacts, SMT DEF Applied, Add, Added, ReadOf, WriteOf
<1>7. Phase(s)' = "reading"
  BY <1>1, <1>5, <1>6, SMT DEF Phase, Busy
<1>8. ASSUME NEW r \in clients \ {s} PROVE Kept(r)
  <2>1. r \in Fd /\ r # s
    BY StateFacts
  <2>2. cmds'[WriteOf(r)] = cmds[WriteOf(r)]
    BY <1>1, <1>2, <2>1, KnoteFacts, SMT DEF Add, ReadOf, WriteOf
  <2>3. client'[r] = client[r]
    BY <1>1, <1>2, <2>1, SMT
  <2> QED
    BY <1>1, <1>2, <2>1, <2>2, <2>3 DEF Kept
<1>9. clients' \ {s} = clients \ {s}
  BY <1>1
<1>10. Abstract!Move(s, {"closed"}, "reading")
  BY <1>4, <1>7, <1>8, <1>9, OneMoves
<1> QED
  BY <1>10 DEF Allowed, Abstract!Next, Abstract!Open

\* A file is finished and its client's socket armed, in ReadLast, ReadFail,
\* UploadDone, WriteFail and CgiFailed.
LEMMA FinishAllowed ==
    ASSUME IInv, NEW e \in batch, e.fd \in Files, e.fd \notin clients,
           NEW s \in Fd, s = OwnerOf(e),
           clients' = clients, kq' = WithoutFd(kq, e.fd),
           open \ {e.fd} \subseteq open',
           client'[s].fileFd = NoFd,
           cmds' \in [Knote -> Cmd], cmds'[WriteOf(s)] \in {"add", "renew"},
           \A r \in clients \ {s} :
               client'[r] = client[r] /\ cmds'[WriteOf(r)] = cmds[WriteOf(r)]
    PROVE  Allowed
<1>1. /\ s \in Fd /\ s \in clients /\ s \in open /\ s # e.fd
      /\ Phase(s) = "serving"
  BY OwnerPhase
<1>2. WriteOf(s) \in Knote /\ WriteOf(s)[1] = s
  BY <1>1, SidesFacts DEF WriteOf
<1>3. WriteOf(s) \in Applied(kq', cmds', open')
  BY <1>1, <1>2 DEF Applied
<1>4. Phase(s)' = "sending"
  BY <1>1, <1>3, SMT DEF Phase, Busy
<1>5. ASSUME NEW r \in clients \ {s} PROVE Kept(r)
  <2>1. r \in Fd /\ r \in open /\ r # e.fd
    BY StateFacts
  <2>2. WriteOf(r) \in kq' <=> WriteOf(r) \in kq
    BY <2>1 DEF WithoutFd, WriteOf
  <2> QED
    BY <2>1, <2>2 DEF Kept
<1>6. Abstract!Move(s, {"reading", "serving"}, "sending")
  BY <1>1, <1>4, <1>5, OneMoves
<1> QED
  BY <1>1, <1>6 DEF Allowed, Abstract!Next, Abstract!Answer

LEMMA CloseFileAllowed ==
    ASSUME IInv, NEW e \in batch, e.fd \in Files, e.fd \notin clients,
           NEW c \in Client, CloseFile(FileOf(e), OwnerOf(e), c)
    PROVE  Allowed
<1>s. PICK s \in Fd : s = OwnerOf(e)
  BY OwnerPhase
<1>1. s \in Fd /\ s \in clients /\ s \in open /\ FileOf(e) = e.fd
  BY <1>s, OwnerPhase
<1>2. /\ cmds \in [Knote -> Cmd] /\ client \in [Fd -> Client]
      /\ WriteOf(s) \in Knote /\ Refused(kq, cmds, open) = {}
  BY <1>1, SidesFacts DEF IInv, TypeOK, NoSelfError
<1>3. /\ clients' = clients /\ kq' = WithoutFd(kq, e.fd) /\ open' = open \ {e.fd}
      /\ cmds' = Add(cmds, WriteOf(s))
      /\ client' = [client EXCEPT ![s] = [c EXCEPT !.fileFd = NoFd]]
  BY <1>s, <1>1 DEF CloseFile
<1>4. client'[s].fileFd = NoFd
  BY <1>1, <1>2, <1>3, FileFdFacts
<1>5. cmds' \in [Knote -> Cmd] /\ cmds'[WriteOf(s)] \in {"add", "renew"}
  BY <1>2, <1>3, SMT DEF Add, Added, Refused, Cmd
<1>6. ASSUME NEW r \in clients \ {s}
      PROVE  client'[r] = client[r] /\ cmds'[WriteOf(r)] = cmds[WriteOf(r)]
  <2>1. r \in Fd
    BY StateFacts
  <2>2. WriteOf(r) \in Knote /\ WriteOf(s) # WriteOf(r)
    BY <1>1, <2>1, SidesFacts
  <2>3. cmds'[WriteOf(r)] = cmds[WriteOf(r)]
    BY <1>2, <1>3, <2>2, OtherFacts
  <2>4. client'[r] = client[r]
    BY <1>2, <1>3, <2>1, SMT
  <2> QED
    BY <2>3, <2>4
<1> QED
  BY <1>s, <1>3, <1>4, <1>5, <1>6, FinishAllowed

LEMMA CgiFailedAllowed ==
    ASSUME IInv, NEW e \in batch, CgiFailed(e)
    PROVE  Allowed
<1>1. e.fd \in Files /\ e.fd \notin clients
  BY DEF CgiFailed, CgiBodyDone, FileReady
<1>s. PICK s \in Fd : s = OwnerOf(e)
  BY <1>1, OwnerPhase
<1>2. s \in Fd /\ s \in clients /\ FileOf(e) = e.fd
  BY <1>s, <1>1, OwnerPhase
<1>3. PICK lost \in SUBSET Slots(e), n \in 1..MaxOut :
         /\ open' = (open \ {e.fd}) \cup lost
         /\ client' = [client EXCEPT ![s] =
                          Respond([Rewound(client[s]) EXCEPT !.fileFd = NoFd], n)]
         /\ cmds' = Add(CgiCmds(s), WriteOf(s))
  BY <1>s, <1>2 DEF CgiFailed
<1>4. clients' = clients /\ kq' = WithoutFd(kq, e.fd)
  BY <1>2 DEF CgiFailed, CgiBodyDone
<1>5. /\ cmds \in [Knote -> Cmd] /\ client \in [Fd -> Client]
      /\ WriteOf(s) \in Knote /\ Refused(kq, cmds, open) = {}
  BY <1>2, SidesFacts DEF IInv, TypeOK, NoSelfError
<1>6. client'[s].fileFd = NoFd
  <2>1. Rewound(client[s]) \in Client
    BY <1>2, <1>5, RewoundFacts
  <2>2. /\ [Rewound(client[s]) EXCEPT !.fileFd = NoFd] \in Client
        /\ [Rewound(client[s]) EXCEPT !.fileFd = NoFd].fileFd = NoFd
    BY <2>1, FileFdFacts
  <2>3. client'[s] = Respond([Rewound(client[s]) EXCEPT !.fileFd = NoFd], n)
    BY <1>2, <1>3, <1>5
  <2> QED
    BY <2>2, <2>3, RespondFacts
<1>7. cmds' \in [Knote -> Cmd] /\ cmds'[WriteOf(s)] \in {"add", "renew"}
  BY <1>3, <1>5, SMT DEF CgiCmds, Add, Added, Delete, Deleted, Refused, Cmd
<1>8. ASSUME NEW r \in clients \ {s}
      PROVE  client'[r] = client[r] /\ cmds'[WriteOf(r)] = cmds[WriteOf(r)]
  <2>1. r \in Fd
    BY StateFacts
  <2>2. WriteOf(r) \in Knote /\ WriteOf(s) # WriteOf(r)
    BY <1>2, <2>1, SidesFacts
  <2>3. Add(cmds, WriteOf(s)) \in [Knote -> Cmd] /\ CgiCmds(s) \in [Knote -> Cmd]
        /\ CgiCmds(s)[WriteOf(r)] = cmds[WriteOf(r)]
    <3>1. /\ Add(cmds, WriteOf(s)) \in [Knote -> Cmd]
          /\ Add(cmds, WriteOf(s))[WriteOf(r)] = cmds[WriteOf(r)]
      BY <1>5, <2>2, OtherFacts
    <3> QED
      BY <1>5, <2>2, <3>1, OtherFacts DEF CgiCmds
  <2>4. cmds'[WriteOf(r)] = cmds[WriteOf(r)]
    BY <1>3, <1>5, <2>2, <2>3, OtherFacts
  <2>5. client'[r] = client[r]
    BY <1>3, <1>5, <2>1, SMT
  <2> QED
    BY <2>4, <2>5
<1>9. open \ {e.fd} \subseteq open'
  BY <1>3
<1> QED
  BY <1>s, <1>1, <1>4, <1>6, <1>7, <1>8, <1>9, FinishAllowed

\* The program is started: its client goes on waiting, for its result file.
LEMMA CgiStartedAllowed ==
    ASSUME IInv, NEW e \in batch, CgiStarted(e)
    PROVE  Allowed
<1>1. e.fd \in Files /\ e.fd \notin clients
  BY DEF CgiStarted, CgiBodyDone, FileReady
<1>s. PICK s \in Fd : s = OwnerOf(e)
  BY <1>1, OwnerPhase
<1>2. s \in Fd /\ s \in clients /\ FileOf(e) = e.fd /\ e.fd \in Fd
      /\ Phase(s) = "serving"
  BY <1>s, <1>1, OwnerPhase
<1>3. PICK g \in Slots(e) :
         /\ open' = (open \ {e.fd}) \cup {g}
         /\ client' = [client EXCEPT ![s] = [Rewound(client[s]) EXCEPT !.fileFd = g]]
         /\ cmds' = Add(CgiCmds(s), ReadOf(g))
  BY <1>s, <1>2 DEF CgiStarted
<1>4. /\ clients' = clients /\ kq' = WithoutFd(kq, e.fd)
      /\ cmds \in [Knote -> Cmd] /\ client \in [Fd -> Client]
  BY <1>2 DEF CgiStarted, CgiBodyDone, IInv, TypeOK
<1>5. g \in Fd /\ g # NoFd /\ (g \notin open \/ g = e.fd)
  BY <1>2, <1>3, FdAssumption DEF Slots
<1>6. Phase(s)' = "serving"
  <2>1. Rewound(client[s]) \in Client
    BY <1>2, <1>4, RewoundFacts
  <2>2. client'[s].fileFd = g
    BY <1>2, <1>3, <1>4, <1>5, <2>1, FileFdFacts
  <2> QED
    BY <1>2, <1>4, <1>5, <2>2, SMT DEF Phase, Busy
<1>7. ASSUME NEW r \in clients \ {s} PROVE Kept(r)
  <2>1. r \in Fd /\ r \in open /\ r # e.fd /\ r # g
    BY <1>1, <1>5, StateFacts
  <2>2. /\ WriteOf(r) \in Knote /\ WriteOf(s) \in Knote /\ ReadOf(g) \in Knote
        /\ WriteOf(s) # WriteOf(r) /\ ReadOf(g) # WriteOf(r)
    BY <1>2, <1>5, <2>1, SidesFacts
  <2>3. Add(cmds, WriteOf(s)) \in [Knote -> Cmd] /\ CgiCmds(s) \in [Knote -> Cmd]
        /\ CgiCmds(s)[WriteOf(r)] = cmds[WriteOf(r)]
    <3>1. /\ Add(cmds, WriteOf(s)) \in [Knote -> Cmd]
          /\ Add(cmds, WriteOf(s))[WriteOf(r)] = cmds[WriteOf(r)]
      BY <1>4, <2>2, OtherFacts
    <3> QED
      BY <1>4, <2>2, <3>1, OtherFacts DEF CgiCmds
  <2>4. cmds'[WriteOf(r)] = cmds[WriteOf(r)]
    BY <1>3, <2>2, <2>3, OtherFacts
  <2>5. client'[r] = client[r]
    BY <1>3, <1>4, <2>1, SMT
  <2>6. WriteOf(r) \in kq' <=> WriteOf(r) \in kq
    BY <1>4, <2>1 DEF WithoutFd, WriteOf
  <2>7. r \in open' <=> r \in open
    BY <1>3, <2>1
  <2> QED
    BY <2>4, <2>5, <2>6, <2>7 DEF Kept
<1>8. ASSUME NEW r \in Fd PROVE Phase(r)' = Phase(r)
  <2>1. r \in clients' <=> r \in clients
    BY <1>4
  <2>2. CASE r = s
    BY <2>2, <1>2, <1>6
  <2>3. CASE r # s
    BY <2>1, <2>3, <1>7, PhaseKept
  <2> QED
    BY <2>2, <2>3
<1> QED
  BY <1>8, StutterFacts DEF Allowed

\* A handler that leaves clients, commands, queue and descriptors alone, and
\* every file_fd as it is.
LEMMA QuietAllowed ==
    ASSUME IInv, UNCHANGED <<open, kq, clients, cmds>>,
           \A s \in Fd : client'[s].fileFd = client[s].fileFd
    PROVE  Allowed
<1>1. ASSUME NEW r \in clients PROVE Kept(r)
  BY StateFacts DEF Kept
<1> QED
  BY <1>1, StillAllowed

\* kevent() applies the commands: what will be registered then is registered.
LEMMA KeventAllowed == IInv /\ Kevent => Allowed
<1> SUFFICES ASSUME IInv, Kevent PROVE Allowed
  OBVIOUS
<1>1. /\ kq' = Applied(kq, cmds, open) /\ cmds' = NoCmds /\ open' = open
      /\ clients' = clients /\ client' = client
  BY DEF Kevent
<1>2. Applied(kq', cmds', open') = Applied(kq, cmds, open)
  BY <1>1, NoCmdsFacts
<1>3. ASSUME NEW r \in Fd PROVE Phase(r)' = Phase(r)
  BY <1>1, <1>2, SMT DEF Phase, Busy
<1> QED
  BY <1>3, StutterFacts DEF Allowed

LEMMA FileGoneAllowed ==
    ASSUME IInv, NEW e \in batch, FileGone(e)
    PROVE  Allowed
<1>1. ASSUME NEW r \in clients PROVE Kept(r)
  <2>1. r # e.fd
    BY DEF FileGone
  <2>2. WriteOf(r) \in kq' <=> WriteOf(r) \in kq
    BY <2>1 DEF FileGone, WithoutFd, WriteOf
  <2> QED
    BY <2>1, <2>2 DEF FileGone, Kept
<1> QED
  BY <1>1, StillAllowed DEF FileGone

LEMMA CgiRunningAllowed ==
    ASSUME IInv, NEW e \in batch, CgiRunning(e)
    PROVE  Allowed
<1>1. e.fd \in Files /\ e.fd \notin clients
  BY DEF CgiRunning, FileReady
<1>2. e.fd \in Fd /\ FileOf(e) = e.fd
  BY <1>1, OwnerPhase
<1>3. /\ cmds \in [Knote -> Cmd] /\ cmds' = Add(cmds, ReadOf(e.fd))
      /\ UNCHANGED <<open, kq, clients, client>>
  BY <1>2 DEF CgiRunning, IInv, TypeOK
<1>4. ASSUME NEW r \in clients PROVE Kept(r)
  <2>1. r \in Fd
    BY StateFacts
  <2>2. WriteOf(r) \in Knote /\ ReadOf(e.fd) \in Knote /\ ReadOf(e.fd) # WriteOf(r)
    BY <1>2, <2>1, SidesFacts
  <2>3. cmds'[WriteOf(r)] = cmds[WriteOf(r)]
    BY <1>3, <2>2, OtherFacts
  <2> QED
    BY <1>3, <2>3 DEF Kept
<1> QED
  BY <1>3, <1>4, StillAllowed

LEMMA SocketAllowed ==
    ASSUME IInv, NEW e \in batch, HandleSocket(e)
    PROVE  Allowed
<1>1. client \in [Fd -> Client] /\ clients \subseteq Fd
  BY DEF IInv, TypeOK
<1>2. CASE ClientGone(e) \/ RecvFail(e) \/ SendFail(e)
  BY <1>2, DropAllowed DEF ClientGone, RecvFail, ClientReadable, SendFail,
                           ClientWritable
<1>3. CASE Accept(e)
  BY <1>3, AcceptAllowed
<1>4. CASE AcceptFail(e) \/ RecvPartial(e)
  BY <1>4, QuietAllowed DEF AcceptFail, RecvPartial
<1>5. CASE AnswerAtOnce(e) \/ DeleteTree(e) \/ NoCgiBody(e)
  <2>1. e.fd \in clients /\ e.filter = "READ"
    BY <1>5 DEF AnswerAtOnce, DeleteTree, NoCgiBody, Received, ClientReadable
  <2>2. e.fd \in Fd /\ client[e.fd] \in Client
    BY <1>1, <2>1
  <2>3. /\ cmds' = Add(Delete(cmds, ReadOf(e.fd)), WriteOf(e.fd))
        /\ clients' = clients /\ kq' = kq /\ open \subseteq open'
    BY <1>5 DEF AnswerAtOnce, DeleteTree, NoCgiBody
  <2>4. PICK c \in Client : /\ client' = [client EXCEPT ![e.fd] = c]
                            /\ c.fileFd = client[e.fd].fileFd
    <3>1. CASE AnswerAtOnce(e) \/ DeleteTree(e)
      BY <2>2, <3>1, RespondFacts DEF AnswerAtOnce, DeleteTree
    <3>2. CASE NoCgiBody(e)
      <4> DEFINE c == [client[e.fd] EXCEPT !.mode = "cgi"]
      <4>1. PICK n \in 1..MaxOut : client' = [client EXCEPT ![e.fd] = Respond(c, n)]
        BY <3>2 DEF NoCgiBody
      <4>2. c \in Client /\ c.fileFd = client[e.fd].fileFd
        BY <2>2, ModeFacts
      <4>3. Respond(c, n) \in Client /\ Respond(c, n).fileFd = client[e.fd].fileFd
        BY <4>2, RespondFacts
      <4> QED
        BY <4>1, <4>3
    <3> QED
      BY <1>5, <3>1, <3>2
  <2>5. client'[e.fd].fileFd = client[e.fd].fileFd
    BY <1>1, <2>2, <2>4
  <2>6. \A r \in clients \ {e.fd} : client'[r] = client[r]
    BY <1>1, <2>4
  <2> QED
    BY <2>1, <2>3, <2>5, <2>6, AnswerAllowed
<1>6. CASE OpenForRead(e) \/ OpenErrorPage(e) \/ OpenUpload(e) \/ OpenCgiBody(e)
  <2>1. client[e.fd] \in Client
    <3>1. e.fd \in clients
      BY <1>6 DEF OpenForRead, OpenErrorPage, OpenUpload, OpenCgiBody, OpenFor,
                  Received, ClientReadable
    <3> QED
      BY <1>1, <3>1
  <2>2. \E f \in Fd \ open, filter \in Filter, c \in Client : OpenFor(e, f, filter, c)
    <3>1. "READ" \in Filter /\ "WRITE" \in Filter
      BY DEF Filter
    <3>2. CASE OpenForRead(e) \/ OpenErrorPage(e)
      BY <2>1, <3>1, <3>2 DEF OpenForRead, OpenErrorPage
    <3>3. CASE OpenUpload(e)
      BY <2>1, <3>1, <3>3, BodyFacts DEF OpenUpload
    <3>4. CASE OpenCgiBody(e)
      BY <2>1, <3>1, <3>4, BodyFacts, ModeFacts DEF OpenCgiBody
    <3> QED
      BY <1>6, <3>2, <3>3, <3>4
  <2> QED
    BY <2>2, OpenForAllowed
<1>7. CASE SendPartial(e)
  <2>1. PICK n \in 1..MaxOut : client' = [client EXCEPT ![e.fd].writeSize = @ + n]
    BY <1>7 DEF SendPartial
  <2>2. \A s \in Fd : client'[s].fileFd = client[s].fileFd
    BY <1>1, <2>1, SMT DEF Client
  <2> QED
    BY <1>7, <2>2, QuietAllowed DEF SendPartial
<1>8. CASE SendAll(e)
  BY <1>8, SendAllAllowed
<1> QED
  BY <1>2, <1>3, <1>4, <1>5, <1>6, <1>7, <1>8 DEF HandleSocket

LEMMA FileAllowed ==
    ASSUME IInv, NEW e \in batch, HandleFile(e)
    PROVE  Allowed
<1>1. client \in [Fd -> Client]
  BY DEF IInv, TypeOK
<1>2. CASE FileGone(e)
  BY <1>2, FileGoneAllowed
<1>3. CASE CgiRunning(e)
  BY <1>3, CgiRunningAllowed
<1>4. CASE ReadMore(e)
  BY <1>4, QuietAllowed DEF ReadMore
<1>5. CASE ReadLast(e) \/ ReadFail(e) \/ UploadDone(e) \/ WriteFail(e)
  <2>1. e.fd \in Files /\ e.fd \notin clients
    BY <1>5 DEF ReadLast, ReadFail, Readable, UploadDone, WriteFail, FileReady
  <2>2. OwnerOf(e) \in Fd
    BY <2>1, OwnerPhase
  <2>3. client[OwnerOf(e)] \in Client /\ Rewound(client[OwnerOf(e)]) \in Client
    BY <1>1, <2>2, RewoundFacts
  <2>4. \E c \in Client : CloseFile(FileOf(e), OwnerOf(e), c)
    <3>1. CASE ReadLast(e)
      BY <2>3, <3>1, RespondFacts DEF ReadLast
    <3>2. CASE ReadFail(e)
      BY <2>3, <3>2 DEF ReadFail
    <3>3. CASE UploadDone(e)
      BY <2>3, <3>3, RespondFacts DEF UploadDone
    <3>4. CASE WriteFail(e)
      BY <2>3, <3>4 DEF WriteFail
    <3> QED
      BY <1>5, <3>1, <3>2, <3>3, <3>4
  <2> QED
    BY <2>1, <2>4, CloseFileAllowed
<1>6. CASE WriteMore(e)
  <2>1. PICK n \in 1..MaxBody :
           client' = [client EXCEPT ![OwnerOf(e)].writeSize = @ + n]
    BY <1>6 DEF WriteMore
  <2>2. \A s \in Fd : client'[s].fileFd = client[s].fileFd
    BY <1>1, <2>1, SMT DEF Client
  <2> QED
    BY <1>6, <2>2, QuietAllowed DEF WriteMore
<1>7. CASE CgiStarted(e)
  BY <1>7, CgiStartedAllowed
<1>8. CASE CgiFailed(e)
  BY <1>8, CgiFailedAllowed
<1> QED
  BY <1>2, <1>3, <1>4, <1>5, <1>6, <1>7, <1>8 DEF HandleFile

LEMMA InitAllowed == Init => Abstract!Init
BY SMT DEF Init, Abstract!Init, Phase

LEMMA NextAllowed == IInv /\ [Next]_vars => [Abstract!Next]_Phases
<1> SUFFICES ASSUME IInv, [Next]_vars PROVE Allowed
  BY DEF Allowed
<1>1. CASE Kevent
  BY <1>1, KeventAllowed
<1>2. ASSUME NEW e \in batch, HandleSocket(e) \/ HandleFile(e) PROVE Allowed
  BY <1>2, SocketAllowed, FileAllowed
<1>3. CASE Environment \/ UNCHANGED vars
  <2>1. UNCHANGED <<open, kq, clients, client, cmds>>
    BY <1>3 DEF Environment, Connect, PeerSend, PeerFin, PeerReset, ChildWrite,
                ChildExit, FileLost, FileCut, ServerVars, vars
  <2> QED
    BY <2>1, QuietAllowed
<1> QED
  BY <1>1, <1>2, <1>3 DEF Next, Server

\* Whatever peers, programs and the kernel do, a connection goes through the
\* phases of Exchange: its requests are answered one at a time, and one that is
\* being served is neither abandoned nor interrupted.
THEOREM ExchangeImplemented == Spec => ImplementsExchange
<1>1. Init => Abstract!Init
  BY InitAllowed
<1>2. IInv /\ [Next]_vars => [Abstract!Next]_Phases
  BY NextAllowed
<1> QED
  BY <1>1, <1>2, Invariance, PTL DEF Spec, ImplementsExchange, Abstract!Spec, Phases
=============================================================================
