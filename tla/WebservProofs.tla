---------------------------- MODULE WebservProofs ----------------------------
(***************************************************************************)
(* IInv is an invariant of the loop, for every number of descriptors,      *)
(* every size of files, bodies and responses, and every set of faults.     *)
(***************************************************************************)
EXTENDS Webserv, FiniteSetTheorems, TLAPS

-----------------------------------------------------------------------------
(***************************************************************************)
(* What one command, one close() and one open() do to the set of pairs     *)
(* that the next kevent() will have registered, and to the commands it     *)
(* will refuse                                                             *)
(***************************************************************************)

\* Pairs are what they seem: a descriptor of Fd and one of two filters.
LEMMA KnoteFacts ==
    /\ \A f \in Fd : <<f, "READ">> \in Knote /\ <<f, "WRITE">> \in Knote
    /\ \A k \in Knote : /\ k[1] \in Fd
                        /\ k = <<k[1], "READ">> \/ k = <<k[1], "WRITE">>
BY SMT DEF Knote, Filter

\* One more EV_ADD on an open descriptor: the pair is registered, nothing else
\* changes, and nothing new is refused.
LEMMA AddFacts ==
    ASSUME NEW q, NEW cs \in [Knote -> Cmd], NEW fds, NEW k \in Knote,
           k[1] \in fds, k \notin Refused(q, cs, fds)
    PROVE  /\ Add(cs, k) \in [Knote -> Cmd]
           /\ Add(cs, k)[k] # "none"
           /\ \A j \in Knote : j # k => Add(cs, k)[j] = cs[j]
           /\ Applied(q, Add(cs, k), fds) = Applied(q, cs, fds) \cup {k}
           /\ Refused(q, Add(cs, k), fds) = Refused(q, cs, fds)
BY SMT DEF Add, Added, Applied, Refused, Cmd

\* One pair is exchanged for another: deletion first, or addition first.
LEMMA SwapFacts ==
    ASSUME NEW q, NEW cs \in [Knote -> Cmd], NEW fds,
           NEW j \in Applied(q, cs, fds), NEW k \in Knote, j # k,
           k[1] \in fds, Refused(q, cs, fds) = {}
    PROVE  /\ Add(Delete(cs, j), k) \in [Knote -> Cmd]
           /\ \A i \in Knote \ {j, k} : Add(Delete(cs, j), k)[i] = cs[i]
           /\ Applied(q, Add(Delete(cs, j), k), fds)
                = (Applied(q, cs, fds) \ {j}) \cup {k}
           /\ Refused(q, Add(Delete(cs, j), k), fds) = {}
BY SMT DEF Add, Added, Delete, Deleted, Applied, Refused, Cmd

LEMMA SwapBackFacts ==
    ASSUME NEW q, NEW cs \in [Knote -> Cmd], NEW fds,
           NEW j \in Applied(q, cs, fds), NEW k \in Knote, j # k,
           k[1] \in fds, Refused(q, cs, fds) = {}
    PROVE  /\ Delete(Add(cs, k), j) \in [Knote -> Cmd]
           /\ \A i \in Knote \ {j, k} : Delete(Add(cs, k), j)[i] = cs[i]
           /\ Applied(q, Delete(Add(cs, k), j), fds)
                = (Applied(q, cs, fds) \ {j}) \cup {k}
           /\ Refused(q, Delete(Add(cs, k), j), fds) = {}
BY SMT DEF Add, Added, Delete, Deleted, Applied, Refused, Cmd

\* A pair that would not be registered is added and deleted again.
LEMMA CancelFacts ==
    ASSUME NEW q, NEW cs \in [Knote -> Cmd], NEW fds, NEW k \in Knote,
           k \notin Applied(q, cs, fds), k[1] \in fds,
           Refused(q, cs, fds) = {}
    PROVE  /\ Delete(Add(cs, k), k) \in [Knote -> Cmd]
           /\ \A i \in Knote \ {k} : Delete(Add(cs, k), k)[i] = cs[i]
           /\ Applied(q, Delete(Add(cs, k), k), fds)
                = Applied(q, cs, fds)
           /\ Refused(q, Delete(Add(cs, k), k), fds) = {}
BY SMT DEF Add, Added, Delete, Deleted, Applied, Refused, Cmd

\* close() of a descriptor with no command waiting takes its pairs away.
LEMMA CloseFacts ==
    ASSUME NEW q, NEW cs \in [Knote -> Cmd], NEW fds, NEW f,
           \A k \in Knote : k[1] = f => cs[k] = "none"
    PROVE  /\ \A k : k \in Applied(WithoutFd(q, f), cs, fds \ {f})
                    <=> k \in Applied(q, cs, fds) /\ k[1] # f
           /\ Refused(q, cs, fds) = {}
                => Refused(WithoutFd(q, f), cs, fds \ {f}) = {}
BY SMT DEF WithoutFd, Applied, Refused

\* With no command waiting the registered pairs are those of the queue.
LEMMA NoCmdsFacts ==
    ASSUME NEW q, NEW cs, NEW fds
    PROVE  /\ NoCmds \in [Knote -> Cmd]
           /\ Applied(Applied(q, cs, fds), NoCmds, fds)
                = Applied(q, cs, fds)
           /\ Refused(Applied(q, cs, fds), NoCmds, fds) = {}
           /\ Applied(q, cs, fds) \subseteq Knote
           /\ \A k \in Applied(q, cs, fds) : k[1] \in fds
BY SMT DEF NoCmds, Applied, Refused, Cmd

-----------------------------------------------------------------------------
(***************************************************************************)
(* The fields of a Client                                                  *)
(***************************************************************************)

\* What the handlers make of one Client is a Client, with the file_fd it had
\* unless that is what they set.
LEMMA FreshFacts == FreshClient \in Client /\ FreshClient.fileFd = NoFd
BY SizeAssumption, SMT DEF Client, FreshClient

LEMMA FileFdFacts ==
    \A c \in Client, f \in Fd \cup {NoFd} :
        [c EXCEPT !.fileFd = f] \in Client /\ [c EXCEPT !.fileFd = f].fileFd = f
BY SMT DEF Client

LEMMA RespondFacts ==
    \A c \in Client, n \in 1..MaxOut :
        Respond(c, n) \in Client /\ Respond(c, n).fileFd = c.fileFd
BY SizeAssumption, SMT DEF Client, Respond

LEMMA BodyFacts ==
    \A c \in Client, n \in 0..MaxBody : [c EXCEPT !.body = n] \in Client
BY SMT DEF Client

LEMMA CursorFacts ==
    \A c \in Client, n \in Nat :
        /\ [c EXCEPT !.writeSize = n] \in Client
        /\ [c EXCEPT !.writeSize = n].fileFd = c.fileFd
BY SMT DEF Client

LEMMA ModeFacts ==
    ASSUME NEW c \in Client
    PROVE  /\ [c EXCEPT !.mode = "cgi"] \in Client
           /\ [c EXCEPT !.mode = "cgi"].fileFd = c.fileFd
BY SMT DEF Client

LEMMA RewoundFacts ==
    \A c \in Client : Rewound(c) \in Client /\ Rewound(c).fileFd = c.fileFd
BY SMT DEF Client, Rewound

\* Facts about the state that every handler starts from.
LEMMA StateFacts ==
    ASSUME IInv
    PROVE  /\ \A k \in Applied(kq, cmds, open) :
                 k \in Knote /\ k[1] \in clients \cup Files /\ k[1] \in open
           /\ \A s \in clients : s \in Fd /\ s \in open
           /\ \A f \in Files : f \in Fd /\ f \in open /\ f \notin clients
           /\ \A f \in Fd \ open :
                 /\ f \notin clients /\ f \notin Files /\ f \notin leaked
                 /\ \A k \in kq : k[1] # f
                 /\ \A k \in Knote : k[1] = f => cmds[k] = "none"
BY KnoteFacts, SMT
DEF IInv, TypeOK, Applied, RegisteredOwned, DescriptorsAccounted, FilesOwned, Files

\* A handler that takes its event and leaves descriptors, maps, queue and
\* commands alone, and every file_fd as it is.
LEMMA Quiet ==
    ASSUME IInv, TypeOK', batch' \subseteq batch,
           UNCHANGED <<open, kq, clients, fileMap, cmds, leaked>>,
           \/ backlog' \in {backlog, backlog + 1}
           \/ \A d \in batch' : d.fd # Listen,
           \A s \in Fd : client'[s].fileFd = client[s].fileFd
    PROVE  IInv'
<1> USE DEF IInv
<1>1. Files' = Files
  BY SMT DEF Files
<1>2. FilesOwned'
  BY <1>1, SMT DEF FilesOwned, Files, TypeOK
<1>3. QuietWhileBusy'
  BY SMT DEF QuietWhileBusy, Busy, TypeOK
<1>4. FreshEvents' /\ PendingUntouched'
  BY <1>1, SMT DEF FreshEvents, PendingUntouched
<1>5. NoSelfError' /\ OneFilter'
  BY SMT DEF NoSelfError, OneFilter
<1>6. DescriptorsAccounted' /\ RegisteredOwned'
  BY <1>1, SMT DEF DescriptorsAccounted, RegisteredOwned
<1>7. ArrivalWaits'
  <2>1. CASE backlog' \in {backlog, backlog + 1}
    BY <2>1, SMT DEF ArrivalWaits, TypeOK
  <2>2. CASE \A d \in batch' : d.fd # Listen
    BY <2>2 DEF ArrivalWaits
  <2> QED
    BY <2>1, <2>2
<1> QED
  BY <1>2, <1>3, <1>4, <1>5, <1>6, <1>7

\* The event in hand is the only one of its descriptor, what it names is still
\* there, and no command waits for it.
LEMMA EventFacts ==
    ASSUME IInv, NEW e \in batch, e.fd # Listen
    PROVE  /\ e.fd \in Fd /\ e.fd \in open /\ e.fd \in clients \cup Files
           /\ <<e.fd, e.filter>> \in kq
           /\ <<e.fd, e.filter>> \in Applied(kq, cmds, open)
           /\ \A k \in Knote : k[1] = e.fd => cmds[k] = "none"
           /\ \A d \in batch : d.fd = e.fd => d = e
<1>1. e.fd \in clients \cup Files /\ <<e.fd, e.filter>> \in kq
  BY SMT DEF IInv, FreshEvents
<1>2. e.fd \in Fd /\ e.fd \in open
  BY <1>1, StateFacts
<1>3. \A k \in Knote : k[1] = e.fd => cmds[k] = "none"
  BY DEF IInv, PendingUntouched
<1>4. \A d \in batch : d.fd = e.fd => d = e
  BY DEF IInv, FreshEvents
<1>5. <<e.fd, e.filter>> \in Applied(kq, cmds, open)
  BY <1>1, <1>2, <1>3, SMT DEF Applied, IInv, TypeOK
<1> QED
  BY <1>1, <1>2, <1>3, <1>4, <1>5

\* A socket is closed: its pairs are no longer registered.
LEMMA DropRegisters ==
    ASSUME IInv, NEW e \in batch, e.fd \in clients, Drop(e.fd)
    PROVE  /\ \A k : k \in Applied(kq', cmds', open')
                     <=> k \in Applied(kq, cmds, open) /\ k[1] # e.fd
           /\ Refused(kq', cmds', open') = {}
<1> DEFINE s == e.fd
<1>2. \A k \in Knote : k[1] = s => cmds[k] = "none"
  BY StateFacts, FdAssumption, EventFacts
<1>3. /\ \A k : k \in Applied(kq', cmds', open')
                <=> k \in Applied(kq, cmds, open) /\ k[1] # s
      /\ Refused(kq', cmds', open') = {}
  <2>1. cmds \in [Knote -> Cmd] /\ Refused(kq, cmds, open) = {}
    BY DEF IInv, TypeOK, NoSelfError
  <2>2. kq' = WithoutFd(kq, s) /\ cmds' = cmds /\ open' = open \ {s}
    BY DEF Drop
  <2> HIDE DEF s
  <2>3. \A k \in Knote : k[1] = s => cmds[k] = "none"
    BY <1>2
  <2>4. /\ \A k : k \in Applied(WithoutFd(kq, s), cmds, open \ {s})
                  <=> k \in Applied(kq, cmds, open) /\ k[1] # s
        /\ Refused(WithoutFd(kq, s), cmds, open \ {s}) = {}
    BY <2>1, <2>3, CloseFacts
  <2> QED
    BY <2>2, <2>4
<1> QED
  BY <1>3

\* A client is erased: it waits on no file, since it has an event.
LEMMA DropKeeps ==
    ASSUME IInv, NEW e \in batch, e.fd \in clients, Handled(e), Drop(e.fd)
    PROVE  IInv'
<1> DEFINE s == e.fd
<1>1. s \in Fd /\ s # Listen
  BY StateFacts, FdAssumption
<1>2. /\ \A k \in Knote : k[1] = s => cmds[k] = "none"
      /\ \A d \in batch : d.fd = s => d = e
  BY <1>1, EventFacts
<1>3. /\ \A k : k \in Applied(kq', cmds', open')
                <=> k \in Applied(kq, cmds, open) /\ k[1] # s
      /\ Refused(kq', cmds', open') = {}
  BY DropRegisters
<1>4. \A f \in Fd : fileMap[f] # s
  BY <1>1, FdAssumption, SMT
  DEF IInv, FilesOwned, QuietWhileBusy, Busy, Files, TypeOK
<1>5. Files' = Files
  BY DEF Files, Drop
<1>6. TypeOK'
  BY <1>1, FreshFacts, SMT
  DEF IInv, TypeOK, Drop, Handled, files, children, WithoutFd
<1>7. FilesOwned'
  BY <1>1, <1>4, <1>5, StateFacts, SMT DEF IInv, FilesOwned, Drop, TypeOK, Files
<1>8. QuietWhileBusy'
  <2>1. \A t \in clients' : t \in clients /\ client'[t] = client[t]
    BY <1>1, SMT DEF IInv, Drop, TypeOK
  <2>2. batch' \subseteq batch
    BY DEF Handled
  <2> QED
    BY <1>3, <2>1, <2>2, SMT DEF IInv, QuietWhileBusy, Busy
<1>9. FreshEvents' /\ PendingUntouched'
  BY <1>1, <1>2, <1>5, SMT
  DEF IInv, FreshEvents, PendingUntouched, Drop, Handled, WithoutFd
<1>10. NoSelfError' /\ OneFilter'
  BY <1>3, SMT DEF IInv, NoSelfError, OneFilter
<1>11. DescriptorsAccounted'
  BY <1>5, StateFacts, SMT DEF IInv, DescriptorsAccounted, Drop
<1>12. RegisteredOwned'
  BY <1>2, <1>5, SMT DEF IInv, RegisteredOwned, Drop, WithoutFd
<1>13. ArrivalWaits'
  BY DEF IInv, ArrivalWaits, Drop, Handled
<1> QED
  BY <1>6, <1>7, <1>8, <1>9, <1>10, <1>11, <1>12, <1>13 DEF IInv

\* The pairs of two descriptors, or of two filters, are different.
LEMMA PairFacts ==
    ASSUME NEW s \in Fd
    PROVE  /\ ReadOf(s) \in Knote /\ ReadOf(s)[1] = s
           /\ WriteOf(s) \in Knote /\ WriteOf(s)[1] = s
           /\ ReadOf(s) # WriteOf(s)
BY KnoteFacts, SMT DEF ReadOf, WriteOf

\* Descriptors that are opened bring nothing registered, and no command.
LEMMA OpenSlots ==
    ASSUME IInv, NEW new \in SUBSET (Fd \ open)
    PROVE  /\ Applied(kq, cmds, open \cup new) = Applied(kq, cmds, open)
           /\ Refused(kq, cmds, open \cup new) = {}
<1>1. /\ \A k \in kq : k[1] \notin new
      /\ \A k \in Knote : k[1] \in new => cmds[k] = "none"
  BY StateFacts
<1>2. Applied(kq, cmds, open \cup new) = Applied(kq, cmds, open)
  BY <1>1, SMT DEF Applied
<1>3. Refused(kq, cmds, open \cup new) = Refused(kq, cmds, open)
  BY <1>1, SMT DEF Refused
<1> QED
  BY <1>2, <1>3 DEF IInv, NoSelfError

LEMMA OpenSlot ==
    ASSUME IInv, NEW f \in Fd \ open
    PROVE  /\ Applied(kq, cmds, open \cup {f}) = Applied(kq, cmds, open)
           /\ Refused(kq, cmds, open \cup {f}) = {}
<1>1. {f} \in SUBSET (Fd \ open)
  OBVIOUS
<1> QED
  BY <1>1, OpenSlots

\* A socket whose event is being handled changes from one filter to the other,
\* with file_fd as it was: a response made at once, or the next request.  Some
\* descriptors may be lost on the way.
LEMMA TurnKeeps ==
    ASSUME IInv, NEW e \in batch, e.fd \in clients, ~Busy(e.fd), Handled(e),
           NEW j \in Knote, NEW k \in Knote, j[1] = e.fd, k[1] = e.fd, j # k,
           NEW lost \in SUBSET (Fd \ open),
           open' = open \cup lost, leaked' = leaked \cup lost,
           TypeOK', client'[e.fd].fileFd = NoFd,
           \A t \in Fd : t # e.fd => client'[t] = client[t],
           \A i \in Knote \ {j, k} : cmds'[i] = cmds[i],
           Applied(kq, cmds', open') = (Applied(kq, cmds, open) \ {j}) \cup {k},
           j \in Applied(kq, cmds, open),
           Refused(kq, cmds', open') = {},
           UNCHANGED <<kq, clients, fileMap, backlog>>
    PROVE  IInv'
<1> DEFINE s == e.fd
<1>1. s \in Fd /\ s # Listen /\ s \in open
  BY StateFacts, FdAssumption
<1>2. \A d \in batch : d.fd = s => d = e
  BY <1>1, EventFacts
<1>3. Files' = Files
  BY DEF Files
<1>4. FilesOwned'
  BY <1>1, <1>3, FdAssumption, SMT DEF IInv, FilesOwned, Busy, Files, TypeOK
<1>5. QuietWhileBusy'
  <2>1. ASSUME NEW t \in clients', Busy(t)' PROVE t \in clients /\ Busy(t) /\ t # s
    BY <1>1, <2>1, SMT DEF Busy, IInv, TypeOK
  <2>2. \A i \in Applied(kq', cmds', open') :
            i \in Applied(kq, cmds, open) \/ i[1] = s
    OBVIOUS
  <2>3. ASSUME NEW t \in clients', Busy(t)' PROVE
          /\ \A i \in Applied(kq', cmds', open') : i[1] # t
          /\ \A d \in batch' : d.fd # t
    <3>1. /\ \A i \in Applied(kq, cmds, open) : i[1] # t
          /\ \A d \in batch : d.fd # t
      BY <2>1, <2>3 DEF IInv, QuietWhileBusy
    <3>2. t # s
      BY <2>1, <2>3
    <3> HIDE DEF s
    <3> QED
      BY <2>2, <3>1, <3>2 DEF Handled
  <2> QED
    BY <2>3 DEF QuietWhileBusy
<1>6. FreshEvents'
  BY <1>3, SMT DEF IInv, FreshEvents, Handled
<1>7. PendingUntouched'
  BY <1>2, SMT DEF IInv, PendingUntouched, Handled
<1>8. NoSelfError' /\ OneFilter'
  <2>1. \A i \in Applied(kq, cmds, open) : i[1] = s => i = j
    BY SMT DEF IInv, OneFilter
  <2>2. \A i \in Applied(kq', cmds', open') :
            i = k \/ (i \in Applied(kq, cmds, open) /\ i[1] # s)
    BY <2>1
  <2>3. \A i, h \in Applied(kq, cmds, open) : i[1] = h[1] => i = h
    BY DEF IInv, OneFilter
  <2>4. k[1] = s
    OBVIOUS
  <2> HIDE DEF s
  <2>5. \A i, h \in Applied(kq', cmds', open') : i[1] = h[1] => i = h
    BY <2>2, <2>3, <2>4
  <2> QED
    BY <2>5 DEF NoSelfError, OneFilter
<1>9. DescriptorsAccounted'
  BY <1>3, StateFacts, SMT DEF IInv, DescriptorsAccounted
<1>10. RegisteredOwned'
  BY <1>1, <1>3, SMT DEF IInv, RegisteredOwned
<1>11. ArrivalWaits'
  BY DEF IInv, ArrivalWaits, Handled
<1> QED
  BY <1>4, <1>5, <1>6, <1>7, <1>8, <1>9, <1>10, <1>11 DEF IInv

\* A response is made at once: the socket is registered for writing, no longer
\* for reading.
LEMMA AnswerRegisters ==
    ASSUME IInv, NEW e \in batch, Received(e),
           cmds' = Add(Delete(cmds, ReadOf(e.fd)), WriteOf(e.fd)),
           NEW lost \in SUBSET (Fd \ open), open' = open \cup lost, kq' = kq
    PROVE  /\ cmds' \in [Knote -> Cmd]
           /\ \A i \in Knote \ {ReadOf(e.fd), WriteOf(e.fd)} : cmds'[i] = cmds[i]
           /\ Applied(kq, cmds', open')
                = (Applied(kq, cmds, open) \ {ReadOf(e.fd)}) \cup {WriteOf(e.fd)}
           /\ Refused(kq, cmds', open') = {}
<1> DEFINE s == e.fd
<1>1. s \in Fd /\ s \in clients /\ s \in open /\ s # Listen /\ e.filter = "READ"
  BY StateFacts, FdAssumption DEF Received, ClientReadable
<1>2. ReadOf(s) \in Applied(kq, cmds, open)
  BY <1>1, EventFacts DEF ReadOf
<1>4. cmds \in [Knote -> Cmd] /\ Refused(kq, cmds, open) = {}
  BY DEF IInv, TypeOK, NoSelfError
<1>5. /\ cmds' \in [Knote -> Cmd]
      /\ \A i \in Knote \ {ReadOf(s), WriteOf(s)} : cmds'[i] = cmds[i]
      /\ Applied(kq, cmds', open')
           = (Applied(kq, cmds, open) \ {ReadOf(s)}) \cup {WriteOf(s)}
      /\ Refused(kq, cmds', open') = {}
  <2> DEFINE next == Add(Delete(cmds, ReadOf(s)), WriteOf(s))
  <2>1. /\ Applied(kq, cmds, open') = Applied(kq, cmds, open)
        /\ Refused(kq, cmds, open') = {}
    BY OpenSlots
  <2>2. /\ WriteOf(s) \in Knote /\ WriteOf(s)[1] \in open'
        /\ ReadOf(s) # WriteOf(s)
    BY <1>1, PairFacts
  <2>3. /\ next \in [Knote -> Cmd]
        /\ \A i \in Knote \ {ReadOf(s), WriteOf(s)} : next[i] = cmds[i]
        /\ Applied(kq, next, open')
             = (Applied(kq, cmds, open') \ {ReadOf(s)}) \cup {WriteOf(s)}
        /\ Refused(kq, next, open') = {}
    <3>1. ReadOf(s) \in Applied(kq, cmds, open')
      BY <1>2, <2>1
    <3>2. Refused(kq, cmds, open') = {} /\ cmds \in [Knote -> Cmd]
      BY <1>4, <2>1
    <3> DEFINE o == open'
    <3>3. /\ ReadOf(s) \in Applied(kq, cmds, o) /\ Refused(kq, cmds, o) = {}
          /\ WriteOf(s)[1] \in o
      BY <2>2, <3>1, <3>2
    <3> HIDE DEF s, o
    <3>4. /\ next \in [Knote -> Cmd]
          /\ \A i \in Knote \ {ReadOf(s), WriteOf(s)} : next[i] = cmds[i]
          /\ Applied(kq, next, o)
               = (Applied(kq, cmds, o) \ {ReadOf(s)}) \cup {WriteOf(s)}
          /\ Refused(kq, next, o) = {}
      BY <2>2, <3>2, <3>3, SwapFacts
    <3> QED
      BY <3>4 DEF o
  <2>4. cmds' = next
    OBVIOUS
  <2> HIDE DEF next
  <2> QED
    BY <2>1, <2>3, <2>4
<1> QED
  BY <1>5

\* A response is made at once; a directory that was deleted costs descriptors.
LEMMA AnswerKeeps ==
    ASSUME IInv, NEW e \in batch, Received(e), NEW c \in Client,
           c.fileFd = client[e.fd].fileFd,
           client' = [client EXCEPT ![e.fd] = c],
           cmds' = Add(Delete(cmds, ReadOf(e.fd)), WriteOf(e.fd)),
           NEW lost \in SUBSET (Fd \ open),
           open' = open \cup lost, leaked' = leaked \cup lost,
           UNCHANGED <<kq, files, peer, got, backlog, children, clients, fileMap>>
    PROVE  IInv'
<1> DEFINE s == e.fd
<1>1. /\ s \in Fd /\ s \in clients /\ s \in open /\ s # Listen /\ Handled(e)
      /\ e.filter = "READ"
  BY StateFacts, FdAssumption DEF Received, ClientReadable
<1>2. ReadOf(s) \in Applied(kq, cmds, open)
  BY <1>1, EventFacts DEF ReadOf
<1>3. ~Busy(s)
  BY <1>1 DEF IInv, QuietWhileBusy
<1>4. cmds \in [Knote -> Cmd] /\ Refused(kq, cmds, open) = {}
  BY DEF IInv, TypeOK, NoSelfError
<1>5. /\ cmds' \in [Knote -> Cmd]
      /\ \A i \in Knote \ {ReadOf(s), WriteOf(s)} : cmds'[i] = cmds[i]
      /\ Applied(kq, cmds', open')
           = (Applied(kq, cmds, open) \ {ReadOf(s)}) \cup {WriteOf(s)}
      /\ Refused(kq, cmds', open') = {}
  BY AnswerRegisters
<1>6. TypeOK'
  <2>1. open' \subseteq Fd /\ leaked' \subseteq Fd
    BY DEF IInv, TypeOK
  <2> QED
    BY <1>1, <1>5, <2>1, SMT DEF IInv, TypeOK, Received, Handled, files, children
<1>7. client'[s].fileFd = NoFd /\ \A t \in Fd : t # s => client'[t] = client[t]
  BY <1>1, <1>3, SMT DEF IInv, TypeOK, Busy
<1>8. /\ ReadOf(s) \in Knote /\ WriteOf(s) \in Knote
      /\ ReadOf(s)[1] = s /\ WriteOf(s)[1] = s /\ ReadOf(s) # WriteOf(s)
  BY <1>1, PairFacts
<1> DEFINE j == ReadOf(s)  k == WriteOf(s)
<1>9. /\ j \in Knote /\ k \in Knote /\ j[1] = e.fd /\ k[1] = e.fd /\ j # k
      /\ j \in Applied(kq, cmds, open)
      /\ \A i \in Knote \ {j, k} : cmds'[i] = cmds[i]
      /\ Applied(kq, cmds', open') = (Applied(kq, cmds, open) \ {j}) \cup {k}
  BY <1>2, <1>5, <1>8
<1>10. /\ client'[e.fd].fileFd = NoFd
       /\ \A t \in Fd : t # e.fd => client'[t] = client[t]
       /\ e.fd \in clients /\ ~Busy(e.fd) /\ Handled(e)
       /\ Refused(kq, cmds', open') = {}
  BY <1>1, <1>3, <1>5, <1>7
<1> HIDE DEF j, k
<1> QED
  BY <1>6, <1>9, <1>10, TurnKeeps

\* A response was sent: the socket is registered for reading again.
LEMMA SendAllRegisters ==
    ASSUME IInv, NEW e \in batch, SendAll(e)
    PROVE  /\ cmds' \in [Knote -> Cmd]
           /\ \A i \in Knote \ {WriteOf(e.fd), ReadOf(e.fd)} : cmds'[i] = cmds[i]
           /\ Applied(kq, cmds', open)
                = (Applied(kq, cmds, open) \ {WriteOf(e.fd)}) \cup {ReadOf(e.fd)}
           /\ Refused(kq, cmds', open) = {}
<1> DEFINE s == e.fd
<1>1. s \in Fd /\ s \in clients /\ s \in open /\ s # Listen /\ e.filter = "WRITE"
  BY StateFacts, FdAssumption DEF SendAll, ClientWritable
<1>2. WriteOf(s) \in Applied(kq, cmds, open)
  BY <1>1, EventFacts DEF WriteOf
<1>3. cmds \in [Knote -> Cmd] /\ Refused(kq, cmds, open) = {}
  BY DEF IInv, TypeOK, NoSelfError
<1>4. cmds' = Delete(Add(cmds, ReadOf(s)), WriteOf(s))
  BY DEF SendAll
<1>5. /\ cmds' \in [Knote -> Cmd]
      /\ \A i \in Knote \ {WriteOf(s), ReadOf(s)} : cmds'[i] = cmds[i]
      /\ Applied(kq, cmds', open)
           = (Applied(kq, cmds, open) \ {WriteOf(s)}) \cup {ReadOf(s)}
      /\ Refused(kq, cmds', open) = {}
  <2> DEFINE next == Delete(Add(cmds, ReadOf(s)), WriteOf(s))
  <2>1. ReadOf(s) \in Knote /\ ReadOf(s)[1] \in open /\ ReadOf(s) # WriteOf(s)
    BY <1>1, PairFacts
  <2>2. /\ next \in [Knote -> Cmd]
        /\ \A i \in Knote \ {WriteOf(s), ReadOf(s)} : next[i] = cmds[i]
        /\ Applied(kq, next, open)
             = (Applied(kq, cmds, open) \ {WriteOf(s)}) \cup {ReadOf(s)}
        /\ Refused(kq, next, open) = {}
    <3> HIDE DEF s
    <3> QED
      BY <1>2, <1>3, <2>1, SwapBackFacts
  <2> QED
    BY <1>4, <2>2
<1> QED
  BY <1>5

\* A response has been sent to its end.
LEMMA SendAllKeeps ==
    ASSUME IInv, NEW e \in batch, SendAll(e)
    PROVE  IInv'
<1> DEFINE s == e.fd
<1>1. /\ s \in Fd /\ s \in clients /\ s \in open /\ s # Listen /\ Handled(e)
      /\ e.filter = "WRITE" /\ ~Busy(s)
  BY StateFacts, FdAssumption DEF SendAll, ClientWritable
<1>2. WriteOf(s) \in Applied(kq, cmds, open)
  BY <1>1, EventFacts DEF WriteOf
<1>3. cmds \in [Knote -> Cmd] /\ Refused(kq, cmds, open) = {}
  BY DEF IInv, TypeOK, NoSelfError
<1>4. cmds' = Delete(Add(cmds, ReadOf(s)), WriteOf(s))
  BY DEF SendAll
<1>5. /\ cmds' \in [Knote -> Cmd]
      /\ \A i \in Knote \ {WriteOf(s), ReadOf(s)} : cmds'[i] = cmds[i]
      /\ Applied(kq, cmds', open)
           = (Applied(kq, cmds, open) \ {WriteOf(s)}) \cup {ReadOf(s)}
      /\ Refused(kq, cmds', open) = {}
  BY SendAllRegisters
<1>6. TypeOK'
  BY <1>1, <1>5, FreshFacts, SMT
  DEF IInv, TypeOK, SendAll, Handled, files, children
<1>7. client'[s].fileFd = NoFd /\ \A t \in Fd : t # s => client'[t] = client[t]
  BY <1>1, FreshFacts, SMT DEF IInv, TypeOK, SendAll
<1>8. UNCHANGED <<open, kq, clients, fileMap, leaked, backlog>>
  BY DEF SendAll
<1>9. /\ {} \in SUBSET (Fd \ open)
      /\ open' = open \cup {} /\ leaked' = leaked \cup {}
  BY <1>8
<1> QED
  BY <1>1, <1>2, <1>5, <1>6, <1>7, <1>8, <1>9, PairFacts, TurnKeeps

\* A file is opened for a request: it is registered, the socket no longer.
LEMMA OpenForRegisters ==
    ASSUME IInv, NEW e \in batch, NEW f \in Fd \ open, NEW filter \in Filter,
           NEW c, OpenFor(e, f, filter, c)
    PROVE  LET k == <<f, filter>> IN
           /\ cmds' \in [Knote -> Cmd]
           /\ \A i \in Knote \ {ReadOf(e.fd), k} : cmds'[i] = cmds[i]
           /\ Applied(kq', cmds', open')
                = (Applied(kq, cmds, open) \ {ReadOf(e.fd)}) \cup {k}
           /\ Refused(kq', cmds', open') = {}
<1> DEFINE s == e.fd
           k == <<f, filter>>
<1>1. s \in Fd /\ s \in clients /\ s # Listen /\ e.filter = "READ" /\ f # s
  BY StateFacts, FdAssumption DEF OpenFor, Received, ClientReadable
<1>2. ReadOf(s) \in Applied(kq, cmds, open)
  BY <1>1, EventFacts DEF ReadOf
<1>3. k \in Knote /\ k[1] = f /\ k # ReadOf(s)
  BY <1>1, SMT DEF Knote, ReadOf
<1>5. open' = open \cup {f} /\ cmds' = Add(Delete(cmds, ReadOf(s)), k) /\ kq' = kq
  BY DEF OpenFor
<1>6. /\ cmds' \in [Knote -> Cmd]
      /\ \A i \in Knote \ {ReadOf(s), k} : cmds'[i] = cmds[i]
      /\ Applied(kq', cmds', open')
           = (Applied(kq, cmds, open) \ {ReadOf(s)}) \cup {k}
      /\ Refused(kq', cmds', open') = {}
  <2> HIDE DEF s, k
  <2>1. cmds \in [Knote -> Cmd] /\ Refused(kq, cmds, open) = {}
    BY DEF IInv, TypeOK, NoSelfError
  <2>2. /\ Applied(kq, cmds, open \cup {f}) = Applied(kq, cmds, open)
        /\ Refused(kq, cmds, open \cup {f}) = {}
    BY OpenSlot
  <2>3. k[1] \in open \cup {f} /\ ReadOf(s) # k /\ k \in Knote
    BY <1>3
  <2>4. ReadOf(s) \in Applied(kq, cmds, open \cup {f})
    BY <1>2, <2>2
  <2> DEFINE next == Add(Delete(cmds, ReadOf(s)), k)
  <2>5. /\ next \in [Knote -> Cmd]
        /\ \A i \in Knote \ {ReadOf(s), k} : next[i] = cmds[i]
        /\ Applied(kq, next, open \cup {f})
             = (Applied(kq, cmds, open \cup {f}) \ {ReadOf(s)}) \cup {k}
        /\ Refused(kq, next, open \cup {f}) = {}
    BY <2>1, <2>2, <2>3, <2>4, SwapFacts
  <2> QED
    BY <1>5, <2>2, <2>5
<1> QED
  BY <1>6

\* A request whose answer needs a file: its socket stops, the file starts.
LEMMA OpenForKeeps ==
    ASSUME IInv, NEW e \in batch, NEW f \in Fd \ open, NEW filter \in Filter,
           NEW c \in Client, OpenFor(e, f, filter, c), left' \in [Fd -> Nat]
    PROVE  IInv'
<1> DEFINE s == e.fd
           k == <<f, filter>>
<1>1. /\ s \in Fd /\ s \in clients /\ s \in open /\ s # Listen /\ Handled(e)
      /\ e.filter = "READ" /\ f # s
  BY StateFacts, FdAssumption DEF OpenFor, Received, ClientReadable
<1>2. ReadOf(s) \in Applied(kq, cmds, open)
  BY <1>1, EventFacts DEF ReadOf
<1>3. k \in Knote /\ k[1] = f /\ k # ReadOf(s)
  BY <1>1, SMT DEF Knote, ReadOf
<1>4. /\ f \notin clients /\ f \notin Files /\ f \notin leaked /\ fileMap[f] = NoFd
      /\ \A i \in kq : i[1] # f
      /\ \A i \in Knote : i[1] = f => cmds[i] = "none"
      /\ \A i \in Applied(kq, cmds, open) : i \in Knote /\ i[1] # f
  BY StateFacts DEF Files
<1>5. open' = open \cup {f} /\ cmds' = Add(Delete(cmds, ReadOf(s)), k) /\ kq' = kq
  BY DEF OpenFor
<1>6. /\ cmds' \in [Knote -> Cmd]
      /\ \A i \in Knote \ {ReadOf(s), k} : cmds'[i] = cmds[i]
      /\ Applied(kq', cmds', open')
           = (Applied(kq, cmds, open) \ {ReadOf(s)}) \cup {k}
      /\ Refused(kq', cmds', open') = {}
  BY OpenForRegisters
<1>7. /\ fileMap' = [fileMap EXCEPT ![f] = s] /\ Files' = Files \cup {f}
  BY <1>1, <1>4, FdAssumption, SMT DEF OpenFor, Inserted, Files, IInv, TypeOK
<1>8. /\ clients' = clients /\ leaked' = leaked
      /\ client'[s].fileFd = f /\ \A t \in Fd : t # s => client'[t] = client[t]
      /\ client' \in [Fd -> Client]
  BY <1>1, FileFdFacts, SMT DEF OpenFor, IInv, TypeOK
<1>9. ~Busy(s)
  BY <1>1 DEF IInv, QuietWhileBusy
<1>10. TypeOK'
  BY <1>1, <1>6, <1>7, <1>8, SMT
  DEF IInv, TypeOK, OpenFor, Received, Handled, children
<1>11. FilesOwned'
  BY <1>1, <1>4, <1>5, <1>7, <1>8, <1>9, FdAssumption, SMT
  DEF IInv, FilesOwned, TypeOK, Files, Busy
<1>12. QuietWhileBusy'
  <2>1. ASSUME NEW t \in clients', Busy(t)', t # s PROVE Busy(t) /\ t \in clients
    BY <1>8, <2>1, SMT DEF Busy, IInv, TypeOK
  <2>2. \A d \in batch' : d \in batch /\ d.fd # s
    BY <1>1, EventFacts DEF Handled
  <2>3. \A i \in Applied(kq', cmds', open') : i[1] # s
    <3>1. \A i \in Applied(kq, cmds, open) : i # ReadOf(s) => i[1] # s
      BY <1>1, <1>2, PairFacts DEF IInv, OneFilter
    <3> QED
      BY <1>1, <1>3, <1>6, <3>1
  <2>4. ASSUME NEW t \in clients, Busy(t), t # s
        PROVE  \A i \in Applied(kq', cmds', open') : i[1] # t
    <3>1. \A i \in Applied(kq, cmds, open) : i[1] # t
      BY <2>4 DEF IInv, QuietWhileBusy
    <3> QED
      BY <1>3, <1>4, <1>6, <2>4, <3>1
  <2>5. \A t \in clients : Busy(t) => \A d \in batch : d.fd # t
    BY DEF IInv, QuietWhileBusy
  <2> QED
    BY <2>1, <2>2, <2>3, <2>4, <2>5 DEF QuietWhileBusy
<1>13. FreshEvents'
  BY <1>5, <1>7, <1>8, <1>1, SMT DEF IInv, FreshEvents, Handled
<1>14. PendingUntouched'
  <2>1. \A d \in batch' : d \in batch /\ d.fd # s
    BY <1>1, EventFacts DEF Handled
  <2>2. \A d \in batch' : d.fd # f
    BY <1>4, <1>1, FdAssumption DEF IInv, FreshEvents, Handled
  <2>3. \A d \in batch' : \A i \in Knote : i[1] = d.fd => i # ReadOf(s) /\ i # k
    BY <1>1, <1>3, <2>1, <2>2, PairFacts
  <2> QED
    BY <1>6, <2>1, <2>3 DEF IInv, PendingUntouched
<1>15. NoSelfError' /\ OneFilter'
  <2>1. \A i \in Applied(kq, cmds, open) : i[1] # k[1]
    BY <1>3, <1>4
  <2>2. NoSelfError'
    BY <1>6 DEF NoSelfError
  <2>3. OneFilter'
    <3> HIDE DEF k
    <3> QED
      BY <1>6, <2>1 DEF IInv, OneFilter
  <2> QED
    BY <2>2, <2>3
<1>16. DescriptorsAccounted'
  BY <1>4, <1>5, <1>7, <1>8, SMT DEF IInv, DescriptorsAccounted
<1>17. RegisteredOwned'
  <2>1. \A i \in Knote : i[1] = s \/ i[1] = f \/ cmds'[i] = cmds[i]
    BY <1>1, <1>3, <1>6, PairFacts
  <2> QED
    BY <1>1, <1>5, <1>7, <1>8, <2>1, SMT DEF IInv, RegisteredOwned
<1>18. ArrivalWaits'
  BY <1>1 DEF IInv, ArrivalWaits, Handled, OpenFor
<1> QED
  BY <1>10, <1>11, <1>12, <1>13, <1>14, <1>15, <1>16, <1>17, <1>18 DEF IInv

\* The file of an event: its owner waits on it, and on nothing else.
LEMMA FileFacts ==
    ASSUME IInv, NEW e \in batch, e.fd \in Files
    PROVE  /\ e.fd \in Fd /\ e.fd \in open /\ e.fd # Listen
           /\ e.fd \notin clients /\ e.fd \notin leaked
           /\ OwnerOf(e) \in clients /\ OwnerOf(e) \in Fd /\ OwnerOf(e) \in open
           /\ OwnerOf(e) # e.fd /\ FileOf(e) = e.fd /\ Busy(OwnerOf(e))
           /\ \A k \in Applied(kq, cmds, open) : k[1] # OwnerOf(e)
           /\ \A d \in batch : d.fd # OwnerOf(e)
           /\ \A d \in batch : d.fd = e.fd => d = e
           /\ \A k \in Knote : k[1] = e.fd => cmds[k] = "none"
<1>1. /\ e.fd \in Fd /\ e.fd \in open /\ e.fd # Listen /\ e.fd \notin clients
      /\ e.fd \notin leaked
  BY StateFacts, FdAssumption DEF IInv, DescriptorsAccounted
<1>2. OwnerOf(e) \in clients /\ FileOf(e) = e.fd
  BY <1>1 DEF IInv, FilesOwned, OwnerOf, FileOf
<1>3. OwnerOf(e) \in Fd /\ OwnerOf(e) \in open /\ OwnerOf(e) # e.fd
  BY <1>1, <1>2, StateFacts
<1>4. Busy(OwnerOf(e))
  BY <1>1, <1>2, FdAssumption DEF Busy, FileOf
<1>5. /\ \A k \in Applied(kq, cmds, open) : k[1] # OwnerOf(e)
      /\ \A d \in batch : d.fd # OwnerOf(e)
  BY <1>2, <1>4 DEF IInv, QuietWhileBusy
<1>6. /\ \A d \in batch : d.fd = e.fd => d = e
      /\ \A k \in Knote : k[1] = e.fd => cmds[k] = "none"
  BY <1>1, EventFacts
<1> QED
  BY <1>1, <1>2, <1>3, <1>4, <1>5, <1>6

\* A file is finished: the socket of its owner is registered in its place.
LEMMA CloseFileRegisters ==
    ASSUME IInv, NEW e \in batch, e.fd \in Files, NEW c,
           CloseFile(FileOf(e), OwnerOf(e), c)
    PROVE  /\ cmds' \in [Knote -> Cmd]
           /\ \A i \in Knote \ {WriteOf(OwnerOf(e))} : cmds'[i] = cmds[i]
           /\ \A i : i \in Applied(kq', cmds', open')
                     <=> \/ i \in Applied(kq, cmds, open) /\ i[1] # e.fd
                         \/ i = WriteOf(OwnerOf(e))
           /\ Refused(kq', cmds', open') = {}
<1> DEFINE f == e.fd
           s == OwnerOf(e)
           k == WriteOf(s)
<1>1. s \in Fd /\ s \in open /\ s # f /\ FileOf(e) = f
  BY FileFacts
<1>2. \A i \in Knote : i[1] = f => cmds[i] = "none"
  BY FileFacts
<1>3. k \in Knote /\ k[1] = s
  BY <1>1, PairFacts
<1>4. open' = open \ {f} /\ cmds' = Add(cmds, k) /\ kq' = WithoutFd(kq, f)
  BY <1>1 DEF CloseFile
<1>5. /\ cmds' \in [Knote -> Cmd]
      /\ \A i \in Knote \ {k} : cmds'[i] = cmds[i]
      /\ \A i : i \in Applied(kq', cmds', open')
                <=> (i \in Applied(kq, cmds, open) /\ i[1] # f) \/ i = k
      /\ Refused(kq', cmds', open') = {}
  <2> HIDE DEF f, s, k
  <2> DEFINE q == WithoutFd(kq, f)
             o == open \ {f}
  <2>1. cmds \in [Knote -> Cmd] /\ Refused(kq, cmds, open) = {}
    BY DEF IInv, TypeOK, NoSelfError
  <2>2. /\ \A i : i \in Applied(q, cmds, o)
                  <=> i \in Applied(kq, cmds, open) /\ i[1] # f
        /\ Refused(q, cmds, o) = {}
    <3>1. \A i \in Knote : i[1] = f => cmds[i] = "none"
      BY <1>2
    <3> QED
      BY <2>1, <3>1, CloseFacts
  <2>3. k[1] \in o
    BY <1>1, <1>3
  <2>4. /\ Add(cmds, k) \in [Knote -> Cmd]
        /\ \A i \in Knote : i # k => Add(cmds, k)[i] = cmds[i]
        /\ Applied(q, Add(cmds, k), o) = Applied(q, cmds, o) \cup {k}
        /\ Refused(q, Add(cmds, k), o) = Refused(q, cmds, o)
    <3> HIDE DEF q, o
    <3> QED
      BY <1>3, <2>1, <2>2, <2>3, AddFacts
  <2> QED
    BY <1>4, <2>2, <2>4
<1> QED
  BY <1>5

\* A file is finished: it is closed and its owner's socket is armed.
LEMMA CloseFileKeeps ==
    ASSUME IInv, NEW e \in batch, e.fd \in Files, Handled(e), NEW c \in Client,
           CloseFile(FileOf(e), OwnerOf(e), c),
           child' \in [Fd -> {"none", "running", "exited"}]
    PROVE  IInv'
<1> DEFINE f == e.fd
           s == OwnerOf(e)
           k == WriteOf(s)
<1>1. /\ f \in Fd /\ f \in open /\ f # Listen /\ f \notin clients /\ f \notin leaked
      /\ s \in clients /\ s \in Fd /\ s \in open /\ s # f /\ FileOf(e) = f
  BY FileFacts
<1>2. /\ \A i \in Applied(kq, cmds, open) : i[1] # s
      /\ \A d \in batch : d.fd # s
      /\ \A d \in batch : d.fd = f => d = e
      /\ \A i \in Knote : i[1] = f => cmds[i] = "none"
  BY FileFacts
<1>3. k \in Knote /\ k[1] = s
  BY <1>1, PairFacts
<1>4. /\ open' = open \ {f} /\ cmds' = Add(cmds, k) /\ kq' = WithoutFd(kq, f)
      /\ clients' = clients /\ leaked' = leaked
      /\ fileMap' = [fileMap EXCEPT ![f] = NoFd]
      /\ client' = [client EXCEPT ![s] = [c EXCEPT !.fileFd = NoFd]]
  BY <1>1 DEF CloseFile
<1>5. /\ cmds' \in [Knote -> Cmd]
      /\ \A i \in Knote \ {k} : cmds'[i] = cmds[i]
      /\ \A i : i \in Applied(kq', cmds', open')
                <=> (i \in Applied(kq, cmds, open) /\ i[1] # f) \/ i = k
      /\ Refused(kq', cmds', open') = {}
  BY CloseFileRegisters
<1>6. Files' = Files \ {f}
  BY <1>1, <1>4, SMT DEF Files, IInv, TypeOK
<1>7. /\ client'[s].fileFd = NoFd /\ \A t \in Fd : t # s => client'[t] = client[t]
      /\ client' \in [Fd -> Client]
  <2> DEFINE d == [c EXCEPT !.fileFd = NoFd]
  <2>1. d \in Client /\ d.fileFd = NoFd
    BY FileFdFacts
  <2>2. client \in [Fd -> Client] /\ client' = [client EXCEPT ![s] = d]
    BY <1>4 DEF IInv, TypeOK
  <2> HIDE DEF d, s
  <2> QED
    BY <1>1, <2>1, <2>2
<1>8. TypeOK'
  <2>1. left' \in [Fd -> Nat] /\ broken' \subseteq Fd
    <3>1. /\ left' = [left EXCEPT ![FileOf(e)] = 0]
          /\ broken' = broken \ {FileOf(e)}
      BY DEF CloseFile
    <3> QED
      BY <3>1 DEF IInv, TypeOK
  <2>2. UNCHANGED <<network, childOut>> /\ batch' \subseteq batch
    BY DEF CloseFile, Handled
  <2>3. kq' \subseteq kq /\ fileMap' \in [Fd -> Fd \cup {NoFd}]
    BY <1>4 DEF IInv, TypeOK, WithoutFd
  <2> QED
    BY <1>4, <1>5, <1>7, <2>1, <2>2, <2>3, SMT DEF IInv, TypeOK, network
<1>9. FilesOwned'
  <2> SUFFICES ASSUME NEW g \in Files, g # f
               PROVE  /\ fileMap'[g] \in clients' /\ client'[fileMap'[g]].fileFd = g
                      /\ g \in open' /\ g \notin clients'
    BY <1>6 DEF FilesOwned
  <2>1. g \in Fd /\ fileMap'[g] = fileMap[g]
    BY <1>4 DEF IInv, TypeOK, Files
  <2>2. /\ fileMap[g] \in clients /\ client[fileMap[g]].fileFd = g
        /\ g \in open /\ g \notin clients
    BY DEF IInv, FilesOwned
  <2>3. fileMap[g] # s
    BY <1>1, <2>2 DEF FileOf
  <2>4. fileMap[g] \in Fd
    BY <2>2 DEF IInv, TypeOK
  <2> QED
    BY <1>4, <1>7, <2>1, <2>2, <2>3, <2>4
<1>10. QuietWhileBusy'
  <2>1. ASSUME NEW t \in clients', Busy(t)' PROVE t \in clients /\ Busy(t) /\ t # s
    BY <1>1, <1>4, <1>7, <2>1, SMT DEF Busy, IInv, TypeOK
  <2> QED
    BY <1>3, <1>5, <2>1, SMT DEF IInv, QuietWhileBusy, Handled
<1>11. FreshEvents'
  BY <1>2, <1>4, <1>6, SMT DEF IInv, FreshEvents, Handled, WithoutFd
<1>12. PendingUntouched'
  BY <1>2, <1>3, <1>5, SMT DEF IInv, PendingUntouched, Handled
<1>13. NoSelfError' /\ OneFilter'
  <2> HIDE DEF k, s, f
  <2> QED
    BY <1>2, <1>3, <1>5, SMT DEF IInv, NoSelfError, OneFilter
<1>14. DescriptorsAccounted'
  BY <1>1, <1>4, <1>6, SMT DEF IInv, DescriptorsAccounted
<1>15. RegisteredOwned'
  <2>1. \A i \in kq' : i[1] \in clients' \cup Files'
    BY <1>4, <1>6, SMT DEF IInv, RegisteredOwned, WithoutFd
  <2>2. ASSUME NEW i \in Knote, cmds'[i] # "none"
        PROVE  i[1] \in clients' \cup Files'
    <3>1. CASE i = k
      BY <1>1, <1>3, <1>4, <3>1
    <3>2. CASE i # k
      BY <1>2, <1>4, <1>5, <1>6, <2>2, <3>2 DEF IInv, RegisteredOwned
    <3> QED
      BY <3>1, <3>2
  <2> QED
    BY <2>1, <2>2 DEF RegisteredOwned
<1>16. ArrivalWaits'
  BY DEF IInv, ArrivalWaits, Handled, CloseFile, network
<1> QED
  BY <1>8, <1>9, <1>10, <1>11, <1>12, <1>13, <1>14, <1>15, <1>16 DEF IInv

\* An event that is bad, or on a file, is not the listening socket's.
LEMMA ListenFacts ==
    ASSUME IInv, NEW e \in batch, e.flags = "bad" \/ e.filter = "WRITE"
    PROVE  e.fd # Listen
BY SMT DEF IInv, ArrivalWaits, Arrival

\* A file is lost: its pairs are no longer registered.
LEMMA FileGoneRegisters ==
    ASSUME IInv, NEW e \in batch, e.fd \in Files, FileGone(e)
    PROVE  /\ \A i : i \in Applied(kq', cmds', open')
                     <=> i \in Applied(kq, cmds, open) /\ i[1] # e.fd
           /\ Refused(kq', cmds', open') = {}
<1> DEFINE f == e.fd
<1>3. \A i \in Knote : i[1] = f => cmds[i] = "none"
  BY FileFacts
<1>4. open' = open \ {f} /\ kq' = WithoutFd(kq, f) /\ cmds' = cmds
  BY DEF FileGone
<1>5. /\ \A i : i \in Applied(kq', cmds', open')
                <=> i \in Applied(kq, cmds, open) /\ i[1] # f
      /\ Refused(kq', cmds', open') = {}
  <2>1. cmds \in [Knote -> Cmd] /\ Refused(kq, cmds, open) = {}
    BY DEF IInv, TypeOK, NoSelfError
  <2>2. \A i \in Knote : i[1] = f => cmds[i] = "none"
    BY <1>3
  <2>3. /\ \A i : i \in Applied(WithoutFd(kq, f), cmds, open \ {f})
                  <=> i \in Applied(kq, cmds, open) /\ i[1] # f
        /\ Refused(WithoutFd(kq, f), cmds, open \ {f}) = {}
    <3> HIDE DEF f
    <3> QED
      BY <2>1, <2>2, CloseFacts
  <2> QED
    BY <1>4, <2>3
<1> QED
  BY <1>5

\* A file is lost: it is closed, and its owner goes on waiting.
LEMMA FileGoneKeeps ==
    ASSUME IInv, NEW e \in batch, FileGone(e)
    PROVE  IInv'
<1> DEFINE f == e.fd
<1>1. e.flags = "bad" /\ f \notin clients /\ Handled(e)
  BY DEF FileGone
<1>2. f # Listen /\ f \in Files
  BY <1>1, ListenFacts DEF IInv, FreshEvents
<1>3. /\ f \in Fd /\ f \in open /\ f \notin leaked
      /\ \A d \in batch : d.fd = f => d = e
      /\ \A i \in Knote : i[1] = f => cmds[i] = "none"
  BY <1>2, FileFacts
<1>4. /\ open' = open \ {f} /\ kq' = WithoutFd(kq, f)
      /\ fileMap' = [fileMap EXCEPT ![f] = NoFd]
      /\ left' = [left EXCEPT ![f] = 0] /\ broken' = broken \ {f}
      /\ UNCHANGED <<network, children, clients, client, cmds, leaked>>
  BY DEF FileGone
<1>5. /\ \A i : i \in Applied(kq', cmds', open')
                <=> i \in Applied(kq, cmds, open) /\ i[1] # f
      /\ Refused(kq', cmds', open') = {}
  BY <1>2, FileGoneRegisters
<1>6. Files' = Files \ {f}
  BY <1>3, <1>4, SMT DEF Files, IInv, TypeOK
<1>7. TypeOK'
  <2>1. left' \in [Fd -> Nat] /\ broken' \subseteq Fd
    BY <1>4 DEF IInv, TypeOK
  <2>2. kq' \subseteq kq /\ fileMap' \in [Fd -> Fd \cup {NoFd}] /\ batch' \subseteq batch
    BY <1>1, <1>4 DEF IInv, TypeOK, WithoutFd, Handled
  <2> QED
    BY <1>4, <2>1, <2>2, SMT DEF IInv, TypeOK, network, children
<1>8. FilesOwned'
  BY <1>3, <1>4, <1>6, SMT DEF IInv, FilesOwned, TypeOK, Files
<1>9. QuietWhileBusy'
  BY <1>1, <1>4, <1>5 DEF IInv, QuietWhileBusy, Busy, Handled
<1>10. FreshEvents'
  BY <1>1, <1>3, <1>4, <1>6, SMT DEF IInv, FreshEvents, Handled, WithoutFd
<1>11. PendingUntouched' /\ ArrivalWaits'
  BY <1>1, <1>4 DEF IInv, PendingUntouched, ArrivalWaits, Handled, network
<1>12. NoSelfError' /\ OneFilter'
  BY <1>5 DEF IInv, NoSelfError, OneFilter
<1>13. DescriptorsAccounted'
  BY <1>1, <1>3, <1>4, <1>6, SMT DEF IInv, DescriptorsAccounted
<1>14. RegisteredOwned'
  BY <1>3, <1>4, <1>6, SMT DEF IInv, RegisteredOwned, WithoutFd
<1> QED
  BY <1>7, <1>8, <1>9, <1>10, <1>11, <1>12, <1>13, <1>14 DEF IInv

\* A connection is accepted: its socket is registered for reading.
LEMMA AcceptRegisters ==
    ASSUME IInv, NEW s \in Fd \ open, open' = open \cup {s}, kq' = kq,
           cmds' = Add(cmds, ReadOf(s))
    PROVE  /\ cmds' \in [Knote -> Cmd]
           /\ \A i \in Knote : i # ReadOf(s) => cmds'[i] = cmds[i]
           /\ Applied(kq', cmds', open') = Applied(kq, cmds, open) \cup {ReadOf(s)}
           /\ Refused(kq', cmds', open') = {}
<1> DEFINE k == ReadOf(s)
<1>0. open' = open \cup {s} /\ cmds' = Add(cmds, k)
  OBVIOUS
<1>1. kq' = kq
  OBVIOUS
<1>3. k \in Knote /\ k[1] = s
  BY PairFacts
<1>4. /\ cmds' \in [Knote -> Cmd]
      /\ \A i \in Knote : i # k => cmds'[i] = cmds[i]
      /\ Applied(kq', cmds', open') = Applied(kq, cmds, open) \cup {k}
      /\ Refused(kq', cmds', open') = {}
  <2> DEFINE o == open \cup {s}
  <2>1. cmds \in [Knote -> Cmd] /\ Refused(kq, cmds, open) = {}
    BY DEF IInv, TypeOK, NoSelfError
  <2>2. Applied(kq, cmds, o) = Applied(kq, cmds, open) /\ Refused(kq, cmds, o) = {}
    BY OpenSlot
  <2>3. /\ Add(cmds, k) \in [Knote -> Cmd]
        /\ \A i \in Knote : i # k => Add(cmds, k)[i] = cmds[i]
        /\ Applied(kq, Add(cmds, k), o) = Applied(kq, cmds, o) \cup {k}
        /\ Refused(kq, Add(cmds, k), o) = Refused(kq, cmds, o)
    <3>1. k[1] \in o
      BY <1>3
    <3> HIDE DEF k, o
    <3> QED
      BY <1>3, <2>1, <2>2, <3>1, AddFacts
  <2> QED
    BY <1>0, <1>1, <2>2, <2>3
<1> QED
  BY <1>4

\* A connection is accepted on a descriptor that nothing else names.
LEMMA AcceptKeeps ==
    ASSUME IInv, NEW e \in batch, Accept(e)
    PROVE  IInv'
<1>0. PICK s \in Fd \ open :
          /\ open' = open \cup {s}
          /\ clients' = clients \cup {s}
          /\ client' = [client EXCEPT ![s] = FreshClient]
          /\ peer' = [peer EXCEPT ![s] = "up"]
          /\ cmds' = Add(cmds, ReadOf(s))
  BY DEF Accept
<1> DEFINE k == ReadOf(s)
<1>1. /\ e.fd = Listen /\ Handled(e) /\ backlog' = backlog - 1
      /\ UNCHANGED <<kq, files, inq, got, children, fileMap, leaked>>
  BY DEF Accept
<1>2. /\ s \in Fd /\ s # Listen
      /\ s \notin clients /\ s \notin Files /\ s \notin leaked
      /\ \A i \in kq : i[1] # s
      /\ \A i \in Knote : i[1] = s => cmds[i] = "none"
      /\ \A i \in Applied(kq, cmds, open) : i \in Knote /\ i[1] # s
  BY StateFacts, FdAssumption
<1>3. k \in Knote /\ k[1] = s
  BY <1>2, PairFacts
<1>4. /\ cmds' \in [Knote -> Cmd]
      /\ \A i \in Knote : i # k => cmds'[i] = cmds[i]
      /\ Applied(kq', cmds', open') = Applied(kq, cmds, open) \cup {k}
      /\ Refused(kq', cmds', open') = {}
  BY <1>0, <1>1, AcceptRegisters
<1>5. Files' = Files
  BY <1>1 DEF Files
<1>6. /\ client'[s].fileFd = NoFd /\ \A t \in Fd : t # s => client'[t] = client[t]
      /\ client' \in [Fd -> Client]
  BY <1>0, <1>2, FreshFacts, SMT DEF IInv, TypeOK
<1>7. backlog > 0 /\ \A d \in batch' : d \in batch /\ d.fd # Listen
  BY <1>1 DEF IInv, ArrivalWaits, Handled
<1>8. TypeOK'
  <2>1. backlog' \in 0..MaxConns
    BY <1>1, <1>7, SizeAssumption, SMT DEF IInv, TypeOK
  <2>2. peer' \in [Fd -> {"none", "up", "fin", "reset"}]
    BY <1>0 DEF IInv, TypeOK
  <2>3. clients' \subseteq Fd /\ open' \subseteq Fd /\ batch' \subseteq batch
    BY <1>0, <1>1, <1>2 DEF IInv, TypeOK, Handled
  <2> QED
    BY <1>1, <1>4, <1>6, <2>1, <2>2, <2>3, SMT
    DEF IInv, TypeOK, files, children
<1>9. FilesOwned'
  BY <1>0, <1>1, <1>2, <1>5, <1>6, SMT DEF IInv, FilesOwned, TypeOK, Files
<1>10. QuietWhileBusy'
  <2>1. ASSUME NEW t \in clients', Busy(t)' PROVE t \in clients /\ Busy(t) /\ t # s
    BY <1>0, <1>2, <1>6, <2>1, SMT DEF Busy, IInv, TypeOK
  <2> QED
    BY <1>3, <1>4, <1>7, <2>1 DEF IInv, QuietWhileBusy
<1>11. FreshEvents'
  BY <1>0, <1>1, <1>5, <1>7 DEF IInv, FreshEvents
<1>12. PendingUntouched'
  <2>1. \A d \in batch' : d.fd # s
    BY <1>2, <1>7 DEF IInv, FreshEvents
  <2> QED
    BY <1>3, <1>4, <1>7, <2>1 DEF IInv, PendingUntouched
<1>13. NoSelfError' /\ OneFilter'
  <2>1. NoSelfError'
    BY <1>4 DEF NoSelfError
  <2>2. OneFilter'
    BY <1>0, <1>2, <1>3, <1>4 DEF IInv, OneFilter
  <2> QED
    BY <2>1, <2>2
<1>14. DescriptorsAccounted'
  BY <1>0, <1>1, <1>2, <1>5, SMT DEF IInv, DescriptorsAccounted
<1>15. RegisteredOwned'
  BY <1>0, <1>1, <1>3, <1>4, <1>5, SMT DEF IInv, RegisteredOwned
<1>16. ArrivalWaits'
  BY <1>7 DEF ArrivalWaits
<1> QED
  BY <1>8, <1>9, <1>10, <1>11, <1>12, <1>13, <1>14, <1>15, <1>16 DEF IInv

\* kevent() applies what is waiting and reports each descriptor at most once.
LEMMA KeventKeeps ==
    ASSUME IInv, Kevent
    PROVE  IInv'
<1> DEFINE A == Applied(kq, cmds, open)
<1>1. /\ kq' = A /\ cmds' = NoCmds /\ open' = open
      /\ UNCHANGED <<open, files, network, children, clients, client, fileMap, leaked>>
  BY DEF Kevent
<1>2. /\ \A d \in batch' : \/ \E k \in A : d = EventOf(k)
                           \/ d = Arrival /\ backlog > 0
  <2>1. Refused(kq, cmds, open) = {}
    BY DEF IInv, NoSelfError
  <2>2. PICK quiet \in SUBSET kq' :
           batch' = {EventOf(k) : k \in {j \in kq' \ quiet : Ready(j)}}
                    \cup {a \in {Arrival} : backlog > 0}
    BY <2>1 DEF Kevent
  <2> QED
    BY <1>1, <2>2
<1>3. /\ \A k \in A : /\ k \in Knote /\ k[1] \in Fd /\ k[2] \in Filter
                      /\ k = <<k[1], k[2]>> /\ k[1] \in clients \cup Files
                      /\ k[1] # Listen
      /\ \A k \in A : EventOf(k).fd = k[1] /\ EventOf(k).filter = k[2]
  <2>1. \A k \in A : k \in Knote /\ k[1] \in clients \cup Files
    BY StateFacts
  <2>2. \A k \in Knote : k[1] \in Fd /\ k[2] \in Filter /\ k = <<k[1], k[2]>>
    BY SMT DEF Knote
  <2> QED
    BY <2>1, <2>2, FdAssumption DEF EventOf
<1>4. /\ Applied(kq', cmds', open') = A /\ Refused(kq', cmds', open') = {}
      /\ cmds' \in [Knote -> Cmd]
  BY <1>1, NoCmdsFacts
<1>5. Files' = Files
  BY <1>1 DEF Files
<1>6. TypeOK'
  <2>1. batch' \subseteq Event
    <3>1. Arrival \in Event
      BY DEF Arrival, Event, Filter
    <3>2. ASSUME NEW k \in A PROVE EventOf(k) \in Event
      BY <1>3 DEF EventOf, Event
    <3> QED
      BY <1>2, <3>1, <3>2
  <2>2. kq' \subseteq Knote
    BY <1>1, <1>3
  <2> QED
    BY <1>1, <1>4, <2>1, <2>2, SMT
    DEF IInv, TypeOK, files, network, children
<1>7. FilesOwned'
  BY <1>1, <1>5 DEF IInv, FilesOwned
<1>8. QuietWhileBusy'
  <2>1. ASSUME NEW t \in clients, Busy(t)
        PROVE  (\A k \in A : k[1] # t) /\ t # Listen
    BY <2>1, FdAssumption DEF IInv, QuietWhileBusy, TypeOK
  <2>2. \A t \in clients : Busy(t)' <=> Busy(t)
    BY <1>1 DEF Busy
  <2>3. ASSUME NEW t \in clients, Busy(t), NEW d \in batch' PROVE d.fd # t
    <3>1. CASE d = Arrival
      BY <2>1, <2>3, <3>1 DEF Arrival
    <3>2. CASE \E k \in A : d = EventOf(k)
      BY <1>3, <2>1, <2>3, <3>2
    <3> QED
      BY <1>2, <3>1, <3>2
  <2> QED
    BY <1>1, <1>4, <2>1, <2>2, <2>3 DEF QuietWhileBusy
<1>9. FreshEvents'
  <2> SUFFICES ASSUME NEW d \in batch', d.fd # Listen
               PROVE  /\ <<d.fd, d.filter>> \in kq'
                      /\ d.fd \in clients' \cup Files'
                      /\ \A b \in batch' : b.fd = d.fd => b = d
    BY DEF FreshEvents
  <2>1. PICK k \in A : d = EventOf(k)
    BY <1>2 DEF Arrival
  <2>2. d.fd = k[1] /\ d.filter = k[2]
    BY <1>3, <2>1
  <2>3. ASSUME NEW b \in batch', b.fd = d.fd PROVE b = d
    <3>1. PICK j \in A : b = EventOf(j)
      BY <1>2, <2>3 DEF Arrival
    <3>2. j[1] = k[1]
      BY <1>3, <2>2, <2>3, <3>1
    <3>3. j = k
      BY <3>2 DEF IInv, OneFilter
    <3> QED
      BY <2>1, <3>1, <3>3
  <2> QED
    BY <1>1, <1>3, <1>5, <2>2, <2>3
<1>10. PendingUntouched'
  BY <1>1 DEF PendingUntouched, NoCmds
<1>11. NoSelfError' /\ OneFilter'
  BY <1>4 DEF IInv, NoSelfError, OneFilter
<1>12. DescriptorsAccounted'
  BY <1>1, <1>5 DEF IInv, DescriptorsAccounted
<1>13. RegisteredOwned'
  BY <1>1, <1>3, <1>5 DEF RegisteredOwned, NoCmds
<1>14. ArrivalWaits'
  <2>1. \A d \in batch' : d.fd = Listen => d = Arrival /\ backlog > 0
    BY <1>2, <1>3
  <2> QED
    BY <1>1, <2>1 DEF ArrivalWaits, Arrival, network
<1> QED
  BY <1>6, <1>7, <1>8, <1>9, <1>10, <1>11, <1>12, <1>13, <1>14 DEF IInv

\* The child still runs: what is registered stays so.
LEMMA CgiRunningRegisters ==
    ASSUME IInv, NEW e \in batch, CgiRunning(e)
    PROVE  /\ cmds' \in [Knote -> Cmd]
           /\ \A i \in Knote : i # ReadOf(e.fd) => cmds'[i] = cmds[i]
           /\ Applied(kq, cmds', open) = Applied(kq, cmds, open)
           /\ Refused(kq, cmds', open) = {}
<1> DEFINE f == e.fd
           k == ReadOf(f)
<1>1. e.filter = "READ" /\ f \in Files
  BY DEF CgiRunning, FileReady
<1>2. f \in Fd /\ f \in open /\ f # Listen /\ FileOf(e) = f
  BY <1>1, FileFacts
<1>3. k \in Applied(kq, cmds, open)
  BY <1>1, <1>2, EventFacts DEF ReadOf
<1>4. k \in Knote /\ k[1] = f
  BY <1>2, PairFacts
<1>5. cmds' = Add(cmds, k)
  BY <1>2 DEF CgiRunning
<1>6. /\ cmds' \in [Knote -> Cmd]
      /\ \A i \in Knote : i # k => cmds'[i] = cmds[i]
      /\ Applied(kq, cmds', open) = Applied(kq, cmds, open)
      /\ Refused(kq, cmds', open) = {}
  <2>1. cmds \in [Knote -> Cmd] /\ Refused(kq, cmds, open) = {} /\ k[1] \in open
    BY <1>2, <1>4 DEF IInv, TypeOK, NoSelfError
  <2>2. /\ Add(cmds, k) \in [Knote -> Cmd]
        /\ \A i \in Knote : i # k => Add(cmds, k)[i] = cmds[i]
        /\ Applied(kq, Add(cmds, k), open) = Applied(kq, cmds, open) \cup {k}
        /\ Refused(kq, Add(cmds, k), open) = Refused(kq, cmds, open)
    <3> HIDE DEF f, k
    <3> QED
      BY <1>4, <2>1, AddFacts
  <2> QED
    BY <1>3, <1>5, <2>1, <2>2
<1> QED
  BY <1>6

\* The child still runs: its output stays registered, with its owner.
LEMMA CgiRunningKeeps ==
    ASSUME IInv, NEW e \in batch, CgiRunning(e)
    PROVE  IInv'
<1> DEFINE f == e.fd
           k == ReadOf(f)
<1>1. e.filter = "READ" /\ f \in Files /\ Handled(e)
  BY DEF CgiRunning, FileReady
<1>2. /\ f \in Fd /\ f \in open /\ f # Listen /\ FileOf(e) = f
      /\ OwnerOf(e) \in Fd /\ \A d \in batch : d.fd = f => d = e
  BY <1>1, FileFacts
<1>3. k \in Applied(kq, cmds, open)
  BY <1>1, <1>2, EventFacts DEF ReadOf
<1>4. k \in Knote /\ k[1] = f
  BY <1>2, PairFacts
<1>5. /\ cmds' = Add(cmds, k) /\ fileMap' = fileMap
      /\ UNCHANGED <<open, kq, files, network, children, clients, client, leaked>>
  <2>1. fileMap' = Inserted(fileMap, f, OwnerOf(e))
    BY <1>2 DEF CgiRunning
  <2>2. fileMap \in [Fd -> Fd \cup {NoFd}] /\ fileMap[f] # NoFd
    BY <1>1 DEF IInv, TypeOK, Files
  <2>3. fileMap' = fileMap
    BY <1>2, <2>1, <2>2 DEF Inserted
  <2> QED
    BY <1>2, <2>3 DEF CgiRunning
<1>6. /\ cmds' \in [Knote -> Cmd]
      /\ \A i \in Knote : i # k => cmds'[i] = cmds[i]
      /\ Applied(kq, cmds', open) = Applied(kq, cmds, open)
      /\ Refused(kq, cmds', open) = {}
  BY CgiRunningRegisters
<1>7. Files' = Files
  BY <1>5 DEF Files
<1>8. TypeOK'
  <2>1. batch' \subseteq batch
    BY <1>1 DEF Handled
  <2> QED
    BY <1>5, <1>6, <2>1, SMT DEF IInv, TypeOK, files, network, children
<1>9. FilesOwned' /\ DescriptorsAccounted'
  BY <1>5, <1>7 DEF IInv, FilesOwned, DescriptorsAccounted
<1>10. QuietWhileBusy'
  BY <1>1, <1>5, <1>6 DEF IInv, QuietWhileBusy, Busy, Handled
<1>11. FreshEvents' /\ ArrivalWaits'
  BY <1>1, <1>5, <1>7 DEF IInv, FreshEvents, ArrivalWaits, Handled, network
<1>12. PendingUntouched'
  BY <1>1, <1>2, <1>4, <1>6 DEF IInv, PendingUntouched, Handled
<1>13. NoSelfError' /\ OneFilter'
  BY <1>5, <1>6 DEF IInv, NoSelfError, OneFilter
<1>14. RegisteredOwned'
  BY <1>1, <1>4, <1>5, <1>6, <1>7 DEF IInv, RegisteredOwned
<1> QED
  BY <1>8, <1>9, <1>10, <1>11, <1>12, <1>13, <1>14 DEF IInv

\* The body file is closed, other descriptors take its place, and writing to
\* the owner's socket is armed and disarmed: only the file's pairs are gone.
LEMMA ReopenFacts ==
    ASSUME IInv, NEW e \in batch, e.fd \in Files, NEW new \in SUBSET Slots(e),
           kq' = WithoutFd(kq, e.fd), open' = (open \ {e.fd}) \cup new
    PROVE  LET c == CgiCmds(OwnerOf(e)) IN
           /\ c \in [Knote -> Cmd]
           /\ \A i \in Knote : i # WriteOf(OwnerOf(e)) => c[i] = cmds[i]
           /\ \A i : i \in Applied(kq', c, open')
                     <=> i \in Applied(kq, cmds, open) /\ i[1] # e.fd
           /\ Refused(kq', c, open') = {}
<1> DEFINE f == e.fd
           s == OwnerOf(e)
           w == WriteOf(s)
<1>1. /\ s \in open /\ s # f /\ s \in Fd /\ FileOf(e) = f
      /\ \A i \in Applied(kq, cmds, open) : i[1] # s
      /\ \A i \in Knote : i[1] = f => cmds[i] = "none"
  BY FileFacts
<1>2. w \in Knote /\ w[1] = s /\ s \in open'
  BY <1>1, PairFacts
<1>3. cmds \in [Knote -> Cmd] /\ Refused(kq, cmds, open) = {}
  BY DEF IInv, TypeOK, NoSelfError
<1>4. \A g \in new : g = f \/ g \in Fd \ open
  BY <1>1 DEF Slots
<1>5. /\ \A g \in new : \A i \in kq' : i[1] # g
      /\ \A g \in new : \A i \in Knote : i[1] = g => cmds[i] = "none"
  <2>1. \A i \in kq' : i \in kq /\ i[1] # f
    BY DEF WithoutFd
  <2>2. \A g \in Fd \ open :
          /\ \A i \in kq : i[1] # g
          /\ \A i \in Knote : i[1] = g => cmds[i] = "none"
    BY StateFacts
  <2> QED
    BY <1>1, <1>4, <2>1, <2>2
<1>6. \A i : i \in Applied(kq', cmds, open')
             <=> i \in Applied(kq, cmds, open) /\ i[1] # f
  <2> HIDE DEF f
  <2>1. ASSUME NEW i \in Applied(kq', cmds, open')
        PROVE  i \in Applied(kq, cmds, open) /\ i[1] # f
    <3>1. /\ i \in Knote /\ i[1] \in open'
          /\ cmds[i] \in {"add", "renew"} \/ (cmds[i] = "none" /\ i \in kq')
      BY DEF Applied
    <3>2. i[1] \notin new
      BY <1>5, <3>1
    <3>3. i[1] \in open /\ i[1] # f
      BY <3>1, <3>2 DEF f
    <3>4. i \in kq' => i \in kq
      BY DEF WithoutFd
    <3> QED
      BY <3>1, <3>3, <3>4 DEF Applied
  <2>2. ASSUME NEW i \in Applied(kq, cmds, open), i[1] # f
        PROVE  i \in Applied(kq', cmds, open')
    <3>1. /\ i \in Knote /\ i[1] \in open
          /\ cmds[i] \in {"add", "renew"} \/ (cmds[i] = "none" /\ i \in kq)
      BY DEF Applied
    <3>2. i[1] \in open' /\ (i \in kq => i \in kq')
      BY <2>2, <3>1 DEF WithoutFd, f
    <3> QED
      BY <3>1, <3>2 DEF Applied
  <2> QED
    BY <2>1, <2>2
<1>7. Refused(kq', cmds, open') = {}
  <2> SUFFICES ASSUME NEW i \in Knote
               PROVE  /\ cmds[i] # "refused"
                      /\ ~(cmds[i] # "none" /\ i[1] \notin open')
                      /\ ~(cmds[i] \in {"delete", "renew"} /\ i \notin kq')
    BY DEF Refused
  <2>1. /\ cmds[i] # "refused"
        /\ ~(cmds[i] # "none" /\ i[1] \notin open)
        /\ ~(cmds[i] \in {"delete", "renew"} /\ i \notin kq)
    BY <1>3 DEF Refused
  <2>2. CASE cmds[i] = "none"
    BY <2>2
  <2>3. CASE cmds[i] # "none"
    <3>1. i[1] # f
      BY <1>1, <2>3
    <3> QED
      BY <2>1, <2>3, <3>1 DEF WithoutFd
  <2> QED
    BY <2>2, <2>3
<1>8. w \notin Applied(kq', cmds, open')
  BY <1>1, <1>2, <1>6
<1> DEFINE c == Delete(Add(cmds, w), w)
<1>9. /\ c \in [Knote -> Cmd]
      /\ \A i \in Knote \ {w} : c[i] = cmds[i]
      /\ Applied(kq', c, open') = Applied(kq', cmds, open')
      /\ Refused(kq', c, open') = {}
  <2>1. w[1] \in open'
    BY <1>2
  <2>2. w \in Knote
    BY <1>2
  <2> HIDE DEF w, f, s
  <2> QED
    BY <1>3, <1>7, <1>8, <2>1, <2>2, CancelFacts, SMTT(20)
<1> QED
  BY <1>6, <1>9 DEF CgiCmds

\* The program is started: its output is registered in the place of its body.
LEMMA CgiStartedRegisters ==
    ASSUME IInv, NEW e \in batch, e.fd \in Files, NEW g \in Slots(e),
           open' = (open \ {e.fd}) \cup {g}, kq' = WithoutFd(kq, e.fd),
           cmds' = Add(CgiCmds(OwnerOf(e)), ReadOf(g))
    PROVE  /\ cmds' \in [Knote -> Cmd]
           /\ \A i \in Knote : i # ReadOf(g) /\ i # WriteOf(OwnerOf(e))
                                => cmds'[i] = cmds[i]
           /\ \A i : i \in Applied(kq', cmds', open')
                     <=> \/ i \in Applied(kq, cmds, open) /\ i[1] # e.fd
                         \/ i = ReadOf(g)
           /\ Refused(kq', cmds', open') = {}
<1> DEFINE f == e.fd
           s == OwnerOf(e)
           k == ReadOf(g)
           w == WriteOf(s)
<1>1. f \in Files
  OBVIOUS
<1>2. /\ f \in Fd /\ s \in Fd /\ FileOf(e) = f
      /\ \A i \in Applied(kq, cmds, open) : i[1] # s
  BY FileFacts
<1>3. /\ open' = (open \ {f}) \cup {g}
      /\ cmds' = Add(CgiCmds(s), ReadOf(g))
  OBVIOUS
<1>4. kq' = WithoutFd(kq, f)
  OBVIOUS
<1>5. g \in Fd
  BY <1>2 DEF Slots
<1>6. k \in Knote /\ k[1] = g /\ w \in Knote /\ w[1] = s
  BY <1>2, <1>5, PairFacts
<1>7. /\ cmds' \in [Knote -> Cmd]
      /\ \A i \in Knote : i # k /\ i # w => cmds'[i] = cmds[i]
      /\ \A i : i \in Applied(kq', cmds', open')
                <=> (i \in Applied(kq, cmds, open) /\ i[1] # f) \/ i = k
      /\ Refused(kq', cmds', open') = {}
  <2> DEFINE c == CgiCmds(s)
  <2>1. /\ c \in [Knote -> Cmd]
        /\ \A i \in Knote : i # w => c[i] = cmds[i]
        /\ \A i : i \in Applied(kq', c, open')
                  <=> i \in Applied(kq, cmds, open) /\ i[1] # f
        /\ Refused(kq', c, open') = {}
    <3>1. {g} \in SUBSET Slots(e) /\ kq' = WithoutFd(kq, e.fd)
          /\ open' = (open \ {e.fd}) \cup {g}
      BY <1>3, <1>4
    <3> HIDE DEF c
    <3> QED
      BY <1>1, <3>1, ReopenFacts DEF c
  <2>2. k[1] \in open'
    BY <1>3, <1>6
  <2>3. /\ Add(c, k) \in [Knote -> Cmd]
        /\ \A i \in Knote : i # k => Add(c, k)[i] = c[i]
        /\ Applied(kq', Add(c, k), open') = Applied(kq', c, open') \cup {k}
        /\ Refused(kq', Add(c, k), open') = Refused(kq', c, open')
    <3> DEFINE q == kq'
               o == open'
    <3>1. /\ k \in Knote /\ c \in [Knote -> Cmd] /\ k \notin Refused(q, c, o)
          /\ k[1] \in o
      BY <1>6, <2>1, <2>2
    <3> HIDE DEF c, k, w, f, s, q, o
    <3>2. /\ Add(c, k) \in [Knote -> Cmd]
          /\ \A i \in Knote : i # k => Add(c, k)[i] = c[i]
          /\ Applied(q, Add(c, k), o) = Applied(q, c, o) \cup {k}
          /\ Refused(q, Add(c, k), o) = Refused(q, c, o)
      BY <3>1, AddFacts
    <3> QED
      BY <3>2 DEF q, o
  <2>4. cmds' = Add(c, k)
    BY <1>3
  <2> HIDE DEF c, k, w, f, s
  <2> QED
    BY <2>1, <2>3, <2>4
<1> QED
  BY <1>7

\* The program is started: its output takes the place of its body.
LEMMA CgiStartedKeeps ==
    ASSUME IInv, NEW e \in batch, CgiStarted(e)
    PROVE  IInv'
<1> DEFINE f == e.fd
           s == OwnerOf(e)
<1>1. e.filter = "WRITE" /\ f \in Files /\ Handled(e)
  BY DEF CgiStarted, CgiBodyDone, FileReady
<1>2. /\ f \in Fd /\ f \in open /\ f # Listen /\ f \notin clients /\ f \notin leaked
      /\ s \in clients /\ s \in Fd /\ s # f /\ FileOf(e) = f /\ Busy(s)
      /\ \A i \in Applied(kq, cmds, open) : i[1] # s
      /\ \A d \in batch : d.fd # s
      /\ \A d \in batch : d.fd = f => d = e
      /\ \A i \in Knote : i[1] = f => cmds[i] = "none"
  BY <1>1, FileFacts
<1>3. PICK g \in Slots(e) :
          /\ Output(e, g)
          /\ open' = (open \ {f}) \cup {g}
          /\ fileMap' = Inserted([fileMap EXCEPT ![f] = NoFd], g, s)
          /\ client' = [client EXCEPT ![s] = [Rewound(client[s]) EXCEPT !.fileFd = g]]
          /\ cmds' = Add(CgiCmds(s), ReadOf(g))
  BY <1>2 DEF CgiStarted
<1>4. /\ kq' = WithoutFd(kq, f) /\ broken' = broken \ {f}
      /\ UNCHANGED <<network, clients, leaked>>
  BY <1>2 DEF CgiStarted, CgiBodyDone
<1>5. /\ g \in Fd /\ g # s /\ g \notin clients /\ g \notin leaked /\ g # Listen
      /\ g \notin Files \ {f}
  BY <1>2, StateFacts, FdAssumption DEF Slots
<1> DEFINE k == ReadOf(g)
           w == WriteOf(s)
<1>6. k \in Knote /\ k[1] = g /\ w \in Knote /\ w[1] = s
  BY <1>2, <1>5, PairFacts
<1>7. /\ cmds' \in [Knote -> Cmd]
      /\ \A i \in Knote : i # k /\ i # w => cmds'[i] = cmds[i]
      /\ \A i : i \in Applied(kq', cmds', open')
                <=> (i \in Applied(kq, cmds, open) /\ i[1] # f) \/ i = k
      /\ Refused(kq', cmds', open') = {}
  BY <1>1, <1>3, <1>4, CgiStartedRegisters
<1>8. /\ Files' = (Files \ {f}) \cup {g}
      /\ fileMap' \in [Fd -> Fd \cup {NoFd}] /\ fileMap'[g] = s
      /\ \A h \in Fd : h # f /\ h # g => fileMap'[h] = fileMap[h]
  <2>1. fileMap \in [Fd -> Fd \cup {NoFd}] /\ s # NoFd
    BY <1>2, FdAssumption DEF IInv, TypeOK
  <2>2. f # g => fileMap[g] = NoFd
    BY <1>5 DEF Files
  <2>3. /\ fileMap'[g] = s /\ fileMap' \in [Fd -> Fd \cup {NoFd}]
        /\ \A h \in Fd : h # f /\ h # g => fileMap'[h] = fileMap[h]
        /\ f # g => fileMap'[f] = NoFd
    <3> DEFINE m == [fileMap EXCEPT ![f] = NoFd]
    <3>1. /\ m \in [Fd -> Fd \cup {NoFd}] /\ m[g] = NoFd /\ m[f] = NoFd
          /\ \A h \in Fd : h # f => m[h] = fileMap[h]
      BY <1>2, <1>5, <2>1, <2>2
    <3>2. fileMap' = Inserted(m, g, s)
      BY <1>3
    <3> HIDE DEF m, f, s
    <3> QED
      BY <1>2, <1>5, <3>1, <3>2 DEF Inserted
  <2> HIDE DEF f, s
  <2> QED
    BY <1>2, <1>5, <2>1, <2>3 DEF Files
<1>9. /\ client'[s].fileFd = g /\ \A t \in Fd : t # s => client'[t] = client[t]
      /\ client' \in [Fd -> Client]
  <2> DEFINE d == [Rewound(client[s]) EXCEPT !.fileFd = g]
  <2>1. client \in [Fd -> Client]
    BY DEF IInv, TypeOK
  <2>2. d \in Client /\ d.fileFd = g
    BY <1>2, <1>5, <2>1, RewoundFacts, FileFdFacts
  <2>3. client' = [client EXCEPT ![s] = d]
    BY <1>3
  <2> HIDE DEF d, s
  <2> QED
    BY <1>2, <2>1, <2>2, <2>3
<1>10. TypeOK'
  <2>1. left' \in [Fd -> Nat] /\ childOut' \in [Fd -> Nat]
    <3>1. PICK m, n \in Nat : /\ left' = [left EXCEPT ![g] = m]
                              /\ childOut' = [childOut EXCEPT ![s] = n]
      BY <1>3, SizeAssumption DEF Output
    <3> QED
      BY <3>1 DEF IInv, TypeOK
  <2>2. child' \in [Fd -> {"none", "running", "exited"}]
    BY <1>3 DEF Output, IInv, TypeOK
  <2>3. broken' \subseteq Fd /\ kq' \subseteq Knote /\ open' \subseteq Fd
    BY <1>3, <1>4, <1>5 DEF IInv, TypeOK, WithoutFd
  <2>4. batch' \subseteq batch
    BY <1>1 DEF Handled
  <2> QED
    BY <1>4, <1>7, <1>8, <1>9, <2>1, <2>2, <2>3, <2>4, SMT DEF IInv, TypeOK, network
<1>11. FilesOwned'
  <2> SUFFICES ASSUME NEW h \in Files'
               PROVE  /\ fileMap'[h] \in clients' /\ client'[fileMap'[h]].fileFd = h
                      /\ h \in open' /\ h \notin clients'
    BY DEF FilesOwned
  <2>1. CASE h = g
    BY <1>2, <1>3, <1>4, <1>5, <1>8, <1>9, <2>1
  <2>2. CASE h \in Files /\ h # f /\ h # g
    <3>1. /\ fileMap[h] \in clients /\ client[fileMap[h]].fileFd = h
          /\ h \in open /\ h \notin clients
      BY <2>2 DEF IInv, FilesOwned
    <3>2. h \in Fd /\ fileMap'[h] = fileMap[h]
      BY <1>8, <2>2 DEF Files
    <3>3. fileMap[h] # s /\ fileMap[h] \in Fd
      BY <1>2, <2>2, <3>1, StateFacts DEF FileOf
    <3> QED
      BY <1>3, <1>4, <1>9, <2>2, <3>1, <3>2, <3>3
  <2> QED
    BY <1>8, <2>1, <2>2
<1>12. QuietWhileBusy'
  <2>1. ASSUME NEW t \in clients', Busy(t)' PROVE t \in clients /\ Busy(t) /\ t # g /\ t # f
    BY <1>2, <1>4, <1>5, <1>9, <2>1, StateFacts DEF Busy
  <2> QED
    BY <1>1, <1>6, <1>7, <2>1 DEF IInv, QuietWhileBusy, Handled
<1>13. \A d \in batch' : /\ d \in batch /\ d.fd # f /\ d.fd # s
                         /\ d.fd # Listen => d.fd # g
  BY <1>1, <1>2, <1>5 DEF Handled, IInv, FreshEvents
<1>14. FreshEvents' /\ ArrivalWaits'
  BY <1>4, <1>8, <1>13 DEF IInv, FreshEvents, ArrivalWaits, WithoutFd, network
<1>15. PendingUntouched'
  BY <1>5, <1>6, <1>7, <1>13 DEF IInv, PendingUntouched
<1>16. NoSelfError' /\ OneFilter'
  <2>1. \A i \in Applied(kq, cmds, open) : i[1] # f => i[1] # g
    BY <1>5, StateFacts
  <2> HIDE DEF k
  <2> QED
    BY <1>6, <1>7, <2>1 DEF IInv, NoSelfError, OneFilter
<1>17. DescriptorsAccounted'
  BY <1>2, <1>3, <1>4, <1>5, <1>8 DEF IInv, DescriptorsAccounted
<1>18. RegisteredOwned'
  <2>1. \A i \in kq' : i[1] \in clients' \cup Files'
    BY <1>4, <1>8 DEF IInv, RegisteredOwned, WithoutFd
  <2>2. ASSUME NEW i \in Knote, cmds'[i] # "none"
        PROVE  i[1] \in clients' \cup Files'
    <3>1. CASE i = k \/ i = w
      BY <1>2, <1>4, <1>6, <1>8, <3>1
    <3>2. CASE i # k /\ i # w
      BY <1>2, <1>4, <1>7, <1>8, <2>2, <3>2 DEF IInv, RegisteredOwned
    <3> QED
      BY <3>1, <3>2
  <2> QED
    BY <2>1, <2>2 DEF RegisteredOwned
<1> QED
  BY <1>10, <1>11, <1>12, <1>14, <1>15, <1>16, <1>17, <1>18 DEF IInv

\* The program is not started: its client's socket is registered at once.
LEMMA CgiFailedRegisters ==
    ASSUME IInv, NEW e \in batch, e.fd \in Files, NEW lost \in SUBSET Slots(e),
           open' = (open \ {e.fd}) \cup lost, kq' = WithoutFd(kq, e.fd),
           cmds' = Add(CgiCmds(OwnerOf(e)), WriteOf(OwnerOf(e)))
    PROVE  /\ cmds' \in [Knote -> Cmd]
           /\ \A i \in Knote : i # WriteOf(OwnerOf(e)) => cmds'[i] = cmds[i]
           /\ \A i : i \in Applied(kq', cmds', open')
                     <=> \/ i \in Applied(kq, cmds, open) /\ i[1] # e.fd
                         \/ i = WriteOf(OwnerOf(e))
           /\ Refused(kq', cmds', open') = {}
<1> DEFINE f == e.fd
           s == OwnerOf(e)
           k == WriteOf(s)
<1>1. f \in Files
  OBVIOUS
<1>2. s \in Fd /\ s \in open /\ s # f /\ FileOf(e) = f
  BY FileFacts
<1>3. /\ open' = (open \ {f}) \cup lost
      /\ cmds' = Add(CgiCmds(s), k)
  OBVIOUS
<1>4. kq' = WithoutFd(kq, f)
  OBVIOUS
<1>6. k \in Knote /\ k[1] = s /\ s \in open'
  BY <1>2, <1>3, PairFacts
<1>7. /\ cmds' \in [Knote -> Cmd]
      /\ \A i \in Knote : i # k => cmds'[i] = cmds[i]
      /\ \A i : i \in Applied(kq', cmds', open')
                <=> (i \in Applied(kq, cmds, open) /\ i[1] # f) \/ i = k
      /\ Refused(kq', cmds', open') = {}
  <2> DEFINE c == CgiCmds(s)
  <2>1. /\ c \in [Knote -> Cmd]
        /\ \A i \in Knote : i # k => c[i] = cmds[i]
        /\ \A i : i \in Applied(kq', c, open')
                  <=> i \in Applied(kq, cmds, open) /\ i[1] # f
        /\ Refused(kq', c, open') = {}
    <3>1. kq' = WithoutFd(kq, e.fd) /\ open' = (open \ {e.fd}) \cup lost
      BY <1>3, <1>4
    <3> HIDE DEF c
    <3> QED
      BY <1>1, <3>1, ReopenFacts DEF c
  <2>2. k[1] \in open'
    BY <1>6
  <2>3. /\ Add(c, k) \in [Knote -> Cmd]
        /\ \A i \in Knote : i # k => Add(c, k)[i] = c[i]
        /\ Applied(kq', Add(c, k), open') = Applied(kq', c, open') \cup {k}
        /\ Refused(kq', Add(c, k), open') = Refused(kq', c, open')
    <3>1. k \in Knote /\ c \in [Knote -> Cmd] /\ Refused(kq', c, open') = {}
      BY <1>6, <2>1
    <3> HIDE DEF c, k, f, s
    <3> QED
      BY <2>2, <3>1, AddFacts
  <2>4. cmds' = Add(c, k)
    BY <1>3
  <2> HIDE DEF c, k, f, s
  <2> QED
    BY <2>1, <2>3, <2>4
<1> QED
  BY <1>7

\* The program could not be started: the answer is made at once, and what
\* execute() had opened is lost.
LEMMA CgiFailedKeeps ==
    ASSUME IInv, NEW e \in batch, CgiFailed(e)
    PROVE  IInv'
<1> DEFINE f == e.fd
           s == OwnerOf(e)
           k == WriteOf(s)
<1>1. e.filter = "WRITE" /\ f \in Files /\ Handled(e)
  BY DEF CgiFailed, CgiBodyDone, FileReady
<1>2. /\ f \in Fd /\ f \in open /\ f # Listen /\ f \notin clients /\ f \notin leaked
      /\ s \in clients /\ s \in Fd /\ s # f /\ FileOf(e) = f
      /\ \A i \in Applied(kq, cmds, open) : i[1] # s
      /\ \A d \in batch : d.fd # s
      /\ \A d \in batch : d.fd = f => d = e
      /\ \A i \in Knote : i[1] = f => cmds[i] = "none"
  BY <1>1, FileFacts
<1>3. PICK lost \in SUBSET Slots(e), n \in 1..MaxOut :
          /\ open' = (open \ {f}) \cup lost
          /\ leaked' = leaked \cup lost
          /\ fileMap' = [fileMap EXCEPT ![f] = NoFd]
          /\ client' = [client EXCEPT ![s] =
                           Respond([Rewound(client[s]) EXCEPT !.fileFd = NoFd], n)]
          /\ cmds' = Add(CgiCmds(s), k)
  BY <1>2 DEF CgiFailed
<1>4. /\ kq' = WithoutFd(kq, f) /\ broken' = broken \ {f}
      /\ UNCHANGED <<left, network, children, clients>>
  BY <1>2 DEF CgiFailed, CgiBodyDone
<1>5. \A g \in lost : /\ g \in Fd /\ g \notin clients /\ g \notin Files \ {f}
  BY <1>2, StateFacts DEF Slots
<1>6. k \in Knote /\ k[1] = s /\ s \in open'
  BY <1>2, <1>3, PairFacts, StateFacts
<1>7. /\ cmds' \in [Knote -> Cmd]
      /\ \A i \in Knote : i # k => cmds'[i] = cmds[i]
      /\ \A i : i \in Applied(kq', cmds', open')
                <=> (i \in Applied(kq, cmds, open) /\ i[1] # f) \/ i = k
      /\ Refused(kq', cmds', open') = {}
  BY <1>1, <1>3, <1>4, CgiFailedRegisters
<1>8. Files' = Files \ {f}
  BY <1>2, <1>3, SMT DEF Files, IInv, TypeOK
<1>9. /\ client'[s].fileFd = NoFd /\ \A t \in Fd : t # s => client'[t] = client[t]
      /\ client' \in [Fd -> Client]
  <2> DEFINE b == [Rewound(client[s]) EXCEPT !.fileFd = NoFd]
             d == Respond(b, n)
  <2>1. client \in [Fd -> Client]
    BY DEF IInv, TypeOK
  <2>2. b \in Client /\ b.fileFd = NoFd
    BY <1>2, <2>1, RewoundFacts, FileFdFacts
  <2>3. client' = [client EXCEPT ![s] = d]
    BY <1>3
  <2>4. d \in Client /\ d.fileFd = NoFd
    <3> HIDE DEF b
    <3> QED
      BY <2>2, RespondFacts
  <2> HIDE DEF d, s
  <2> QED
    BY <1>2, <2>1, <2>3, <2>4
<1>10. TypeOK'
  <2>1. broken' \subseteq Fd /\ kq' \subseteq Knote /\ open' \subseteq Fd /\ leaked' \subseteq Fd
    BY <1>3, <1>4, <1>5 DEF IInv, TypeOK, WithoutFd
  <2>2. batch' \subseteq batch /\ fileMap' \in [Fd -> Fd \cup {NoFd}]
    BY <1>1, <1>3 DEF Handled, IInv, TypeOK
  <2> QED
    BY <1>4, <1>7, <1>9, <2>1, <2>2, SMT DEF IInv, TypeOK, network, children
<1>11. FilesOwned'
  <2> SUFFICES ASSUME NEW g \in Files, g # f
               PROVE  /\ fileMap'[g] \in clients' /\ client'[fileMap'[g]].fileFd = g
                      /\ g \in open' /\ g \notin clients'
    BY <1>8 DEF FilesOwned
  <2>1. g \in Fd /\ fileMap'[g] = fileMap[g]
    BY <1>3 DEF IInv, TypeOK, Files
  <2>2. /\ fileMap[g] \in clients /\ client[fileMap[g]].fileFd = g
        /\ g \in open /\ g \notin clients
    BY DEF IInv, FilesOwned
  <2>3. fileMap[g] # s /\ fileMap[g] \in Fd
    BY <1>2, <2>2, StateFacts DEF FileOf
  <2> QED
    BY <1>3, <1>4, <1>9, <2>1, <2>2, <2>3
<1>12. QuietWhileBusy'
  <2>1. ASSUME NEW t \in clients', Busy(t)' PROVE t \in clients /\ Busy(t) /\ t # s
    BY <1>2, <1>4, <1>9, <2>1, StateFacts DEF Busy
  <2> QED
    BY <1>1, <1>6, <1>7, <2>1 DEF IInv, QuietWhileBusy, Handled
<1>13. \A d \in batch' : d \in batch /\ d.fd # f /\ d.fd # s
  BY <1>1, <1>2 DEF Handled
<1>14. FreshEvents' /\ ArrivalWaits'
  BY <1>4, <1>8, <1>13 DEF IInv, FreshEvents, ArrivalWaits, WithoutFd, network
<1>15. PendingUntouched'
  BY <1>6, <1>7, <1>13 DEF IInv, PendingUntouched
<1>16. NoSelfError' /\ OneFilter'
  <2> HIDE DEF k, s, f
  <2> QED
    BY <1>2, <1>6, <1>7 DEF IInv, NoSelfError, OneFilter
<1>17. DescriptorsAccounted'
  <2>1. /\ open = clients \cup Files \cup leaked
        /\ clients \cap Files = {} /\ leaked \cap (clients \cup Files) = {}
    BY DEF IInv, DescriptorsAccounted
  <2> QED
    BY <1>2, <1>3, <1>4, <1>5, <1>8, <2>1 DEF DescriptorsAccounted
<1>18. RegisteredOwned'
  <2>1. \A i \in kq' : i[1] \in clients' \cup Files'
    BY <1>4, <1>8 DEF IInv, RegisteredOwned, WithoutFd
  <2>2. ASSUME NEW i \in Knote, cmds'[i] # "none"
        PROVE  i[1] \in clients' \cup Files'
    <3>1. CASE i = k
      BY <1>2, <1>4, <1>6, <3>1
    <3>2. CASE i # k
      BY <1>2, <1>4, <1>7, <1>8, <2>2, <3>2 DEF IInv, RegisteredOwned
    <3> QED
      BY <3>1, <3>2
  <2> QED
    BY <2>1, <2>2 DEF RegisteredOwned
<1> QED
  BY <1>10, <1>11, <1>12, <1>14, <1>15, <1>16, <1>17, <1>18 DEF IInv

\* A step that moves the cursor of one client and nothing else of it.
LEMMA CursorKeeps ==
    ASSUME TypeOK, NEW s \in Fd, NEW n \in Nat,
           client' = [client EXCEPT ![s].writeSize = @ + n]
    PROVE  /\ client' \in [Fd -> Client]
           /\ \A t \in Fd : client'[t].fileFd = client[t].fileFd
<1> DEFINE c == [client[s] EXCEPT !.writeSize = client[s].writeSize + n]
<1>1. client \in [Fd -> Client]
  BY DEF TypeOK
<1>2. client[s] \in Client /\ client[s].writeSize \in Nat
  BY <1>1 DEF Client
<1>3. client[s].writeSize + n \in Nat
  BY <1>2
<1>4. c \in Client /\ c.fileFd = client[s].fileFd
  BY <1>2, <1>3, CursorFacts
<1>5. client' = [client EXCEPT ![s] = c]
  OBVIOUS
<1> HIDE DEF c
<1> QED
  BY <1>1, <1>4, <1>5

\* What happens to a socket.
LEMMA SocketStep ==
    ASSUME IInv, NEW e \in batch, HandleSocket(e)
    PROVE  IInv'
<1>1. CASE ClientGone(e)
  BY <1>1, DropKeeps DEF ClientGone
<1>2. CASE Accept(e)
  BY <1>2, AcceptKeeps
<1>3. CASE AcceptFail(e)
  <2>1. /\ UNCHANGED <<open, kq, clients, client, fileMap, cmds, leaked>>
        /\ batch' = batch \ {e} /\ e.fd = Listen
        /\ UNCHANGED <<left, broken, peer, inq, got, child, childOut>>
        /\ backlog' \in {backlog, backlog - 1}
    BY <1>3 DEF AcceptFail, Handled, files, children
  <2>2. backlog > 0 /\ \A d \in batch' : d.fd # Listen
    BY <2>1 DEF IInv, ArrivalWaits
  <2>3. backlog' \in 0..MaxConns
    BY <2>1, <2>2, SizeAssumption, SMT DEF IInv, TypeOK
  <2>4. TypeOK'
    BY <2>1, <2>3, SMT DEF IInv, TypeOK
  <2> QED
    BY <2>1, <2>2, <2>4, Quiet
<1>4. CASE RecvFail(e)
  BY <1>4, DropKeeps DEF RecvFail, ClientReadable
<1>5. CASE RecvPartial(e)
  <2>1. TypeOK'
    BY <1>5, SMT DEF IInv, TypeOK, RecvPartial, Received, Handled, files, children
  <2>2. /\ UNCHANGED <<open, kq, clients, client, fileMap, cmds, leaked, backlog>>
        /\ batch' \subseteq batch
    BY <1>5 DEF RecvPartial, Received, Handled
  <2> QED
    BY <2>1, <2>2, Quiet
<1> DEFINE s == e.fd
<1>6. Received(e) => s \in Fd /\ client[s] \in Client
  BY StateFacts DEF Received, ClientReadable, IInv, TypeOK
<1>7. CASE AnswerAtOnce(e)
  <2>1. Received(e)
    BY <1>7 DEF AnswerAtOnce
  <2>2. PICK n \in 1..MaxOut :
             client' = [client EXCEPT ![s] = Respond(client[s], n)]
    BY <1>7 DEF AnswerAtOnce
  <2>3. /\ Respond(client[s], n) \in Client
        /\ Respond(client[s], n).fileFd = client[s].fileFd
    BY <1>6, <2>1, RespondFacts
  <2>4. /\ cmds' = Add(Delete(cmds, ReadOf(s)), WriteOf(s))
        /\ UNCHANGED <<kq, files, peer, got, backlog, children, clients, fileMap>>
        /\ {} \in SUBSET (Fd \ open)
        /\ open' = open \cup {} /\ leaked' = leaked \cup {}
    BY <1>7 DEF AnswerAtOnce
  <2> QED
    BY <2>1, <2>2, <2>3, <2>4, AnswerKeeps
<1>16. CASE DeleteTree(e)
  <2>1. Received(e)
    BY <1>16 DEF DeleteTree
  <2>2. PICK lost \in SUBSET (Fd \ open), n \in 1..MaxOut :
             /\ open' = open \cup lost /\ leaked' = leaked \cup lost
             /\ client' = [client EXCEPT ![s] = Respond(client[s], n)]
    BY <1>16 DEF DeleteTree
  <2>3. /\ Respond(client[s], n) \in Client
        /\ Respond(client[s], n).fileFd = client[s].fileFd
    BY <1>6, <2>1, RespondFacts
  <2>4. /\ cmds' = Add(Delete(cmds, ReadOf(s)), WriteOf(s))
        /\ UNCHANGED <<kq, files, peer, got, backlog, children, clients, fileMap>>
    BY <1>16 DEF DeleteTree
  <2> QED
    BY <2>1, <2>2, <2>3, <2>4, AnswerKeeps
<1>8. CASE NoCgiBody(e)
  <2>1. Received(e)
    BY <1>8 DEF NoCgiBody
  <2> DEFINE c == [client[s] EXCEPT !.mode = "cgi"]
  <2>2. PICK n \in 1..MaxOut :
             client' = [client EXCEPT ![s] = Respond(c, n)]
    BY <1>8 DEF NoCgiBody
  <2>3. c \in Client /\ c.fileFd = client[s].fileFd
    BY <1>6, <2>1, ModeFacts
  <2>4. Respond(c, n) \in Client /\ Respond(c, n).fileFd = client[s].fileFd
    <3> HIDE DEF c
    <3> QED
      BY <2>3, RespondFacts
  <2>5. /\ cmds' = Add(Delete(cmds, ReadOf(s)), WriteOf(s))
        /\ UNCHANGED <<kq, files, peer, got, backlog, children, clients, fileMap>>
        /\ {} \in SUBSET (Fd \ open)
        /\ open' = open \cup {} /\ leaked' = leaked \cup {}
    BY <1>8 DEF NoCgiBody
  <2> QED
    BY <2>1, <2>2, <2>4, <2>5, AnswerKeeps
<1>9. CASE OpenForRead(e)
  <2>1. PICK f \in Fd \ open, n \in FileSizes \ {0} :
             OpenFor(e, f, "READ", client[s]) /\ left' = [left EXCEPT ![f] = n]
    BY <1>9 DEF OpenForRead
  <2>2. left' \in [Fd -> Nat] /\ "READ" \in Filter /\ Received(e)
    BY <2>1, SizeAssumption DEF IInv, TypeOK, Filter, OpenFor
  <2> QED
    BY <1>6, <2>1, <2>2, OpenForKeeps
<1>10. CASE OpenErrorPage(e)
  <2>1. PICK f \in Fd \ open, n \in FileSizes :
             OpenFor(e, f, "READ", client[s]) /\ left' = [left EXCEPT ![f] = n]
    BY <1>10 DEF OpenErrorPage
  <2>2. left' \in [Fd -> Nat] /\ "READ" \in Filter /\ Received(e)
    BY <2>1, SizeAssumption DEF IInv, TypeOK, Filter, OpenFor
  <2> QED
    BY <1>6, <2>1, <2>2, OpenForKeeps
<1>11. CASE OpenUpload(e)
  <2>1. PICK f \in Fd \ open, n \in 0..MaxBody :
             /\ OpenFor(e, f, "WRITE", [client[s] EXCEPT !.body = n])
             /\ UNCHANGED left
    BY <1>11 DEF OpenUpload
  <2>2. left' \in [Fd -> Nat] /\ "WRITE" \in Filter /\ Received(e)
    BY <2>1 DEF IInv, TypeOK, Filter, OpenFor
  <2>3. [client[s] EXCEPT !.body = n] \in Client
    BY <1>6, <2>2, BodyFacts
  <2> QED
    BY <2>1, <2>2, <2>3, OpenForKeeps
<1>12. CASE OpenCgiBody(e)
  <2>1. PICK f \in Fd \ open, n \in 0..MaxBody :
             /\ OpenFor(e, f, "WRITE",
                        [[client[s] EXCEPT !.body = n] EXCEPT !.mode = "cgi"])
             /\ UNCHANGED left
    BY <1>12 DEF OpenCgiBody
  <2>2. left' \in [Fd -> Nat] /\ "WRITE" \in Filter /\ Received(e)
    BY <2>1 DEF IInv, TypeOK, Filter, OpenFor
  <2>3. [client[s] EXCEPT !.body = n] \in Client
    BY <1>6, <2>2, BodyFacts
  <2>4. [[client[s] EXCEPT !.body = n] EXCEPT !.mode = "cgi"] \in Client
    BY <2>3, ModeFacts
  <2> QED
    BY <2>1, <2>2, <2>4, OpenForKeeps
<1>13. CASE SendPartial(e)
  <2>1. s \in Fd
    BY <1>13, StateFacts DEF SendPartial, ClientWritable
  <2>2. PICK n \in 1..MaxOut :
             /\ client' = [client EXCEPT ![s].writeSize = @ + n]
             /\ got' = [got EXCEPT ![s] = @ + n]
    BY <1>13 DEF SendPartial
  <2>3. /\ client' \in [Fd -> Client]
        /\ \A t \in Fd : client'[t].fileFd = client[t].fileFd
    <3>1. TypeOK /\ n \in Nat
      BY SizeAssumption DEF IInv
    <3> HIDE DEF s
    <3> QED
      BY <2>1, <2>2, <3>1, CursorKeeps
  <2>4. got' \in [Fd -> Nat]
    BY <2>1, <2>2, SizeAssumption DEF IInv, TypeOK
  <2>5. /\ UNCHANGED <<open, kq, files, peer, inq, backlog, children, clients,
                       fileMap, cmds, leaked>>
        /\ batch' \subseteq batch
    BY <1>13 DEF SendPartial, Handled
  <2>6. TypeOK'
    BY <2>3, <2>4, <2>5, SMT DEF IInv, TypeOK, files, children
  <2> QED
    BY <2>3, <2>5, <2>6, Quiet
<1>14. CASE SendAll(e)
  BY <1>14, SendAllKeeps
<1>15. CASE SendFail(e)
  BY <1>15, DropKeeps DEF SendFail, ClientWritable
<1> QED
  BY <1>1, <1>2, <1>3, <1>4, <1>5, <1>7, <1>8, <1>9, <1>10, <1>11, <1>12,
     <1>13, <1>14, <1>15, <1>16 DEF HandleSocket

\* What happens to a file.
LEMMA FileStep ==
    ASSUME IInv, NEW e \in batch, HandleFile(e)
    PROVE  IInv'
<1> DEFINE s == OwnerOf(e)
           f == FileOf(e)
<1>1. e.fd \in Files => /\ s \in Fd /\ f \in Fd /\ client[s] \in Client
  BY FileFacts DEF IInv, TypeOK
<1>2. Readable(e) => /\ e.fd \in Files /\ Handled(e)
                     /\ child' \in [Fd -> {"none", "running", "exited"}]
  BY <1>1 DEF Readable, FileReady, IInv, TypeOK
<1>3. CASE FileGone(e)
  BY <1>3, FileGoneKeeps
<1>4. CASE CgiRunning(e)
  BY <1>4, CgiRunningKeeps
<1>5. CASE ReadMore(e)
  <2>1. /\ Readable(e) /\ left[f] >= BufSize
        /\ left' = [left EXCEPT ![f] = left[f] - BufSize]
        /\ UNCHANGED <<open, kq, broken, network, childOut, clients, client,
                       fileMap, cmds, leaked>>
    BY <1>5 DEF ReadMore
  <2>2. left' \in [Fd -> Nat]
    <3>1. left \in [Fd -> Nat] /\ f \in Fd /\ BufSize \in Nat
      BY <1>1, <1>2, <2>1, SizeAssumption DEF IInv, TypeOK
    <3>2. left[f] - BufSize \in Nat
      BY <2>1, <3>1
    <3> HIDE DEF f
    <3> QED
      BY <2>1, <3>1, <3>2
  <2>3. batch' \subseteq batch
    BY <1>2, <2>1 DEF Handled
  <2>4. TypeOK'
    BY <1>2, <2>1, <2>2, <2>3, SMT DEF IInv, TypeOK, network
  <2> QED
    BY <2>1, <2>3, <2>4, Quiet DEF network
<1>6. CASE ReadLast(e)
  <2>1. PICK n \in 1..MaxOut : CloseFile(f, s, Respond(client[s], n))
    BY <1>6 DEF ReadLast
  <2>2. Readable(e)
    BY <1>6 DEF ReadLast
  <2>3. Respond(client[s], n) \in Client
    BY <1>1, <1>2, <2>2, RespondFacts
  <2> QED
    BY <1>2, <2>1, <2>2, <2>3, CloseFileKeeps
<1>7. CASE ReadFail(e)
  <2>1. Readable(e) /\ CloseFile(f, s, client[s])
    BY <1>7 DEF ReadFail
  <2> QED
    BY <1>1, <1>2, <2>1, CloseFileKeeps
<1>8. CASE WriteMore(e)
  <2>1. e.fd \in Files /\ batch' \subseteq batch
    BY <1>8 DEF WriteMore, FileReady, Handled
  <2>2. PICK n \in 1..MaxBody : client' = [client EXCEPT ![s].writeSize = @ + n]
    BY <1>8 DEF WriteMore
  <2>3. /\ client' \in [Fd -> Client]
        /\ \A t \in Fd : client'[t].fileFd = client[t].fileFd
    <3>1. TypeOK /\ n \in Nat /\ s \in Fd
      BY <1>1, <2>1, SizeAssumption DEF IInv
    <3> HIDE DEF s
    <3> QED
      BY <2>2, <3>1, CursorKeeps
  <2>4. UNCHANGED <<open, kq, files, network, children, clients, fileMap, cmds, leaked>>
    BY <1>8 DEF WriteMore
  <2>5. TypeOK'
    BY <2>1, <2>3, <2>4, SMT DEF IInv, TypeOK, files, network, children
  <2> QED
    BY <2>1, <2>3, <2>4, <2>5, Quiet DEF network
<1>9. FileReady(e, "WRITE") => e.fd \in Files /\ Rewound(client[s]) \in Client
  BY <1>1, RewoundFacts DEF FileReady
<1>10. UNCHANGED child => child' \in [Fd -> {"none", "running", "exited"}]
  BY DEF IInv, TypeOK
<1>11. CASE UploadDone(e)
  <2>1. PICK n \in 1..MaxOut : CloseFile(f, s, Respond(Rewound(client[s]), n))
    BY <1>11 DEF UploadDone
  <2>2. FileReady(e, "WRITE") /\ Handled(e) /\ UNCHANGED child
    BY <1>11 DEF UploadDone
  <2>3. Respond(Rewound(client[s]), n) \in Client
    BY <1>9, <2>2, RespondFacts
  <2> QED
    BY <1>9, <1>10, <2>1, <2>2, <2>3, CloseFileKeeps
<1>12. CASE WriteFail(e)
  <2>1. /\ FileReady(e, "WRITE") /\ Handled(e) /\ UNCHANGED child
        /\ CloseFile(f, s, Rewound(client[s]))
    BY <1>12 DEF WriteFail
  <2> QED
    BY <1>9, <1>10, <2>1, CloseFileKeeps
<1>13. CASE CgiStarted(e)
  BY <1>13, CgiStartedKeeps
<1>14. CASE CgiFailed(e)
  BY <1>14, CgiFailedKeeps
<1> QED
  BY <1>3, <1>4, <1>5, <1>6, <1>7, <1>8, <1>11, <1>12, <1>13, <1>14 DEF HandleFile

\* Nothing that peers, children and the kernel do of themselves disturbs it.
LEMMA EnvironmentStep ==
    ASSUME IInv, Environment
    PROVE  IInv'
<1> SUFFICES /\ TypeOK' /\ backlog' \in {backlog, backlog + 1}
             /\ UNCHANGED ServerVars
  BY Quiet DEF ServerVars
<1> USE DEF ServerVars
<1>1. TypeOK
  BY DEF IInv
<1>2. CASE Connect
  <2>1. backlog' \in 0..MaxConns
    <3>1. IsFiniteSet(clients)
      BY <1>1, TableAssumption, FS_Subset DEF TypeOK
    <3>2. Cardinality(clients) \in Nat
      BY <3>1, FS_CardinalityType
    <3>3. backlog \in 0..MaxConns /\ MaxConns \in Nat
      BY <1>1, SizeAssumption DEF TypeOK
    <3>4. Cardinality(clients) + backlog < MaxConns /\ backlog' = backlog + 1
      BY <1>2 DEF Connect
    <3> QED
      BY <3>2, <3>3, <3>4
  <2> QED
    BY <1>1, <1>2, <2>1, SMT DEF TypeOK, Connect, files, children
<1>3. ASSUME NEW s \in Fd, PeerSend(s) \/ PeerFin(s) \/ PeerReset(s)
      PROVE  /\ TypeOK' /\ backlog' = backlog /\ UNCHANGED ServerVars
  <2>1. CASE PeerSend(s)
    BY <1>1, <2>1, SMT DEF TypeOK, PeerSend, files, children
  <2>2. CASE PeerFin(s)
    BY <1>1, <2>2, SMT DEF TypeOK, PeerFin, files, children
  <2>3. CASE PeerReset(s)
    BY <1>1, <2>3, SMT DEF TypeOK, PeerReset, files, children
  <2> QED
    BY <1>3, <2>1, <2>2, <2>3
<1>4. ASSUME NEW s \in Fd, ChildWrite(s)
      PROVE  /\ TypeOK' /\ backlog' = backlog /\ UNCHANGED ServerVars
  <2>1. childOut' \in [Fd -> Nat] /\ left' \in [Fd -> Nat]
    BY <1>1, <1>4, SMT DEF TypeOK, ChildWrite
  <2>2. UNCHANGED <<ServerVars, broken, network, child>>
    BY <1>4 DEF ChildWrite
  <2> QED
    BY <1>1, <2>1, <2>2, SMT DEF TypeOK, network
<1>5. ASSUME NEW s \in Fd, ChildExit(s)
      PROVE  /\ TypeOK' /\ backlog' = backlog /\ UNCHANGED ServerVars
  BY <1>1, <1>5, SMT DEF TypeOK, ChildExit, files, network
<1>6. ASSUME NEW s \in Fd, FileLost(s)
      PROVE  /\ TypeOK' /\ backlog' = backlog /\ UNCHANGED ServerVars
  BY <1>1, <1>6, SMT DEF TypeOK, FileLost, network, children
<1>7. ASSUME NEW s \in Fd, FileCut(s)
      PROVE  /\ TypeOK' /\ backlog' = backlog /\ UNCHANGED ServerVars
  <2>1. left' \in [Fd -> Nat]
    BY <1>1, <1>7, SizeAssumption, SMT DEF TypeOK, FileCut
  <2>2. UNCHANGED <<ServerVars, broken, network, children>>
    BY <1>7 DEF FileCut
  <2> QED
    BY <1>1, <2>1, <2>2, SMT DEF TypeOK, network, children
<1>8. Connect => backlog' = backlog + 1 /\ UNCHANGED ServerVars
  BY DEF Connect
<1> QED
  BY <1>2, <1>3, <1>4, <1>5, <1>6, <1>7, <1>8 DEF Environment

\* The initial state: nothing is open and nothing is registered.
LEMMA InitIInv == Init => IInv
<1> SUFFICES ASSUME Init PROVE IInv
  OBVIOUS
<1>1. Files = {}
  BY DEF Init, Files
<1>2. Applied(kq, cmds, open) = {} /\ Refused(kq, cmds, open) = {}
  BY SMT DEF Init, NoCmds, Applied, Refused
<1>3. TypeOK
  <2>1. client \in [Fd -> Client]
    BY FreshFacts DEF Init
  <2>2. cmds \in [Knote -> Cmd]
    BY NoCmdsFacts DEF Init
  <2>3. backlog \in 0..MaxConns
    BY SizeAssumption DEF Init
  <2> QED
    BY <2>1, <2>2, <2>3, SMT DEF Init, TypeOK
<1>4. FilesOwned /\ QuietWhileBusy /\ FreshEvents
  BY <1>1 DEF Init, FilesOwned, QuietWhileBusy, FreshEvents
<1>5. NoSelfError /\ OneFilter
  BY <1>2 DEF NoSelfError, OneFilter
<1>6. DescriptorsAccounted /\ RegisteredOwned /\ PendingUntouched /\ ArrivalWaits
  BY <1>1 DEF Init, DescriptorsAccounted, RegisteredOwned, PendingUntouched,
              ArrivalWaits, NoCmds
<1> QED
  BY <1>3, <1>4, <1>5, <1>6 DEF IInv

LEMMA NextIInv == IInv /\ [Next]_vars => IInv'
<1> SUFFICES ASSUME IInv, [Next]_vars PROVE IInv'
  OBVIOUS
<1>1. CASE Kevent
  BY <1>1, KeventKeeps
<1>2. ASSUME NEW e \in batch, HandleSocket(e) \/ HandleFile(e) PROVE IInv'
  BY <1>2, SocketStep, FileStep
<1>3. CASE Environment
  BY <1>3, EnvironmentStep
<1>4. CASE UNCHANGED vars
  <2>1. TypeOK'
    BY <1>4, SMT DEF vars, IInv, TypeOK
  <2> QED
    BY <1>4, <2>1, Quiet DEF vars
<1> QED
  BY <1>1, <1>2, <1>3, <1>4 DEF Next, Server

\* The loop keeps its invariant, in every execution and for every value of the
\* constants: no Client pointer of file_map dangles, no event or command
\* outlives what it names, every descriptor is accounted for, and no command of
\* the server is refused.
THEOREM Invariance == Spec => []IInv
<1>1. Init => IInv
  BY InitIInv
<1>2. IInv /\ [Next]_vars => IInv'
  BY NextIInv
<1> QED
  BY <1>1, <1>2, PTL DEF Spec

\* The variables keep their types: no size, cursor or count goes below zero.
THEOREM TypeCorrect == Spec => []TypeOK
<1>1. IInv => TypeOK
  BY DEF IInv
<1> QED
  BY <1>1, Invariance, PTL

\* The Client that a file event leads to is alive and owns this file.
THEOREM PointersValid == Spec => []FilesOwned
<1>1. IInv => FilesOwned
  BY DEF IInv
<1> QED
  BY <1>1, Invariance, PTL

\* A client that waits on a file can neither be erased nor answered before
\* that file is finished.
THEOREM NoInterference == Spec => []QuietWhileBusy
<1>1. IInv => QuietWhileBusy
  BY DEF IInv
<1> QED
  BY <1>1, Invariance, PTL

\* An event is handled for the connection or the file it was reported for.
THEOREM EventsFresh == Spec => []FreshEvents
<1>1. IInv => FreshEvents
  BY DEF IInv
<1> QED
  BY <1>1, Invariance, PTL

\* kevent() never reports an error that the server's own commands caused.
THEOREM CommandsAccepted == Spec => []NoSelfError
<1>1. IInv => NoSelfError
  BY DEF IInv
<1> QED
  BY <1>1, Invariance, PTL

\* Every open descriptor is a socket, a file or one that execute() lost.
THEOREM NoOtherLeak == Spec => []DescriptorsAccounted
<1>1. IInv => DescriptorsAccounted
  BY DEF IInv
<1> QED
  BY <1>1, Invariance, PTL
=============================================================================
