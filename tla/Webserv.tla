------------------------------- MODULE Webserv -------------------------------
(***************************************************************************)
(* The running server: Webserv::start and what its handlers call on        *)
(* Client, Client_base and CgiController, together with the kernel (the    *)
(* descriptor table and the kqueue), the peers and the CGI children that   *)
(* act between two steps of the loop.                                      *)
(*                                                                         *)
(* One thread serves everybody.  kevent() returns a batch of events; the   *)
(* loop handles them one by one, and each handler may close a descriptor,  *)
(* open another one that gets the same number, or push commands that only  *)
(* the next kevent() applies.  An event of the batch, a command of ev_cmds *)
(* and the Client pointers of file_map therefore all outlive the moment    *)
(* they were made for, and the correctness of the loop is that none of     *)
(* them is ever used after what it names is gone.                          *)
(*                                                                         *)
(* Every descriptor the loop opens is a member of Fd, the free slots of    *)
(* the process's descriptor table; the listening socket is apart.  A       *)
(* socket, its connection and its Client share the descriptor as name.     *)
(***************************************************************************)
EXTENDS Integers, FiniteSets, Kqueue

CONSTANTS
    NoFd,        \* file_fd == -1, and "no entry" of file_map
    Listen,      \* the listening socket
    BufSize,     \* BUFFER_SIZE, in units of data
    FileSizes,   \* sizes of the files opened to be served
    CgiSizes,    \* sizes of what a CGI program writes
    MaxBody,     \* longest request body
    MaxOut,      \* longest response
    MaxConns,    \* connections at one time, accepted or not
    Faults       \* what may go wrong: see FaultAssumption

ASSUME FdAssumption == Listen \notin Fd /\ NoFd \notin Fd

\* The descriptor table is finite.
ASSUME TableAssumption == IsFiniteSet(Fd)

ASSUME SizeAssumption ==
    /\ BufSize \in Nat \ {0}
    /\ FileSizes \subseteq Nat /\ CgiSizes \subseteq Nat
    /\ MaxBody \in Nat /\ MaxOut \in Nat \ {0} /\ MaxConns \in Nat

\* "io"    read() or write() on a file fails (EISDIR, EIO, ENOSPC)
\* "exec"  a file of .payload cannot be opened although descriptors are left,
\*         fork() fails, or the child has already exited with an error when
\*         CgiController::execute looks
\* "gone"  the kernel reports EV_EOF or EV_ERROR on an open file
\* "slow"  a peer's receive window may stay closed for a while
\* "tree"  a DELETE may name a directory
\* "cut"   a file may be truncated and written anew while it is being read, by
\*         the PUT of another client
ASSUME FaultAssumption ==
    Faults \subseteq {"io", "exec", "gone", "slow", "tree", "cut"}

VARIABLES
    \* the kernel
    open,      \* descriptors in use
    kq,        \* pairs registered in the kqueue
    left,      \* left[f]: bytes between the read offset of file f and its end
    broken,    \* files the kernel reports as lost
    backlog,   \* connections not yet accepted
    \* the peers and the children
    peer,      \* peer[s]: state of the connection of socket s
    inq,       \* sockets with data to receive
    got,       \* got[s]: bytes of the current response the peer received
    child,     \* child[s]: the CGI process run for client s
    childOut,  \* childOut[s]: bytes that process has yet to write
    \* the server
    clients,   \* keys of client_map
    client,    \* client[s]: the fields of the Client object
    fileMap,   \* file_map: the client a file is open for
    cmds,      \* ev_cmds
    batch,     \* events of detecteds that are not handled yet
    leaked     \* descriptors nothing in the program names any more

files    == <<left, broken>>
network  == <<peer, inq, got, backlog>>
children == <<child, childOut>>
vars == <<open, kq, left, broken, backlog, peer, inq, got, child, childOut,
          clients, client, fileMap, cmds, batch, leaked>>

Event == [fd : Fd \cup {Listen}, filter : Filter, flags : {"ok", "bad"}]

\* The fields of a Client: file_fd, cgi_mode, the length of request.body,
\* write_size (the cursor shared by write_file and send_data) and the length
\* of write_buf, 0 when no response has been made.
Client == [fileFd : Fd \cup {NoFd}, mode : {"plain", "cgi"},
           body : 0..MaxBody, writeSize : Nat, out : 0..MaxOut]

\* A Client just constructed, and one that clear_client has emptied.
FreshClient == [fileFd |-> NoFd, mode |-> "plain",
                body |-> 0, writeSize |-> 0, out |-> 0]

Busy(s)  == client[s].fileFd # NoFd
Files    == {f \in Fd : fileMap[f] # NoFd}
ReadOf(f)  == <<f, "READ">>
WriteOf(f) == <<f, "WRITE">>

TypeOK ==
    /\ open \subseteq Fd /\ kq \subseteq Knote /\ broken \subseteq Fd
    /\ left \in [Fd -> Nat] /\ backlog \in 0..MaxConns
    /\ peer \in [Fd -> {"none", "up", "fin", "reset"}] /\ inq \subseteq Fd
    /\ got \in [Fd -> Nat]
    /\ child \in [Fd -> {"none", "running", "exited"}]
    /\ childOut \in [Fd -> Nat]
    /\ clients \subseteq Fd /\ client \in [Fd -> Client]
    /\ fileMap \in [Fd -> Fd \cup {NoFd}] /\ cmds \in [Knote -> Cmd]
    /\ batch \subseteq Event /\ leaked \subseteq Fd

\* The listening socket is registered before the loop starts and stays so.
Init ==
    /\ open = {} /\ kq = {} /\ broken = {} /\ backlog = 0
    /\ left = [f \in Fd |-> 0] /\ peer = [f \in Fd |-> "none"]
    /\ inq = {} /\ got = [f \in Fd |-> 0]
    /\ child = [f \in Fd |-> "none"] /\ childOut = [f \in Fd |-> 0]
    /\ clients = {} /\ client = [f \in Fd |-> FreshClient]
    /\ fileMap = [f \in Fd |-> NoFd] /\ cmds = NoCmds
    /\ batch = {} /\ leaked = {}

-----------------------------------------------------------------------------
(***************************************************************************)
(* kevent()                                                                *)
(***************************************************************************)

\* Level-triggered readiness.  A socket is writable unless its peer is slow
\* (Kevent below); a file is readable only while its offset is not at its end.
Ready(k) ==
    IF peer[k[1]] # "none"
    THEN k[2] = "WRITE" \/ k[1] \in inq \/ peer[k[1]] \in {"fin", "reset"}
    ELSE k[2] = "WRITE" \/ left[k[1]] > 0 \/ k[1] \in broken

\* EV_EOF: the peer sends no more (READ), the connection is lost (both
\* filters), or the file is lost.
AtEof(k) ==
    IF peer[k[1]] # "none"
    THEN peer[k[1]] = "reset" \/ (k[2] = "READ" /\ peer[k[1]] = "fin")
    ELSE k[1] \in broken

EventOf(k) == [fd |-> k[1], filter |-> k[2], flags |-> IF AtEof(k) THEN "bad" ELSE "ok"]
Arrival == [fd |-> Listen, filter |-> "READ", flags |-> "ok"]

\* One call of kevent(): the commands first; what they get refused comes back
\* instead of events.  DETECT_SIZE exceeds any number of descriptors here, so
\* every ready pair is returned, in an order the loop cannot rely on.
Kevent ==
    /\ batch = {}
    /\ kq' = Applied(kq, cmds, open)
    /\ cmds' = NoCmds
    /\ \E quiet \in SUBSET {k \in kq' : "slow" \in Faults /\ k[2] = "WRITE"
                                           /\ peer[k[1]] \in {"up", "fin"}} :
          batch' = IF Refused(kq, cmds, open) # {}
                   THEN {[fd |-> k[1], filter |-> k[2], flags |-> "bad"] :
                            k \in Refused(kq, cmds, open)}
                   ELSE {EventOf(k) : k \in {j \in kq' \ quiet : Ready(j)}}
                        \cup {a \in {Arrival} : backlog > 0}
    /\ UNCHANGED <<open, files, network, children, clients, client, fileMap,
                   leaked>>

-----------------------------------------------------------------------------
(***************************************************************************)
(* The handlers                                                            *)
(*                                                                         *)
(* An operator X_Slip is X with a plausible mistake in it.  Next does not  *)
(* use it: it takes the place of X to show that a property notices it.     *)
(***************************************************************************)

Handled(e) == batch' = batch \ {e}

\* close(socket) and client_map.erase: connection and Client are gone.
Drop(s) ==
    /\ clients' = clients \ {s}
    /\ client' = [client EXCEPT ![s] = FreshClient]
    /\ open' = open \ {s}
    /\ kq' = WithoutFd(kq, s)
    /\ peer' = [peer EXCEPT ![s] = "none"]
    /\ inq' = inq \ {s}
    /\ got' = [got EXCEPT ![s] = 0]
    /\ UNCHANGED <<files, backlog, children, fileMap, cmds, leaked>>

\* EV_ERROR or EV_EOF on a client's socket.  The listening socket never
\* reports either, so the branch that closes a server is left out.
ClientGone(e) ==
    /\ e.flags = "bad" /\ e.fd \in clients
    /\ Handled(e)
    /\ Drop(e.fd)

\* EV_ERROR or EV_EOF on a file.  The owner is not told: its file_fd still
\* holds the number.
FileGone(e) ==
    /\ e.flags = "bad" /\ e.fd \notin clients
    /\ Handled(e)
    /\ fileMap' = [fileMap EXCEPT ![e.fd] = NoFd]
    /\ open' = open \ {e.fd}
    /\ kq' = WithoutFd(kq, e.fd)
    /\ broken' = broken \ {e.fd}
    /\ left' = [left EXCEPT ![e.fd] = 0]
    /\ UNCHANGED <<network, children, clients, client, cmds, leaked>>

\* accept() succeeds and the new Client waits for a request.
Accept(e) ==
    /\ e.fd = Listen
    /\ Handled(e)
    /\ \E s \in Fd \ open :
          /\ open' = open \cup {s}
          /\ clients' = clients \cup {s}
          /\ client' = [client EXCEPT ![s] = FreshClient]
          /\ peer' = [peer EXCEPT ![s] = "up"]
          /\ cmds' = Add(cmds, ReadOf(s))
    /\ backlog' = backlog - 1
    /\ UNCHANGED <<kq, files, inq, got, children, fileMap, leaked>>

\* accept() returns -1: the descriptor table is full and the connection goes on
\* waiting, or its peer has given it up (ECONNABORTED).
AcceptFail(e) ==
    /\ e.fd = Listen
    /\ Handled(e)
    /\ \/ open = Fd /\ UNCHANGED backlog
       \/ backlog' = backlog - 1
    /\ UNCHANGED <<open, kq, files, peer, inq, got, children, clients, client,
                   fileMap, cmds, leaked>>

ClientReadable(e) ==
    e.flags = "ok" /\ e.filter = "READ" /\ e.fd \in clients

\* recv() returns -1 or 0: the connection was lost after kevent() returned.
RecvFail(e) ==
    /\ ClientReadable(e) /\ e.fd \notin inq
    /\ Handled(e)
    /\ Drop(e.fd)

\* recv() takes all or some of what has arrived.
Received(e) ==
    /\ ClientReadable(e) /\ e.fd \in inq
    /\ Handled(e)
    /\ inq' \in {inq, inq \ {e.fd}}

\* The request is not complete: recv_data returned 0, or check_chunked or
\* check_bodysize asked for more.
RecvPartial(e) ==
    /\ Received(e)
    /\ UNCHANGED <<open, kq, files, peer, got, backlog, children, clients,
                   client, fileMap, cmds, leaked>>

\* A response is made: the socket waits to become writable.
Respond(c, n) == [c EXCEPT !.out = n]

\* The request is complete and its answer needs no file: a built-in error
\* page, a redirection, a directory listing, the DELETE of a file, an empty
\* file, or a file that cannot be opened.
AnswerAtOnce(e) ==
    /\ Received(e)
    /\ \E n \in 1..MaxOut :
          client' = [client EXCEPT ![e.fd] = Respond(@, n)]
    /\ cmds' = Add(Delete(cmds, ReadOf(e.fd)), WriteOf(e.fd))
    /\ UNCHANGED <<open, kq, files, peer, got, backlog, children, clients,
                   fileMap, leaked>>

\* DELETE of a directory: rm_sub_files opens it and the directories below it,
\* one descriptor each, and closes none of them.  Where the descriptor table
\* ends it stops, and the answer is the built-in 500 (every directory can be
\* read, and there is no slot left for an error page).
DeleteTree(e) ==
    /\ "tree" \in Faults
    /\ Received(e)
    /\ \E lost \in SUBSET (Fd \ open) \ {{}}, n \in 1..MaxOut :
          /\ open' = open \cup lost
          /\ leaked' = leaked \cup lost
          /\ client' = [client EXCEPT ![e.fd] = Respond(@, n)]
    /\ cmds' = Add(Delete(cmds, ReadOf(e.fd)), WriteOf(e.fd))
    /\ UNCHANGED <<kq, files, peer, got, backlog, children, clients, fileMap>>

\* file_map->insert keeps an entry that is already there.
Inserted(map, f, s) == [map EXCEPT ![f] = IF @ = NoFd THEN s ELSE @]

\* Slips: reading from the socket goes on; the file is not registered.
OpenFor_StillReading(e, f, filter, c) ==
    /\ Received(e)
    /\ open' = open \cup {f}
    /\ client' = [client EXCEPT ![e.fd] = [c EXCEPT !.fileFd = f]]
    /\ fileMap' = Inserted(fileMap, f, e.fd)
    /\ cmds' = Add(cmds, <<f, filter>>)
    /\ UNCHANGED <<kq, broken, peer, got, backlog, children, clients, leaked>>

OpenFor_NotRegistered(e, f, filter, c) ==
    /\ Received(e)
    /\ open' = open \cup {f}
    /\ client' = [client EXCEPT ![e.fd] = [c EXCEPT !.fileFd = f]]
    /\ fileMap' = Inserted(fileMap, f, e.fd)
    /\ cmds' = Delete(cmds, ReadOf(e.fd))
    /\ UNCHANGED <<kq, broken, peer, got, backlog, children, clients, leaked>>

\* The request is complete and a file is opened for it: reading from the
\* socket stops, f is registered for one filter.  c holds the other fields.
OpenFor(e, f, filter, c) ==
    /\ Received(e)
    /\ open' = open \cup {f}
    /\ client' = [client EXCEPT ![e.fd] = [c EXCEPT !.fileFd = f]]
    /\ fileMap' = Inserted(fileMap, f, e.fd)
    /\ cmds' = Add(Delete(cmds, ReadOf(e.fd)), <<f, filter>>)
    /\ UNCHANGED <<kq, broken, peer, got, backlog, children, clients, leaked>>

\* GET, POST or HEAD of a file; empty files were answered at once.
OpenForRead(e) ==
    \E f \in Fd \ open, n \in FileSizes \ {0} :
        /\ OpenFor(e, f, "READ", client[e.fd])
        /\ left' = [left EXCEPT ![f] = n]

\* An error for which a page is configured; the page may be empty.
OpenErrorPage(e) ==
    \E f \in Fd \ open, n \in FileSizes :
        /\ OpenFor(e, f, "READ", client[e.fd])
        /\ left' = [left EXCEPT ![f] = n]

\* PUT.
OpenUpload(e) ==
    \E f \in Fd \ open, n \in 0..MaxBody :
        /\ OpenFor(e, f, "WRITE", [client[e.fd] EXCEPT !.body = n])
        /\ UNCHANGED left

\* A CGI request: its body goes to .payload/cgi_ready_<socket> first.
OpenCgiBody(e) ==
    \E f \in Fd \ open, n \in 0..MaxBody :
        /\ OpenFor(e, f, "WRITE",
                   [[client[e.fd] EXCEPT !.body = n] EXCEPT !.mode = "cgi"])
        /\ UNCHANGED left

\* A CGI request whose body file cannot be opened: the built-in page for 500.
NoCgiBody(e) ==
    /\ open = Fd \/ "exec" \in Faults
    /\ Received(e)
    /\ \E n \in 1..MaxOut :
          client' = [client EXCEPT ![e.fd] =
                        Respond([@ EXCEPT !.mode = "cgi"], n)]
    /\ cmds' = Add(Delete(cmds, ReadOf(e.fd)), WriteOf(e.fd))
    /\ UNCHANGED <<open, kq, files, peer, got, backlog, children, clients,
                   fileMap, leaked>>

\* An event on a file of file_map.  The loop takes the Client from the map and
\* from then on works on that Client's own file_fd.
FileReady(e, filter) ==
    e.flags = "ok" /\ e.filter = filter /\ e.fd \notin clients /\ e.fd \in Files

OwnerOf(e) == fileMap[e.fd]
FileOf(e)  == client[OwnerOf(e)].fileFd

\* check_cgi_status: waitpid has not seen the child exit.
CgiRunning(e) ==
    /\ FileReady(e, "READ")
    /\ client[OwnerOf(e)].mode = "cgi" /\ child[OwnerOf(e)] = "running"
    /\ Handled(e)
    /\ cmds' = Add(cmds, ReadOf(FileOf(e)))
    /\ fileMap' = Inserted(fileMap, FileOf(e), OwnerOf(e))
    /\ UNCHANGED <<open, kq, files, network, children, clients, client, leaked>>

\* Slip: the output is read without a look at the child.
Readable_Unchecked(e) ==
    FileReady(e, "READ") /\ Handled(e) /\ UNCHANGED child

\* A static file, or the output of a child that waitpid reaps if it had not.
Readable(e) ==
    /\ FileReady(e, "READ")
    /\ client[OwnerOf(e)].mode = "cgi" => child[OwnerOf(e)] # "running"
    /\ Handled(e)
    /\ child' = [child EXCEPT ![OwnerOf(e)] = "none"]

\* Slip: what read() returned is not compared with the buffer.
ReadMore_AnySize(e) ==
    /\ Readable(e)
    /\ FileOf(e) \notin broken
    /\ left' = [left EXCEPT ![FileOf(e)] = @ - BufSize]
    /\ UNCHANGED <<open, kq, broken, network, childOut, clients, client,
                   fileMap, cmds, leaked>>

\* read() filled the buffer: read_file returns 0 and waits for another event.
ReadMore(e) ==
    /\ Readable(e)
    /\ FileOf(e) \notin broken /\ left[FileOf(e)] >= BufSize
    /\ left' = [left EXCEPT ![FileOf(e)] = @ - BufSize]
    /\ UNCHANGED <<open, kq, broken, network, childOut, clients, client,
                   fileMap, cmds, leaked>>

\* Slips: the entry of file_map stays; the descriptor stays open; the socket is
\* not registered.
CloseFile_KeepsEntry(f, s, c) ==
    /\ open' = open \ {f} /\ kq' = WithoutFd(kq, f)
    /\ left' = [left EXCEPT ![f] = 0] /\ broken' = broken \ {f}
    /\ client' = [client EXCEPT ![s] = [c EXCEPT !.fileFd = NoFd]]
    /\ cmds' = Add(cmds, WriteOf(s))
    /\ UNCHANGED <<network, childOut, clients, leaked, fileMap>>

CloseFile_StaysOpen(f, s, c) ==
    /\ left' = [left EXCEPT ![f] = 0] /\ broken' = broken \ {f}
    /\ fileMap' = [fileMap EXCEPT ![f] = NoFd]
    /\ client' = [client EXCEPT ![s] = [c EXCEPT !.fileFd = NoFd]]
    /\ cmds' = Add(cmds, WriteOf(s))
    /\ UNCHANGED <<network, childOut, clients, leaked, open, kq>>

CloseFile_NotArmed(f, s, c) ==
    /\ open' = open \ {f} /\ kq' = WithoutFd(kq, f)
    /\ left' = [left EXCEPT ![f] = 0] /\ broken' = broken \ {f}
    /\ fileMap' = [fileMap EXCEPT ![f] = NoFd]
    /\ client' = [client EXCEPT ![s] = [c EXCEPT !.fileFd = NoFd]]
    /\ UNCHANGED <<network, childOut, clients, leaked, cmds>>

\* The file f is closed and taken from file_map; its owner's fields become c,
\* with no file, and its socket is registered for writing.
CloseFile(f, s, c) ==
    /\ open' = open \ {f}
    /\ kq' = WithoutFd(kq, f)
    /\ left' = [left EXCEPT ![f] = 0]
    /\ broken' = broken \ {f}
    /\ fileMap' = [fileMap EXCEPT ![f] = NoFd]
    /\ client' = [client EXCEPT ![s] = [c EXCEPT !.fileFd = NoFd]]
    /\ cmds' = Add(cmds, WriteOf(s))
    /\ UNCHANGED <<network, childOut, clients, leaked>>

\* read() came short of the buffer: that was the end, and init_response makes
\* the response.
ReadLast(e) ==
    /\ Readable(e)
    /\ FileOf(e) \notin broken /\ left[FileOf(e)] < BufSize
    /\ \E n \in 1..MaxOut :
          CloseFile(FileOf(e), OwnerOf(e), Respond(client[OwnerOf(e)], n))

\* read() failed: the socket is registered all the same, with no response.
ReadFail(e) ==
    /\ Readable(e)
    /\ "io" \in Faults \/ FileOf(e) \in broken
    /\ CloseFile(FileOf(e), OwnerOf(e), client[OwnerOf(e)])

\* write() took a part of the body.
WriteMore(e) ==
    /\ FileReady(e, "WRITE") /\ FileOf(e) \notin broken
    /\ Handled(e)
    /\ \E n \in 1..MaxBody :
          /\ client[OwnerOf(e)].writeSize + n < client[OwnerOf(e)].body
          /\ client' = [client EXCEPT ![OwnerOf(e)].writeSize = @ + n]
    /\ UNCHANGED <<open, kq, files, network, children, clients, fileMap, cmds,
                   leaked>>

\* Slip: it does not.
Rewound_Not(c) == c

\* write_file puts the cursor back to 0 for send_data, which uses it next.
Rewound(c) == [c EXCEPT !.writeSize = 0]

\* write() took the rest of an upload: 201.
UploadDone(e) ==
    /\ FileReady(e, "WRITE") /\ FileOf(e) \notin broken
    /\ client[OwnerOf(e)].mode = "plain"
    /\ Handled(e)
    /\ \E n \in 1..MaxOut :
          CloseFile(FileOf(e), OwnerOf(e),
                    Respond(Rewound(client[OwnerOf(e)]), n))
    /\ UNCHANGED child

\* write() failed: as ReadFail.
WriteFail(e) ==
    /\ FileReady(e, "WRITE")
    /\ "io" \in Faults \/ FileOf(e) \in broken
    /\ Handled(e)
    /\ CloseFile(FileOf(e), OwnerOf(e), Rewound(client[OwnerOf(e)]))
    /\ UNCHANGED child

\* write() took the rest of a CGI body: the body file is closed, and writing
\* to the socket is armed and disarmed before the program is started.
CgiBodyDone(e) ==
    /\ FileReady(e, "WRITE") /\ FileOf(e) \notin broken
    /\ client[OwnerOf(e)].mode = "cgi"
    /\ Handled(e)
    /\ kq' = WithoutFd(kq, FileOf(e))
    /\ broken' = broken \ {FileOf(e)}

\* Slips: the socket stays armed; the two commands are swapped.
CgiCmds_StaysArmed(s) == Add(cmds, WriteOf(s))
CgiCmds_Swapped(s) == Add(Delete(cmds, WriteOf(s)), WriteOf(s))

CgiCmds(s) == Delete(Add(cmds, WriteOf(s)), WriteOf(s))

\* The slots execute() may use: the body file's is free again.
Slots(e) == (Fd \ open) \cup {FileOf(e)}

\* The child runs or has ended well, and the result file holds what it wrote so
\* far.  That the file could not be opened for the child is not noticed: the
\* child writes elsewhere, and the file g holds what an earlier one has left.
Output(e, g) ==
    \E n \in CgiSizes, now \in {"running", "none"}, there \in BOOLEAN :
        /\ \/ Cardinality(Slots(e)) >= 3 /\ there = (now = "none")
           \/ "exec" \in Faults /\ Cardinality(Slots(e)) >= 2 /\ there
        /\ left' = [left EXCEPT ![g] = IF there THEN n ELSE 0]
        /\ child' = [child EXCEPT ![OwnerOf(e)] = now]
        /\ childOut' = [childOut EXCEPT ![OwnerOf(e)] = IF there THEN 0 ELSE n]

\* execute() opens stdin, the result file for the child and the result file
\* for itself, forks, and keeps the last one.  waitpid may already find that
\* the child has ended well.
CgiStarted(e) ==
    /\ CgiBodyDone(e)
    /\ LET s == OwnerOf(e) IN
       \E g \in Slots(e) :
          /\ Output(e, g)
          /\ open' = (open \ {FileOf(e)}) \cup {g}
          /\ fileMap' = Inserted([fileMap EXCEPT ![FileOf(e)] = NoFd], g, s)
          /\ client' = [client EXCEPT ![s] =
                           [Rewound(client[s]) EXCEPT !.fileFd = g]]
          /\ cmds' = Add(CgiCmds(s), ReadOf(g))
    /\ UNCHANGED <<network, clients, leaked>>

\* The descriptors execute() opened and never closes when it fails: all it
\* could get when the table is full, those of the other files when one cannot
\* be opened, the three of them when fork() fails, the result file when the
\* child has failed at once.
Lost(e, lost) ==
    \/ Cardinality(Slots(e)) < 3 /\ lost = Slots(e)
    \/ "exec" \in Faults /\ Cardinality(lost) <= 3

\* execute() fails: the built-in page for 500.
CgiFailed(e) ==
    /\ CgiBodyDone(e)
    /\ LET s == OwnerOf(e) IN
       \E lost \in SUBSET Slots(e), n \in 1..MaxOut :
          /\ Lost(e, lost)
          /\ open' = (open \ {FileOf(e)}) \cup lost
          /\ leaked' = leaked \cup lost
          /\ fileMap' = [fileMap EXCEPT ![FileOf(e)] = NoFd]
          /\ client' = [client EXCEPT ![s] =
                           Respond([Rewound(client[s]) EXCEPT !.fileFd = NoFd], n)]
          /\ cmds' = Add(CgiCmds(s), WriteOf(s))
    /\ UNCHANGED <<left, network, children, clients>>

\* The socket is writable.  The loop's test for a client that still has a file
\* open is the guard ~Busy.
ClientWritable(e) ==
    /\ e.flags = "ok" /\ e.filter = "WRITE" /\ e.fd \in clients
    /\ ~Busy(e.fd)

\* send() took a part of the response.
SendPartial(e) ==
    /\ ClientWritable(e) /\ peer[e.fd] # "reset"
    /\ Handled(e)
    /\ \E n \in 1..MaxOut :
          /\ client[e.fd].writeSize + n < client[e.fd].out
          /\ client' = [client EXCEPT ![e.fd].writeSize = @ + n]
          /\ got' = [got EXCEPT ![e.fd] = @ + n]
    /\ UNCHANGED <<open, kq, files, peer, inq, backlog, children, clients,
                   fileMap, cmds, leaked>>

\* Slips: writing is not disarmed; the Client is not cleared.
SendAll_StaysArmed(e) ==
    /\ ClientWritable(e) /\ peer[e.fd] # "reset" /\ Handled(e)
    /\ client' = [client EXCEPT ![e.fd] = FreshClient]
    /\ got' = [got EXCEPT ![e.fd] = 0]
    /\ cmds' = Add(cmds, ReadOf(e.fd))
    /\ UNCHANGED <<open, kq, files, peer, inq, backlog, children, clients,
                   fileMap, leaked>>

SendAll_NotCleared(e) ==
    /\ ClientWritable(e) /\ peer[e.fd] # "reset" /\ Handled(e)
    /\ got' = [got EXCEPT ![e.fd] = 0]
    /\ cmds' = Delete(Add(cmds, ReadOf(e.fd)), WriteOf(e.fd))
    /\ UNCHANGED <<open, kq, files, peer, inq, backlog, children, clients,
                   client, fileMap, leaked>>

\* send() took the rest: clear_client, and back to reading requests.
SendAll(e) ==
    /\ ClientWritable(e) /\ peer[e.fd] # "reset"
    /\ Handled(e)
    /\ client' = [client EXCEPT ![e.fd] = FreshClient]
    /\ got' = [got EXCEPT ![e.fd] = 0]
    /\ cmds' = Delete(Add(cmds, ReadOf(e.fd)), WriteOf(e.fd))
    /\ UNCHANGED <<open, kq, files, peer, inq, backlog, children, clients,
                   fileMap, leaked>>

\* send() fails: the connection was lost after kevent() returned.
SendFail(e) ==
    /\ ClientWritable(e) /\ peer[e.fd] = "reset"
    /\ Handled(e)
    /\ Drop(e.fd)

HandleSocket(e) ==
    \/ ClientGone(e) \/ Accept(e) \/ AcceptFail(e)
    \/ RecvFail(e) \/ RecvPartial(e)
    \/ AnswerAtOnce(e) \/ DeleteTree(e) \/ OpenForRead(e) \/ OpenErrorPage(e)
    \/ OpenUpload(e) \/ OpenCgiBody(e) \/ NoCgiBody(e)
    \/ SendPartial(e) \/ SendAll(e) \/ SendFail(e)

HandleFile(e) ==
    \/ FileGone(e) \/ CgiRunning(e)
    \/ ReadMore(e) \/ ReadLast(e) \/ ReadFail(e)
    \/ WriteMore(e) \/ UploadDone(e) \/ WriteFail(e)
    \/ CgiStarted(e) \/ CgiFailed(e)

\* The one thread of the server.
Server == Kevent \/ \E e \in batch : HandleSocket(e) \/ HandleFile(e)

-----------------------------------------------------------------------------
(***************************************************************************)
(* What happens around the server, at any moment                           *)
(***************************************************************************)

ServerVars == <<open, kq, clients, client, fileMap, cmds, batch, leaked>>

Connect ==
    /\ Cardinality(clients) + backlog < MaxConns
    /\ backlog' = backlog + 1
    /\ UNCHANGED <<ServerVars, files, peer, inq, got, children>>

PeerSend(s) ==
    /\ peer[s] = "up"
    /\ inq' = inq \cup {s}
    /\ UNCHANGED <<ServerVars, files, peer, got, backlog, children>>

\* The peer closes its sending side; what it has sent can still be received.
PeerFin(s) ==
    /\ peer[s] = "up"
    /\ peer' = [peer EXCEPT ![s] = "fin"]
    /\ UNCHANGED <<ServerVars, files, inq, got, backlog, children>>

PeerReset(s) ==
    /\ peer[s] \in {"up", "fin"}
    /\ peer' = [peer EXCEPT ![s] = "reset"]
    /\ inq' = inq \ {s}
    /\ UNCHANGED <<ServerVars, files, got, backlog, children>>

\* The CGI process of client s writes to its result file, which the server
\* has open as file_fd.
ChildWrite(s) ==
    /\ child[s] = "running" /\ childOut[s] > 0
    /\ childOut' = [childOut EXCEPT ![s] = @ - 1]
    /\ left' = [f \in Fd |-> left[f] + IF fileMap[f] = s THEN 1 ELSE 0]
    /\ UNCHANGED <<ServerVars, broken, network, child>>

ChildExit(s) ==
    /\ child[s] = "running" /\ childOut[s] = 0
    /\ child' = [child EXCEPT ![s] = "exited"]
    /\ UNCHANGED <<ServerVars, files, network, childOut>>

\* A file the server has open is lost (a forced unmount, a revoked device).
FileLost(f) ==
    /\ "gone" \in Faults
    /\ f \in Files
    /\ broken' = broken \cup {f}
    /\ UNCHANGED <<ServerVars, left, network, children>>

\* The PUT of another client writes the file f anew, which is being read.
FileCut(f) ==
    /\ "cut" \in Faults
    /\ f \in Files /\ ReadOf(f) \in kq /\ client[fileMap[f]].mode = "plain"
    /\ \E n \in FileSizes : left' = [left EXCEPT ![f] = n]
    /\ UNCHANGED <<ServerVars, broken, network, children>>

Environment ==
    \/ Connect
    \/ \E s \in Fd : \/ PeerSend(s) \/ PeerFin(s) \/ PeerReset(s)
                     \/ ChildWrite(s) \/ ChildExit(s)
                     \/ FileLost(s) \/ FileCut(s)

Next == Server \/ Environment

Spec == Init /\ [][Next]_vars

\* The operating system runs the server and every CGI process; a CGI program
\* that has begun ends.  Nothing is asked of the peers.
FairSpec ==
    /\ Spec
    /\ WF_vars(Server)
    /\ \A s \in Fd : WF_vars(ChildWrite(s) \/ ChildExit(s))
-----------------------------------------------------------------------------
(***************************************************************************)
(* Safety                                                                  *)
(***************************************************************************)

\* file_map holds raw Client pointers.  Every entry points to a client that is
\* still in client_map, that has this very file as its file_fd, and no
\* descriptor is a file and a client at once: the pointer the loop follows on
\* a file event is never dangling and never somebody else's.
FilesOwned ==
    \A f \in Files :
        /\ fileMap[f] \in clients /\ client[fileMap[f]].fileFd = f
        /\ f \in open /\ f \notin clients

\* While a request waits on a file its socket is registered for nothing, in the
\* queue or in the commands to come, and has no event left in the batch: that
\* is what makes it impossible that the client is erased, or answered, before
\* its file is finished.
QuietWhileBusy ==
    \A s \in clients : Busy(s) =>
        /\ \A k \in Applied(kq, cmds, open) : k[1] # s
        /\ \A e \in batch : e.fd # s

\* An event is handled for the descriptor it was reported for: close() and
\* open() in the handlers of one batch never leave an event behind whose number
\* now names another file or connection, and no descriptor has two events in a
\* batch.
FreshEvents ==
    \A e \in batch : e.fd # Listen =>
        /\ <<e.fd, e.filter>> \in kq
        /\ e.fd \in clients \cup Files
        /\ \A d \in batch : d.fd = e.fd => d = e

\* The server's own commands are never refused.  A refusal comes back as
\* EV_ERROR with the descriptor in it, and the loop would take it for the loss
\* of whatever has that number: a healthy client would be disconnected.
NoSelfError == Refused(kq, cmds, open) = {}

\* The client still holds the number of a file that was lost: FileGone closes
\* the file without telling it.
Stranded(s) == Busy(s) /\ fileMap[client[s].fileFd] # s

\* Every client is waited for: its socket is registered, or the file it waits
\* on is registered and leads back to it.  The only ones nothing leads to are
\* those whose file was lost, if the kernel ever reports that.
NeverForgotten ==
    \A s \in clients :
        \/ \E k \in Applied(kq, cmds, open) : k[1] = s \/ fileMap[k[1]] = s
        \/ "gone" \in Faults /\ Stranded(s)

\* A CGI process belongs to a client that is still there, in CGI mode, and
\* that is registered for the result file, where waitpid is called: no process
\* is left without a parent that will reap it, and the payload files, named
\* after the socket, serve one process at a time.  A lost result file strands
\* the client and its process together.
ChildWaited ==
    \A s \in Fd : child[s] # "none" =>
        /\ s \in clients /\ client[s].mode = "cgi" /\ Busy(s)
        /\ \/ /\ client[s].fileFd \in Files
              /\ ReadOf(client[s].fileFd) \in Applied(kq, cmds, open)
           \/ "gone" \in Faults /\ Stranded(s)

\* Every descriptor in use is a client's socket, or a file some client waits
\* on, or one that execute() or rm_sub_files failed to close, and only one of
\* these.
DescriptorsAccounted ==
    /\ open = clients \cup Files \cup leaked
    /\ clients \cap Files = {} /\ leaked \cap (clients \cup Files) = {}

\* write_file and send_data share one cursor.  When a response is being sent,
\* the cursor is what the peer has of this response: the response starts at its
\* first byte and no byte is skipped or sent twice.
ResponseIntact ==
    \A s \in clients : IF Busy(s) THEN got[s] = 0
                       ELSE got[s] = client[s].writeSize

\* A socket is registered for writing only with a complete response to send.
ResponseReady ==
    \A s \in clients : WriteOf(s) \in Applied(kq, cmds, open) =>
        client[s].out > client[s].writeSize /\ ~Busy(s)

-----------------------------------------------------------------------------
(***************************************************************************)
(* Liveness                                                                *)
(***************************************************************************)

\* A request that waits on a file does not wait for ever.
BusyEnds == \A s \in Fd : s \in clients /\ Busy(s) ~> ~(s \in clients /\ Busy(s))

\* A response is sent to its end, or its connection is lost.
ResponseEnds == \A s \in Fd : client[s].out > 0 ~> client[s].out = 0

\* A file that is registered for reading and has been read to its end (and to
\* which no program writes) is closed: read_file has reported that everything
\* was received.
ReadAllReported ==
    \A f \in Fd :
        (/\ ReadOf(f) \in kq /\ f \in Files /\ left[f] = 0
         /\ child[fileMap[f]] # "running") ~> f \notin Files

\* A CGI process is reaped.
ChildReaped == \A s \in Fd : child[s] # "none" ~> child[s] = "none"

-----------------------------------------------------------------------------
(***************************************************************************)
(* The loop implements Exchange                                            *)
(***************************************************************************)

\* The phase of the connection on descriptor s, from what its socket will be
\* registered for and whether its client has a file open.
Phase(s) ==
    IF s \notin clients THEN "closed"
    ELSE IF Busy(s) THEN "serving"
    ELSE IF WriteOf(s) \in Applied(kq, cmds, open) THEN "sending" ELSE "reading"

Abstract == INSTANCE Exchange WITH Conn <- Fd, phase <- [s \in Fd |-> Phase(s)]

\* Every step of the loop and of its surroundings is a step of one connection
\* that Exchange allows, or changes no connection's phase: requests are
\* answered one at a time, and none is abandoned while it is served.
ImplementsExchange == Abstract!Spec

-----------------------------------------------------------------------------
(***************************************************************************)
(* The inductive invariant                                                 *)
(***************************************************************************)

\* Only descriptors that a client or a file of file_map stands for are
\* registered or have commands waiting.
RegisteredOwned ==
    /\ \A k \in kq : k[1] \in clients \cup Files
    /\ \A k \in Knote : cmds[k] # "none" => k[1] \in clients \cup Files

\* No descriptor is registered for both filters, so that none is reported
\* twice in a batch.
OneFilter ==
    \A j, k \in Applied(kq, cmds, open) : j[1] = k[1] => j = k

\* A descriptor whose event is still to be handled has no command waiting:
\* what the kernel reported is what the handler finds.
PendingUntouched ==
    \A e \in batch : \A k \in Knote : k[1] = e.fd => cmds[k] = "none"

\* An event of the listening socket is an arrival, and one is waiting.
ArrivalWaits ==
    \A e \in batch : e.fd = Listen => e = Arrival /\ backlog > 0

\* FilesOwned, QuietWhileBusy, FreshEvents and NoSelfError hold of each other:
\* with these four more the conjunction is preserved by every step.
IInv ==
    /\ TypeOK /\ FilesOwned /\ QuietWhileBusy /\ FreshEvents /\ NoSelfError
    /\ DescriptorsAccounted /\ RegisteredOwned /\ OneFilter /\ PendingUntouched
    /\ ArrivalWaits

\* The faults after which the socket is armed without a response.
FilesNeverFail == Faults \cap {"io", "gone"} = {}

\* A file is reported as lost only if files can be lost.
LossesReal ==
    "gone" \notin Faults =>
        /\ broken = {}
        /\ \A e \in batch : e.flags = "bad" => e.fd \in clients

\* Where there is no client there is no connection, nothing of a response was
\* received and no program runs.
Unused(s) == peer[s] = "none" /\ got[s] = 0 /\ child[s] = "none"

\* A client that waits for a request or sends its response is registered.  The
\* cursor is what the peer has received: nothing while it waits, and less than
\* the response while it sends.
Attended(s) ==
    /\ child[s] = "none" /\ got[s] = client[s].writeSize
    /\ \E k \in Applied(kq, cmds, open) : k[1] = s
    /\ IF WriteOf(s) \in Applied(kq, cmds, open)
       THEN FilesNeverFail => client[s].out > client[s].writeSize
       ELSE client[s].writeSize = 0

\* A client that waits on a file is registered with it, unless the file was
\* lost.  A file is read with the cursor at 0, and a program runs only while
\* its output is to be read.
Waiting(s) ==
    LET f == client[s].fileFd IN
    /\ got[s] = 0
    /\ child[s] # "none" => client[s].mode = "cgi"
    /\ IF fileMap[f] = s
       THEN IF ReadOf(f) \in Applied(kq, cmds, open)
            THEN client[s].writeSize = 0
            ELSE WriteOf(f) \in Applied(kq, cmds, open) /\ child[s] = "none"
       ELSE "gone" \in Faults

InPhase(s) ==
    IF s \notin clients THEN Unused(s)
    ELSE IF Busy(s) THEN Waiting(s) ELSE Attended(s)

\* What NeverForgotten, ChildWaited, ResponseIntact and ResponseReady rest on,
\* given IInv.
RInv == LossesReal /\ \A s \in Fd : InPhase(s)
=============================================================================
