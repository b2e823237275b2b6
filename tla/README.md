# TLA+ specifications of soo-je-webserver

soo-je-webserver is an HTTP/1.1 server in C++98 for FreeBSD and macOS.  One
thread serves every connection: `Webserv::start` (`src/srcs/webserv.hpp`) waits
in `kevent()` and calls handlers of `Client`; CGI programs are the only other
processes.  This directory holds the specifications of it, the TLC
configurations that check them, and the proofs that TLAPS checks.

## 1. The system

| component | source | state it keeps | operations |
|---|---|---|---|
| Event loop | `webserv.hpp` | `client_map`, `file_map`, `ev_cmds`, `detecteds`, `server_map` | one branch of `start` per kind of event: error or EOF, arrival, readable socket, readable file, writable socket, writable file |
| Client control | `client.hpp`, `client_base.hpp` | one `Client` per socket: `read_buf`, `write_buf`, `file_fd`, `file_buf`, `write_size`, `cgi_mode`, `is_done_chunk`, `request`, `response`, `my_loc` | `recv_data`, `parse_request`, `check_chunked`, `check_bodysize`, `init_client_location`, `check_client_err`, `check_redirect`, `check_need_cgi`, `manage_session`, `ready_response_meta`, `ready_err_response_meta`, `read_file`, `write_file`, `send_data`, `clear_client` |
| CGI control | `cgi_controller.hpp` | paths, pid, status | `initialize`, `ready_body_file`, `execute`, `get_status` (waitpid) |
| Request parsing | `Request.hpp` | method, target, headers, body | `parse`, `push_body`, header and start-line checks |
| Response headers | `Response.hpp` | status (which doubles as the state of the framing), headers, session id | setters, `clear_response` |
| Location matching | `location.hpp`, `client.hpp` | `loc_map` of the server | `init_client_location` |
| Virtual servers | `server.hpp` | port, host, `loc_map`, `sid_map` | `open_port`, `accept_client`, `create_sid` |
| Configuration | `conf_parser.hpp` | the list of servers | `check_config_validation`, `parsing` |
| Utilities | `util.hpp` | none | string helpers, `rm_sub_files`, `make_middle_pathes` |
| Start-up | `main.cpp` | none | arguments, `SIGPIPE` ignored, parser, loop |

How they interact:

- **Shared containers.**  `file_map` holds raw pointers to the `Client` objects
  that `client_map` owns.  `Client` objects insert themselves; the loop erases.
- **Delayed commands.**  Nobody calls `kevent()` to change a registration:
  `add_kq_event` appends to `ev_cmds`, and the loop hands the vector over at its
  next `kevent()`.  Between the two the descriptor may be closed and reused.
- **Batches.**  `kevent()` returns many events at once, and the loop handles
  them all before it asks again.  A handler may make a later event stale.
- **Descriptor reuse.**  `open`, `accept` and `close` of one batch hand the same
  numbers around; they are the keys of both maps and of the events.
- **One cursor, two writers.**  `write_size` counts what `write_file` wrote of a
  body, then what `send_data` sent of the response.
- **One file system.**  Between the event that opens a file and the ones that
  read or write it, other clients truncate, delete or replace it.
- **One jar, several maps.**  A browser sends every port the cookie of any port
  of the host, while each server has a `sid_map` of its own.
- **Children.**  A CGI program writes its result file while the loop polls
  `waitpid`; its payload files are named after the socket.

Hard behaviours: the interleaving of the loop with peers, children and the
kernel; resets between `kevent()` and the call it announced; a full descriptor
table; steps of a sequence that fail half-way (`execute`, `rm_sub_files`); reads
and writes that end exactly at the buffer; requests that arrive in any
segmentation; requests of several clients on the same files; a process that is
started again while browsers keep their cookies.
`PROJECT.json` lists these hazards, each at its line, with the properties aimed
at it.

What makes each component correct:

- *Event loop*: no pointer, event or command is used after what it names is
  gone; no client is forgotten; every descriptor has an owner.
- *Client control*: request and response alternate; a response is sent from its
  first byte to its last; a response is only sent when there is one.
- *CGI control*: every child is reaped by the client that started it, and its
  output is read when the child has ended, not before.
- *Request framing*: what a request's body is depends on the bytes, not on how
  they were cut into segments; a complete request is always handed over.
- *Files and responses*: what is stored is what was sent, and is where later
  requests look for it; what is answered is what is stored, as far as clients do
  not disturb each other; nobody waits for more of a file than there is; a
  response has the length it announces.
- *Sessions*: nobody is taken for somebody else, and nobody loses a session.
- *Location matching*: the longest configured prefix of the target.
- *Configuration*: what is accepted is what `docs/config_file_rule.md` allows,
  and what is parsed is what was written.

## 2. The modules

| module | models | extends |
|---|---|---|
| `Kqueue` | `ev_cmds` and what `kevent()` and `close()` make of it | |
| `Webserv` | the loop, its handlers, the kernel, the peers and the children | `Kqueue` |
| `Exchange` | the abstract specification: what one connection may observe | |
| `Framing` | how the bytes of a connection become requests | |
| `LocationMatch` | which location answers a target | |
| `Service` | what a request does to the files, and what it is answered | instantiates `LocationMatch` |
| `Session` | sessions and the cookies of browsers | |
| `Config` | the two passes over the configuration file | |
| `MCWebserv`, `MCFraming`, `MCLocationMatch`, `MCService`, `MCSession`, `MCConfig` | instances and symmetry for TLC | the module of that name |
| `WebservProofs` | the command vector, the inductive invariant of the loop and the theorems | `Webserv` |
| `ExchangeProofs` | the loop implements `Exchange` | `WebservProofs` |
| `ResponseProofs` | requests and their responses in the loop | `ExchangeProofs` |
| `FramingProofs` | the framing, for all requests and all segmentations | `Framing` |
| `LocationProofs` | what a server answers with, for every target | `LocationMatch` |
| `ServiceProofs` | files and responses, for every tree and all locations | `Service` |
| `SessionProofs` | sessions, for any number of browsers and ports | `Session` |
| `ConfigProofs` | the two passes over the configuration, for files of any length | `Config` |

The modules divide one program, and meet at the handlers.  `Webserv` has every
event, descriptor and buffer position, and leaves open what a request asks for;
`Framing` refines its bit "this `recv` completes the request"; `Service` says
which of the answers of `Webserv` a complete request leads to and what they do to
the files, with `LocationMatch` for the choice of the location; `Session` is the
call of `manage_session` between the two.  All of them have the handler as the
unit of atomicity, since there is one thread.

An operator `X_Slip` is `X` with a plausible mistake.  `Next` never uses it;
putting it in the place of `X` shows that a property notices the mistake.

### Kqueue

The commands of two different (descriptor, filter) pairs commute, so `ev_cmds`
is one entry per pair.  An entry sums up the sequence of commands pushed on its
pair (`none`, `add`, `delete`, `cancel`, `renew`, `refused`); `Add` and `Delete`
are the two calls of `add_kq_event`.  `Applied` is the set of registered pairs
after the next `kevent()`, `Refused` what that call answers with `EV_ERROR`:
`ENOENT` and `EBADF`.  `close()` removes registrations but not commands.

### Webserv

A step of the loop is either `Kevent` (only when the batch is used up) or the
handler of one event of the batch, in any order: the kernel promises none.
Each action is one path through a branch of `start`, with all that the methods
it calls change:

| branch of `start` | actions |
|---|---|
| `EV_ERROR` / `EV_EOF` (143-160) | `ClientGone`, `FileGone` |
| arrival on a listening socket (163-197) | `Accept`, `AcceptFail` |
| readable socket (198-302) | `RecvFail`, `RecvPartial`, `AnswerAtOnce`, `DeleteTree`, `OpenForRead`, `OpenErrorPage`, `OpenUpload`, `OpenCgiBody`, `NoCgiBody` |
| readable file (306-345) | `CgiRunning`, `ReadMore`, `ReadLast`, `ReadFail` |
| writable socket (347-380) | `SendPartial`, `SendAll`, `SendFail` |
| writable file (382-421) | `WriteMore`, `UploadDone`, `WriteFail`, `CgiStarted`, `CgiFailed` |

| variable | in the program |
|---|---|
| `open`, `kq`, `left`, `broken` | the descriptor table, the kqueue, what is left to read of each file, files that were lost |
| `backlog`, `peer`, `inq`, `got` | connections not accepted, the state of each connection, sockets with data, what the peer has of the current response |
| `child`, `childOut` | the CGI process of a client, and what it has yet to write |
| `clients`, `client` | the keys of `client_map`; `file_fd`, `cgi_mode`, body length, `write_size` and the length of `write_buf` |
| `fileMap`, `cmds`, `batch` | `file_map`, `ev_cmds`, the rest of `detecteds` |
| `leaked` | descriptors that are open and that nothing names: what `execute` leaves behind when it fails, and the directories `rm_sub_files` never closes |

Abstractions.  Contents of requests, files and responses are sizes in units of
data; which of the actions a complete request leads to is nondeterministic,
since it depends on the request and the file system.  `recv` either completes
the request or does not.  `DETECT_SIZE` is larger than any
number of descriptors here, so every ready pair is in the batch.  The listening
socket is apart from the descriptor slots and is never lost.

`FaultAssumption` names what may go wrong, and each configuration chooses:
`io` (read or write of a file fails), `exec` (a file for a program does not
open, fork fails, or the program fails at once), `gone` (the kernel reports a
file as lost), `slow` (a peer stops reading), `tree` (directories are deleted),
`cut` (an upload writes a file while another client reads it).  `accept` may fail
at any time: the connection may be over by then.

`execute` looks at `file_fd` twice and at `result_fd` never
(`cgi_controller.hpp:82`).  `Output` has what follows when only the file for the
program's output does not open: the program runs without one, and what is
answered is what that file held before.

### Exchange

Four phases per connection: closed, reading, serving, sending.  It says that a
request being served is never abandoned, that nothing is read until the
response is sent, and that requests are answered one at a time.
`ImplementsExchange` is the refinement: the phase is computed from what the
socket will be registered for once the waiting commands are applied, and from
`file_fd`.

### Framing

Refines what `Webserv` takes as one bit, "this `recv` completes the request".
A peer sends one of `Requests`, and may go on with the beginning of another one
(`more`) without waiting for the answer; every `recv` returns any number of its
tokens up to `BufSize`.  The four actions `ParsePlain`, `ParseBare`,
`ParseLength` and `ParseChunked` are a complete head followed by `parse`,
`check_chunked` and `check_bodysize` in one handler: of a request without a body,
of a POST or PUT that does not say how its body is delimited (what came with the
head is its body), and of one that does; `MoreLength` and `MoreChunked` are later
segments, with the state that survives between two handlers in `status`
(`response.status`), `readBuf` and `body`.  `Chunks` is the decoding loop that
`recv_data` and `check_chunked` each have a copy of, and `Turn` one turn of it.
`Atoi` is an int, which ends before `IntLimit`: `push_body` reads Content-Length
as a long, `check_bodysize` as an int.  A token is a byte, except that a head line and the empty line are one
token each: what the code looks for in a head is where it ends.  Chunk data may
be anything, "CR", "LF" and what looks like a size included; the size of a chunk is
one token, `Sizes[n]`, where the code has one or more hexadecimal digits.  Chunks
may be malformed in two ways: an empty line where a size should be is refused, a
line that is no number counts as 0, and so as the last chunk.

### LocationMatch

`Request` is `init_client_location`; a path is the sequence of its names.  The
map is the server's, so the module keeps it across requests: `Matched` inserts
an empty location for "/" when the walk finds nothing, as `loc_map["/"]` does.

### Service

One connection is a record with the stage of its request:

| stage | between the events |
|---|---|
| `idle` | no complete request |
| `reading` | a file is open to be answered (`read_file` is called again) |
| `writing` | a file is open for an upload (`write_file`) |
| `script` | a CGI program has the request |
| `dropped` | a directory was opened as a file and its read failed: no response |
| `answered` | `write_buf` is complete (`send_data`) |

`Handle` is the tail of the readable-socket branch, in its order:
`check_client_err` (`Refusal`, `Refuse`), `check_redirect` (`Redirect`),
`check_need_cgi` (`StartScript`), then `ready_response_meta` by method:
`GetNothing`, `GetDirectory` and `GetFile`; `DeleteFile`, `DeleteDirectory` and `DeletePartly`
(`rm_sub_files` that breaks off); `PutBare`, `PutDirectory`, `PutFails` and
`PutFile` (`make_middle_pathes`, then `open` with `O_TRUNC`).  `Fail` is
`ready_err_response_meta`, with the fallback to the built-in page for 500.
`Read`, `Write`, `ScriptEnds`, `ScriptFails` and `Finish` are the later events.

A path is made twice, and not in the same way: `check_client_err` looks at the
root, a slash and the rest of the target (`Checked`), while reading, storing and
deleting use the root and the rest with no slash between them (`Joined`), and
deleting a directory, or finding nothing, takes the last character off
(`Erased`).  For a root without a slash at its end the two differ: `Glued` is the
name that comes of the last name of the root and the first of the rest, `Cut` a
name without its last character.  A path is its names and whether a slash ends
it; `Place` is where the kernel takes it, "." and ".." resolved, and `At` what is
there (`stat`, `access`).  `Script` looks for the first "." of the whole target,
its query included, as `check_need_cgi` does.

`tree` is the file system as paths see it, `data` what each file holds: a name
may go while somebody has the file open, and a new file may take it.  A unit of
data is named after the client that wrote it, so that a mixture of two uploads
can be told from either.  `others` is a ghost: who may have written the file
since it was opened.

What the code leaves open is nondeterministic: a descriptor or permission that
lacks, a client that goes, an output of a program with, without or of nothing but
headers, and, for a PUT of a path that does not exist, what an uninitialised
`struct stat` says (`PutDirectory` or `PutFile`, `client.hpp:317`).  `PutBare`
ends the process: `substr()` past the end of the target throws, and nothing
catches it (`up`).  An output of a program that is empty is not among the outcomes: the kernel
never reports it as readable (`exact_buffer`).  The server may write all
directories of `Paths`; a path beyond `Paths` names nothing and can become no file.

### Session

A browser has some connections (`Lane`) to any of the ports (`Server`), and one
jar for all of them, as cookies have no port.  `Ask` sends the jar's id;
`Confirm`, `Recognise` and `CreateSid` are the three ways through
`manage_session`; `Unparsed` is the error page that is made before it is called;
`Deliver` sends the response and keeps its cookies; `Lose`, `Forget` and
`Restart` are a lost connection, a browser that drops its cookies and a process
that starts again.  `owner`, `run` and `from` are ghosts: for whom, and in which
run of the process, an id was made.

### Config

`FirstPass` writes a line and judges it as `check_config_validation` does,
`SecondPass` builds `servers` as `parsing` does.  A line is a record of what
either pass can tell of it.  The first pass judges the words before the semicolon,
the second takes the words between blanks, and only in a location block takes a
semicolon off the line, if it is its last character.  So what follows a semicolon
(`more`, or blanks) becomes part of an `index` (`Value`, `LocationValue`), leaves
the semicolon in a `return` (`Entry`), makes an `accept_method` unknown
(`NoMethod`), and one in front makes a keyword unknown (`Unknown`).  The second pass has the outcome `fault` where the
code has undefined behaviour (`back()` of an empty vector, a word that is not
there) or never ends (the loop over a location block).  Abstracted: a semicolon
between blanks, which is a word of its own, and the conversion of numbers.

## 3. The runs

| run | instance | what it shows |
|---|---|---|
| `loop_safety` | 4 descriptors, 2 connections, all faults | no pointer, event or command outlives what it names; no client is forgotten; no CGI process is orphaned; every response is sent from its first byte; descriptors are accounted for; `IInv`; the refinement of `Exchange` |
| `loop_cgi` | 4 descriptors, 1 connection, bodies and responses in parts; `exec`; fair | responses are complete when sending starts and are sent from their first byte to their last; requests that wait on a file are answered, CGI processes reaped; `RInv` |
| `exact_buffer` | a file of exactly `BUFFER_SIZE`; fair | violation, see section 6 |
| `dropped_request` | a file that cannot be read | violation, see section 6 |
| `framing_cut` | all segmentations of 210 requests, `BufSize` 7 | `BodyExact`, `NotEarly`, `Prompt`, `NothingLost` |
| `framing_full` | the same, `BufSize` 4 | violation, see section 6 |
| `location_closed` | all servers over two names, two levels deep, closed under parents | `MostSpecific`, `RoutesKept` |
| `location_first` | the same without that condition | violation, see section 6 |
| `service_files` | 2 clients, 4 locations (one with a root without a slash), 14 requests on 8 paths | uploads, downloads, deletions and error pages that cross each other: `UploadExact`, `UploadFound`, `GetExact`, `ReaderServed`, `LengthTrue` |
| `service_head` | the same | violation, see section 6 |
| `session_apart` | 2 browsers with 2 connections each, 2 ports, 2 runs | `OwnSession`, `SidApart`, `SessionKept`, `ConfirmedOnce` |
| `config_file` | all files of up to 6 lines out of 26 | `NoFault`, `PortsDistinct`, `AsWritten` |

Why the bounds are enough to see what they are for:

- *Descriptors.*  `execute` opens three files while the socket and the body file
  are open: four slots let it succeed with one client, fail half-way with two,
  and make numbers come back within one batch.  Two connections are the fewest
  that can follow each other's pointers.
- *Sizes.*  `BufSize` 2 with file sizes 0 and 3 gives the empty file, the short
  read and the read in several parts; size 2 is the exact multiple.  It is left
  out of `loop_cgi`, because `exact_buffer` shows that the server hangs on it.
- *Segments.*  `BufSize` 7 is longer than a head of two lines with a chunk, and
  shorter than most requests, so that a segment may end anywhere.  With
  `IntLimit` 8 the length of every body but two is an int: 9 comes out negative,
  18 too small.
- *Files.*  Two clients are the fewest that disturb each other, and a file that
  one deletes while the other reads or writes it needs a third name and a second
  file.  Uploads of 0 to 3 units against a limit of 2 give the empty, the partial
  and the refused body; three units on the disk take two reads.  One location
  redirects, one has scripts, one accepts uploads below another root; the fourth
  has that same directory for its root, written without a slash, so that what is
  stored through it has another name.  One target goes up with "..".
- *Sessions.*  Two ids let two answers cross; `MaxId` and `MaxRun` only bound
  counters (`CreateSid` and `Restart` stop there), the proofs have them as
  parameters.
- *Lines.*  Six are the fewest for two servers that both ask for a port, each
  with its brackets, and for a location block with two lines between its server's.
- *Symmetry* permutes descriptors in `loop_safety`, clients and new files in
  `service_files`, and browsers, ports and connections in `session_apart`: these
  runs have no liveness.

`MaxConns` bounds connections that are open or waiting at a time, not over time:
descriptors close and connections come again without limit.  `CHECK_DEADLOCK
FALSE` is set where the system may stop: a parser ends (`Config`), the process
ends (`Service`), and the bounds of `Session` are used up.

## 4. Fairness

Only `Webserv` has liveness.  `FairSpec` asks weak fairness of `Server`, the
disjunction of all steps of the loop, and of the steps of each CGI program.  The
server is one thread that never blocks except in `kevent()`, so the operating
system's scheduling of it is exactly that; it is not fairness of any single
handler, and the order in which events of a batch are handled stays arbitrary.
The condition on children says that a program that has begun ends.  Nothing is
asked of peers; the fault `slow`, a peer that stops reading for ever, is left out
where a response must end.

## 5. What is proved

Every safety property of the passing runs is a theorem.  TLAPS checks eight
modules: for the loop every descriptor table, buffer size, set of file sizes,
number of connections and set of faults; for the framing any requests, whatever
the number, length and contents of their chunks, any buffer, any limit of an int
and every segmentation; for the configuration files of any length, of any lines;
for sessions any number of browsers, ports, connections, ids and runs; for files
any tree, locations, error pages, requests, clients and buffer; for locations any
names and depth.

The assumptions are the named ones of the modules.  `Webserv`: descriptors are
not the two special values (`FdAssumption`), the table is finite
(`TableAssumption`), sizes are naturals and the buffer is not empty
(`SizeAssumption`), faults are among those named (`FaultAssumption`).
`Framing`: the buffer is not empty, no two sizes are written alike, none like the
last chunk, a line end or what is no number, and a request is one of six kinds, its
chunks not empty and of a length that can be written (`FramingAssumption`).
`Config`: there is a default for each field of a server, and its maps begin empty
(`ConfigAssumption`).
`Session`: `NoOneAssumption`, `BoundAssumption`.  `Service`: locations differ in
path and one is "/" (`LocationAssumption`), requests have the fields of one
(`RequestAssumption`), what names are glued or cut to (`NameAssumption`), and to
begin with everything is in a directory and no file has two names
(`FileAssumption`).

| theorem | states |
|---|---|
| `Invariance` | `IInv` is an invariant of `Webserv` |
| `TypeCorrect` | `Webserv!TypeOK` |
| `PointersValid` | `FilesOwned` |
| `NoInterference` | `QuietWhileBusy` |
| `EventsFresh` | `FreshEvents` |
| `CommandsAccepted` | `NoSelfError` |
| `NoOtherLeak` | `DescriptorsAccounted` |
| `ExchangeImplemented` | `ImplementsExchange` |
| `ResponseProofs`: `PhasesFit` | `RInv` is an invariant of `Webserv` |
| `ResponseProofs`: `NeverForgottenHolds`, `ChildWaitedHolds`, `ResponseIntactHolds` | the property in the name |
| `ResponseProofs`: `ResponseReadyHolds` | `ResponseReady`, if no file fails (`FilesNeverFail`); `dropped_request` shows that it does not hold otherwise |
| `FramingProofs`: `TypeOKHolds`, `BodyExactHolds`, `NotEarlyHolds`, `PromptHolds`, `NothingLostHolds` | the property in the name |
| `ConfigProofs`: `TypeOKHolds`, `NoFaultHolds`, `PortsDistinctHolds`, `AsWrittenHolds` | the property in the name |
| `ConfigProofs`: `PassesAgreeHolds`, `ReadSoFarHolds` | at every line, what the second pass does with it is what the first judged it to be; what it has built by then is what is written up to there |
| `SessionProofs`: `TypeOKHolds`, `OwnSessionHolds`, `SidApartHolds`, `SessionKeptHolds`, `ConfirmedOnceHolds` | the property in the name |
| `ServiceProofs`: `TypeOKHolds`, `UploadExactHolds`, `UploadFoundHolds`, `GetExactHolds`, `ReaderServedHolds`, `LengthTrueHolds` | the property in the name |
| `LocationProofs`: `TypeOKHolds`, `RoutesKeptHolds` | the property in the name, for servers with a block for "/" or none at all |
| `LocationProofs`: `MostSpecificHolds` | `MostSpecific`, for servers whose blocks have blocks for all their parents and no "." in their paths |

*The loop.*  None of the safety properties is inductive alone.  That no
`Client` is erased while a file event can still follow a pointer to it
(`FilesOwned`) rests on its socket being registered for nothing meanwhile
(`QuietWhileBusy`); that holds because the handler that opens the file deletes
the registration, and because that command is accepted (`NoSelfError`) and no
event of the same batch still names the socket (`FreshEvents`).  That events are
fresh rests on every handler closing only the descriptor whose event it handles
or one without event, and on a descriptor having at most one event per batch
(`OneFilter`).  That commands are accepted rests on what the kernel reported being
still registered, with nothing waiting, when its handler runs
(`PendingUntouched`), and on closed descriptors leaving no commands behind
(`RegisteredOwned`).  `ArrivalWaits` keeps `accept` from being called for nothing.

`WebservProofs` begins with what each shape of command sequence does to
`Applied` and `Refused`, proved once; then it has a lemma per family of handlers
(`TurnKeeps`, `AnswerKeeps`, `OpenForKeeps`, `CloseFileKeeps`, `CgiStartedKeeps`
and others), collected by `SocketStep`, `FileStep` and `EnvironmentStep`.
`ExchangeProofs` takes `IInv` from there: what decides the phase of a client
(`Kept`) is untouched for all clients but one, and `ClientEvent` and `OwnerPhase`
tell the phase of that one from the event in hand.

*Responses.*  `RInv` gives every client the shape of its phase: what the cursor
`write_size`, the body, `write_buf`, `cgi_mode`, the CGI process and the
registrations look like while the client reads a request, reads or writes a file,
waits for a program, or sends.  It is what the four properties have in common: a
client is not forgotten because every phase has its registration; a program is
waited for because only the phase that polls it has one; a response is intact
because the phase of sending begins with a cursor of 0, which the upload before it
must have reset.  It is inductive on top of `IInv`, which tells which client an
event belongs to.

*The framing.*  The four properties and the types are inductive together
(`IInv` of `FramingProofs`): with `NothingLost` the state between two segments
determines what was received, so the next one completes the body that was sent or
leaves such a state again.  The weight is in `ChunksParse`, what the decoding loop
makes of any part of a chunked body that begins with a chunk.  `Growth` and
`Longer` place the chunks in the stream, `AtChunk` and `AtEnd` say what stands
where a chunk or the end begins, `TakesChunk` and `TakesEnd` what one turn of the
loop makes of it, `Stops` what it makes of one that is not complete, whatever its
data looks like.  Induction by a theorem of the library is beyond the provers (it
takes an operator), so the induction over the turns is one over a set of numbers
(`Downward`, from the least element of a set, `LeastElement`), and that the loop
has a value at all, `WalkExists`, likewise.

*The configuration.*  `PassesAgree` relates the passes: of the lines that are
read, each is in the block the bracket stack of the first pass says, has been
judged there, and is met by the second in the same block; so a line always has
the words that are read of it, and a directive has a server before it (`NoFault`).
`ReadSoFar` says which server and location each line belongs to (`Owner`, `Open`,
`Ended`), and that what is built is what is written for them up to the current
line (`FieldsSoFar`, `LocsSoFar`, `LocSoFar`, `PortsSoFar`); at the end of the file
that is `AsWritten` and `PortsDistinct`.

*Sessions.*  `SInv` adds to the four properties that ids up to the counter have
an owner (`Counted`), that an id is in the map of one port (`OneServer`), since
the counter is shared, and that what jars and requests claim about this run is
true (`HonestJar`, `HonestLink`).  What names an earlier run claims nothing.

*Files.*  `ConnInv` says of every connection that its fields fit its stage
(`Typed`), that what it has read or written so far agrees with the file up to its
offset unless `others` is not empty (`Faithful`), and that nobody else writes its
file while `others` is empty (`Apart`).  `PutFile` is the step that may break it:
it empties a file others use, and puts its client into the `others` of each of
them.  That a reader has read whole buffers so far is part of `Typed`.  `TreeInv` has that a file has one name and that the names of an
uploaded file are where its target is looked for (`Home`).  Every step but
`PutFile` leaves a file with the name it had or with none (`Fewer`, `FewerKeeps`);
for that one `SameNames` says that the path an upload writes to and the one that is
checked lead to the same place if the root ends with a slash, and `PutFileHome`
that nobody else's file is given a second name.

*Locations.*  With a block for "/" the walk always begins, so `loc_map["/"]`
never inserts and `locMap` stays what the server was started with (`Unchanged`).
`PathLookedUp` says that a path without "." that a target begins with survives
the cut at the first "."; with all parents there, the walk gets at least as far
(`RouteSpecific`).

Only model-checked: the liveness properties of `Webserv` (`BusyEnds`,
`ResponseEnds`, `ChildReaped`), and with them every use of fairness and `ENABLED`,
which are beyond the prover; and the five violations of section 6, which are
traces.

## 6. Findings

Each is a run that TLC refutes, and states what a comment or document says.

- `exact_buffer`: `read_file` reports a file as received only after a short
  read.  A file whose size is a multiple of `BUFFER_SIZE` is never followed by
  one, since `EVFILT_READ` no longer fires at its end: its client hangs
  (`client_base.hpp:185`, against the comment at 172).
- `dropped_request`: after a failed read or write of a file the socket is armed
  for writing with no response (`webserv.hpp:325`, against the comment at 355).
- `framing_full`: a complete head whose last segment fills the buffer is not
  looked at (`client_base.hpp:161`, against the comment at 82).
- `location_first`: a location is not found unless every one of its parents has
  a block too (`client.hpp:376`, against `location.hpp:26`).
- `service_head`: in `cgi_mode` the empty line after the head is left to the
  program's output, also for a HEAD, an error page and an output that has none
  (`client.hpp:97`, against the comment at 96).

What the other models had to make room for, without a document that says
otherwise:

- uploads to one path at the same time truncate and mix with each other, and
  each is answered 201 (`UploadExact` excepts them);
- a body that arrives with its head is cut to Content-Length, one completed by
  later segments is not (`BodyExact` says which), and a length that does not fit
  an int is taken for a smaller one (`Fits`);
- a PUT of a location's path without its slash ends the process (`PutBare`);
- for a location whose root does not end with a slash, what is checked is not what
  is served, stored or deleted (`Checked`, `Joined`, `Erased`): an upload to
  "/v/f" under "up" becomes "upf", and DELETE of "/v/" takes a character off "up".
  No document asks for the slash; `UploadFound` is stated for roots that have it;
- in a location block a semicolon is only taken off the end of a line: with a blank
  after it, it stays in the value of `index` and `return`
  (`conf_parser.hpp:298`);
- `execute` does not notice that the file for a program's output did not open
  (`cgi_controller.hpp:82`, `Output`);
- an id that outlived its process may be given to somebody else (`OwnSession`,
  `SidApart`);
- `root` and `server_name` of a server are assigned to copies and lost
  (`conf_parser.hpp:248`): `AsWritten` is stated for the other values;
- `leaked` in `Webserv`: the files of an `execute` that failed and the
  directories of `rm_sub_files` are never closed; `DescriptorsAccounted` keeps
  that from growing elsewhere.

## 7. What is not modelled

- The syntax of the start line and of headers: `parse` decides on it once, when
  the head is complete, and it shows only as the outcome (`Framing`'s kinds,
  `Session`'s `Unparsed`).  Likewise what the rest of a refused request's body
  would parse to: in `Framing` such a peer connects again.
- The environment of CGI programs (`make_target_info`, `init_env`): text for
  another process, made after `fork()`.
- Dates, MIME types, the wording of headers and pages.
- `open_port` and `main`: they run once, before the loop, and every failure ends
  the process.
- Paths with empty names ("//"), links, hard links included, and permissions that
  change while the server runs.

## 8. What comes next

1. Lemmas on liveness that need no fairness: what a step of the loop must change
   of a client that waits (`BusyEnds` rests on it), as an action property.
2. The stored body: one invariant from the segments of a PUT (`Framing`) to the
   file it is answered for (`Service`).
