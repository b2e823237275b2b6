------------------------------- MODULE Framing -------------------------------
(***************************************************************************)
(* How the bytes of one connection become requests: Client_base::recv_data *)
(* and, when it reports a complete head, Client::parse_request,            *)
(* check_chunked and check_bodysize, called by Webserv::start until the    *)
(* request is handed over to be answered.                                  *)
(*                                                                         *)
(* A peer sends a request, and may go on without waiting for the answer;   *)
(* recv() cuts what it sends into segments as it likes.  What is already   *)
(* decided about a request waits between two segments in response.status   *)
(* (which serves as the state of the framing), read_buf and request.body.  *)
(*                                                                         *)
(* The input is a sequence of tokens: "h" and "blank" for a head and the   *)
(* empty line that ends it, "CR", "LF", one for the size of a chunk, and   *)
(* anything for data, the other tokens included.                           *)
(***************************************************************************)
EXTENDS Integers, SequencesExt

CONSTANTS
    BufSize,     \* BUFFER_SIZE, in tokens
    IntLimit,    \* INT_MAX + 1
    Data,        \* what data consists of: any tokens
    Sizes,       \* Sizes[n]: the token that is read as the size n
    Requests     \* the requests a peer may send

\* A request: the length of its head, how its body is delimited, the body, and
\* what the peer sends after it without waiting.
\*   plain    a GET, DELETE or HEAD: no body
\*   length   Content-Length
\*   chunked  Transfer-Encoding: chunked, the body cut into chunks
\*   broken   chunked, with an empty line where the next size should be
\*   garbled  chunked, with a size that is no number
\*   bare     a POST or PUT that does not say how its body is delimited
ASSUME FramingAssumption ==
    /\ BufSize \in Nat \ {0} /\ IntLimit \in Nat \ {0}
    /\ DOMAIN Sizes \subseteq Nat \ {0}
    /\ \A m, n \in DOMAIN Sizes : Sizes[m] = Sizes[n] => m = n
    /\ \A n \in DOMAIN Sizes : Sizes[n] \notin {"CR", "0", "x"}
    /\ \A r \in Requests :
          /\ r.kind \in {"plain", "bare", "length", "chunked", "broken", "garbled"}
          /\ r.head \in Nat /\ r.chunks \in Seq(Seq(Data)) /\ r.more \in Seq(Data)
          /\ \A i \in DOMAIN r.chunks : Len(r.chunks[i]) \in DOMAIN Sizes
          /\ r.kind \in {"plain", "bare"} => r.chunks = <<>>

VARIABLES
    req,       \* the request the peer is sending
    at,        \* how much of it recv() has returned
    filled,    \* the last recv() filled the buffer
    readBuf,   \* read_buf
    body,      \* request.body
    status,    \* response.status
    handed     \* the request has been handed over

vars == <<req, at, filled, readBuf, body, status, handed>>

NoStatus == ""

-----------------------------------------------------------------------------
(***************************************************************************)
(* What a peer sends                                                       *)
(***************************************************************************)

Token ==
    Data \cup {Sizes[n] : n \in DOMAIN Sizes}
         \cup {"h", "blank", "CR", "LF", "0", "x"}

CrLf == <<"CR", "LF">>

Encoded(chunk) == <<Sizes[Len(chunk)]>> \o CrLf \o chunk \o CrLf
EncodedAll(chunks) ==
    FlattenSeq([i \in DOMAIN chunks |-> Encoded(chunks[i])])

\* The kinds that are cut into chunks.
InChunks == {"chunked", "broken", "garbled"}

\* What follows the chunks: the last one, of no data; the empty line; or the
\* line that is no size, and something after it.
Ending(r) ==
    CASE r.kind = "broken"  -> <<"CR", "LF", "x">>
      [] r.kind = "garbled" -> <<"x", "CR", "LF", "x", "x">>
      [] OTHER              -> <<"0", "CR", "LF", "CR", "LF">>

Content(r) ==
    IF r.kind \in InChunks THEN EncodedAll(r.chunks) \o Ending(r)
                           ELSE FlattenSeq(r.chunks)

Whole(r) == [i \in 1..r.head |-> "h"] \o <<"blank">> \o Content(r)
Wire(r) == Whole(r) \o r.more

\* Content-Length
Length(r) == Len(FlattenSeq(r.chunks))

Init ==
    /\ req \in Requests
    /\ at = 0 /\ filled = FALSE /\ readBuf = <<>> /\ body = <<>>
    /\ status = NoStatus /\ handed = FALSE

-----------------------------------------------------------------------------
(***************************************************************************)
(* Decoding chunks                                                         *)
(***************************************************************************)

\* find("\r\n", c): the places after c where a line ends.
LineEnds(b, c) ==
    {p \in c..(Len(b) - 2) : b[p + 1] = "CR" /\ b[p + 2] = "LF"}

\* strtol() of a line; what is no number counts as 0.
Value(token) ==
    IF \E n \in DOMAIN Sizes : Sizes[n] = token
    THEN CHOOSE n \in DOMAIN Sizes : Sizes[n] = token
    ELSE 0

\* The chunk whose size line ends at rn is complete, with the CRLF after it.
Complete(b, rn, size) == Len(b) - (rn + 2) >= size + 2

Decoded(verdict, data, rest) ==
    [verdict |-> verdict, data |-> data, rest |-> rest]

\* Slip: what is left over is not kept.
Turn_RestLost(b, c, walk) ==
    LET rn   == Min(LineEnds(b, c))
        size == Value(b[c + 1])
        next == walk[rn + 2 + size + 2]
    IN IF LineEnds(b, c) = {} THEN Decoded("more", <<>>, <<>>)
       ELSE IF rn = c THEN Decoded("400", <<>>, <<>>)
       ELSE IF ~Complete(b, rn, size) THEN Decoded("more", <<>>, <<>>)
       ELSE IF size = 0 THEN Decoded("200", <<>>, <<>>)
       ELSE [next EXCEPT !.data = SubSeq(b, rn + 3, rn + 2 + size) \o @]

\* One turn of the loop that check_chunked and recv_data share, at the place c
\* of b: a complete chunk is taken, and walk has what the next turns make of the
\* rest; or the loop ends, with the last chunk, with an error, or with what is
\* not complete yet.
Turn(b, c, walk) ==
    LET rn   == Min(LineEnds(b, c))
        size == Value(b[c + 1])
        next == walk[rn + 2 + size + 2]
        wait == Decoded("more", <<>>, SubSeq(b, c + 1, Len(b)))
    IN IF LineEnds(b, c) = {} THEN wait
       ELSE IF rn = c THEN Decoded("400", <<>>, <<>>)
       ELSE IF ~Complete(b, rn, size) THEN wait
       ELSE IF size = 0 THEN Decoded("200", <<>>, <<>>)
       ELSE [next EXCEPT !.data = SubSeq(b, rn + 3, rn + 2 + size) \o @]

\* The loop.  Two bytes or less are not looked at.
Chunks(b) ==
    LET walk[c \in 0..Len(b)] == Turn(b, c, walk)
    IN IF Len(b) > 2 THEN walk[0] ELSE Decoded("more", <<>>, b)

-----------------------------------------------------------------------------
(***************************************************************************)
(* recv_data and what follows it in Webserv::start                         *)
(***************************************************************************)

\* recv() returns n bytes of what has arrived.
Recv(n) ==
    /\ ~handed /\ n <= BufSize /\ at + n <= Len(Wire(req))
    /\ at' = at + n
    /\ filled' = (n = BufSize)
    /\ UNCHANGED req

Segment(n) == SubSeq(Wire(req), at + 1, at + n)
Buffer(n) == readBuf \o Segment(n)

HandOver(s, b) == status' = s /\ body' = b /\ handed' = TRUE
Wait(s, b) == status' = s /\ body' = b /\ handed' = FALSE

\* The head is not complete, or the segment filled the buffer, in which case
\* recv_data does not look.
HeadMore(n) ==
    /\ status = NoStatus /\ Recv(n)
    /\ n = BufSize \/ ~Contains(Buffer(n), "blank")
    /\ readBuf' = Buffer(n)
    /\ UNCHANGED <<body, status, handed>>

\* The head is complete: n bytes are received, the buffer is kept and what
\* follows the empty line is decoded.
HeadDone(n) ==
    /\ status = NoStatus /\ Recv(n)
    /\ n < BufSize /\ Contains(Buffer(n), "blank")

AfterHead(n) ==
    LET b == Buffer(n)
    IN SubSeq(b, 1 + Min({i \in DOMAIN b : b[i] = "blank"}), Len(b))

\* GET, DELETE and HEAD must have nothing after their head in the segment that
\* ends it; push_headers refuses them before push_body cuts the buffer.
ParsePlain(n) ==
    /\ HeadDone(n) /\ req.kind = "plain"
    /\ \/ /\ AfterHead(n) = <<>>
          /\ HandOver("200", <<>>) /\ readBuf' = <<>>
       \/ /\ AfterHead(n) # <<>>
          /\ HandOver("400", <<>>) /\ readBuf' = Buffer(n)

\* push_body takes what came with the head for the body, and neither
\* check_chunked nor check_bodysize asks for more.
ParseBare(n) ==
    /\ HeadDone(n) /\ req.kind = "bare"
    /\ HandOver("200", AfterHead(n))
    /\ readBuf' = AfterHead(n)

\* atoi(): strtol() cut to an int, which may come out negative.
Atoi(n) == ((n + IntLimit) % (2 * IntLimit)) - IntLimit

\* push_body, which reads Content-Length as a long, cuts what exceeds it.
Pushed(b) == IF Len(b) > Length(req) THEN SubSeq(b, 1, Length(req)) ELSE b

\* check_bodysize, which reads it as an int.
ParseLength(n) ==
    LET b == Pushed(AfterHead(n)) IN
    /\ HeadDone(n) /\ req.kind = "length"
    /\ IF Len(b) < Atoi(Length(req)) THEN Wait("LENGTHLESS", b)
                                     ELSE HandOver("200", b)
    /\ readBuf' = AfterHead(n)

\* Slip: what came with the head is not counted as body.
StartChunks_BodyLost(b) ==
    /\ readBuf' = Chunks(b).rest
    /\ CASE Chunks(b).verdict = "more" -> Wait("CHUNKED", <<>>)
         [] Chunks(b).verdict = "200"  -> HandOver("200", Chunks(b).data)
         [] Chunks(b).verdict = "400"  -> HandOver("400", <<>>)

\* The buffer is replaced by what is left over only when there is more to come.
StartChunks(b) ==
    LET d == Chunks(b)
    IN CASE d.verdict = "more" -> Wait("CHUNKED", d.data) /\ readBuf' = d.rest
         [] d.verdict = "200"  -> HandOver("200", d.data) /\ readBuf' = b
         [] d.verdict = "400"  -> HandOver("400", <<>>) /\ readBuf' = b

\* check_chunked on the body that came with the head.
ParseChunked(n) ==
    /\ HeadDone(n) /\ req.kind \in InChunks
    /\ StartChunks(AfterHead(n))

\* Slips: one byte too few, one too many is waited for.
LengthReached_Early(b) == Len(b) + 1 >= Atoi(Length(req))
LengthReached_Late(b) == Len(b) > Atoi(Length(req))

\* check_bodysize
LengthReached(b) == Len(b) >= Atoi(Length(req))

\* More of a body with Content-Length.  Here nothing is cut.
MoreLength(n) ==
    /\ status = "LENGTHLESS" /\ Recv(n)
    /\ LET b == body \o Segment(n)
       IN IF LengthReached(b) THEN HandOver("200", b) ELSE Wait("LENGTHLESS", b)
    /\ UNCHANGED readBuf

\* More of a chunked body.
MoreChunked(n) ==
    /\ status = "CHUNKED" /\ Recv(n)
    /\ LET d == Chunks(Buffer(n))
       IN /\ readBuf' = d.rest
          /\ IF d.verdict = "more" THEN Wait("CHUNKED", body \o d.data)
                                   ELSE HandOver(d.verdict, body \o d.data)

\* Slip: the Client is not emptied.
Restart_NotCleared ==
    /\ req' \in Requests /\ at' = 0 /\ filled' = FALSE
    /\ readBuf' = <<>> /\ UNCHANGED body /\ status' = NoStatus /\ handed' = FALSE

\* The next request is awaited.
Restart ==
    /\ req' \in Requests /\ at' = 0 /\ filled' = FALSE
    /\ readBuf' = <<>> /\ body' = <<>> /\ status' = NoStatus /\ handed' = FALSE

\* The answer has been sent: clear_client.
Answered == handed /\ status = "200" /\ req.more = <<>> /\ Restart

\* The peer closes, after a 400, instead of waiting any longer, or when it sent
\* more than a request, and connects again: a new Client.
Reconnect == (~handed \/ status = "400" \/ req.more # <<>>) /\ Restart

Receive(n) ==
    \/ HeadMore(n) \/ ParsePlain(n) \/ ParseBare(n)
    \/ ParseLength(n) \/ ParseChunked(n) \/ MoreLength(n) \/ MoreChunked(n)

Next == Answered \/ Reconnect \/ \E n \in 1..BufSize : Receive(n)

Spec == Init /\ [][Next]_vars

-----------------------------------------------------------------------------
(***************************************************************************)
(* Properties                                                              *)
(***************************************************************************)

Sent == SubSeq(Wire(req), 1, at)
SentContent == SubSeq(Wire(req), req.head + 2, at)
Arrived == at >= Len(Whole(req))
First(k) == SubSeq(req.chunks, 1, k)
Fits == Length(req) < IntLimit

TypeOK ==
    /\ req \in Requests /\ at \in 0..Len(Wire(req))
    /\ filled \in BOOLEAN /\ handed \in BOOLEAN
    /\ status \in {NoStatus, "LENGTHLESS", "CHUNKED", "200", "400"}
    /\ handed <=> status \in {"200", "400"}
    /\ readBuf \in Seq(Token) /\ Len(readBuf) <= at
    /\ body \in Seq(Token) /\ Len(body) <= at

\* However its bytes were cut into segments, a request is handed over with the
\* body that was sent.  Of malformed chunks those with an empty line for a size
\* are refused, and those with a size that is no number end there, as if it were
\* the last chunk.  What a peer sends after a request does no more than this:
\* with the head of a request without a body it is refused as one, with a head
\* that does not delimit its body it is that body, as far as it came with the
\* head, after a chunked body it is thrown away, and it becomes part of a body
\* whose length was given only when that body did not arrive with its head.  Of
\* a body too long for an int a part may be taken for the whole.
BodyExact ==
    handed =>
        CASE req.kind = "broken"  -> status = "400"
          [] req.kind = "plain"   ->
                /\ body = <<>>
                /\ status = IF SentContent = <<>> THEN "200" ELSE "400"
          [] req.kind = "bare"    -> status = "200" /\ body = SentContent
          [] req.kind \in {"chunked", "garbled"} ->
                status = "200" /\ body = FlattenSeq(req.chunks)
          [] req.kind = "length"  ->
                /\ status = "200"
                /\ IsPrefix(body, FlattenSeq(req.chunks) \o req.more)
                /\ Fits => Len(body) >= Length(req)
                /\ Len(readBuf) >= Length(req) => Len(body) = Length(req)

\* It is not handed over before all of it is there, unless its length is too
\* long for an int.
NotEarly == handed /\ req.kind # "broken" /\ Fits => Arrived

\* It is handed over by the very recv() that completes it; the one exception is
\* a head whose last segment filled the buffer.
Prompt == Arrived => handed \/ (status = NoStatus /\ filled)

\* Between two segments nothing that was received is lost or counted twice:
\* it is in read_buf or in the body, what is left in read_buf of a chunked body
\* begins with a chunk, and of a body whose length was given there is less than
\* that, what came with its head included.
NothingLost ==
    /\ status = NoStatus => readBuf = Sent /\ body = <<>>
    /\ status = "LENGTHLESS" =>
          /\ req.kind = "length" /\ at > req.head
          /\ body = SentContent /\ Len(body) < Atoi(Length(req))
          /\ Len(readBuf) < Length(req)
    /\ status = "CHUNKED" =>
          /\ req.kind \in InChunks /\ at > req.head
          /\ \E k \in 0..Len(req.chunks) :
                /\ body = FlattenSeq(First(k))
                /\ SentContent = EncodedAll(First(k)) \o readBuf

\* recv_data reports that everything was received when it was: a request that
\* has arrived is handed over.
HandedOver == Arrived => handed
=============================================================================
