---------------------------- MODULE ServiceProofs ----------------------------
(***************************************************************************)
(* Proofs about Service: uploads are stored, where they are looked for, and *)
(* files answered as they are, whatever other clients do.                  *)
(***************************************************************************)
EXTENDS Service, TLAPS

-----------------------------------------------------------------------------
(***************************************************************************)
(* The inductive invariant                                                 *)
(***************************************************************************)

Stages == {"idle", "reading", "writing", "script", "dropped", "answered"}

\* An upload that is going on or has just been answered, and what of it is
\* in the file.
Uploads(k) == k.stage = "writing" \/ (k.stage = "answered" /\ k.status = "201")
Stored(k) == IF k.stage = "writing" THEN k.file.at ELSE k.req.length

Typed(k) ==
    /\ k = Connection(k.stage, k.req, k.cgi, k.file, k.status, k.reply)
    /\ k.file = [ino |-> k.file.ino, at |-> k.file.at, buf |-> k.file.buf,
                 others |-> k.file.others]
    /\ k.stage \in Stages /\ k.status \in Status
    /\ k.file.ino \in Ino \cup {NoFile} /\ k.file.at \in Nat
    /\ k.file.others \subseteq Client
    /\ k.stage = "idle" \/ k.req \in Requests
    /\ k.stage = "reading" \/ Uploads(k) => k.file.ino # NoFile
    /\ k.stage = "writing" => k.file.at <= k.req.length
    /\ k.stage = "answered" <=> k.status # None /\ k.stage # "reading"
    /\ k.stage = "reading" => k.status # None /\ k.status # "201"
    /\ k.stage = "reading" => \E m \in Nat : k.file.at = m * BufSize
    /\ k.stage = "script" => k.file = Opened(NoFile, {})

\* What client c has of its file, or its file of it, when the files hold d.
Faithful(c, k, d) ==
    /\ Uploads(k) /\ k.file.others = {} => d[k.file.ino] = [n \in 1..Stored(k) |-> c]
    /\ k.stage = "reading" /\ k.file.others = {} =>
          /\ k.file.at <= Len(d[k.file.ino])
          /\ k.file.buf = SubSeq(d[k.file.ino], 1, k.file.at)
    /\ /\ k.stage = "answered" /\ k.status # "201" /\ k.file.ino # NoFile
       /\ k.file.others = {} /\ k.req.method # "HEAD"
       => k.reply.body = d[k.file.ino]
    /\ /\ k.stage = "answered" /\ k.reply.blank = TRUE /\ k.reply.length # Absent
       /\ k.req.method # "HEAD"
       => Len(k.reply.body) = k.reply.length

\* Nobody else among the connections m writes the file of client c.
Apart(c, k, m) ==
    k.file.others = {} /\ k.file.ino # NoFile =>
        \A d \in Client \ {c} :
            ~(m[d].stage = "writing" /\ m[d].file.ino = k.file.ino)

Sound(c, k, d, m) == Typed(k) /\ Faithful(c, k, d) /\ Apart(c, k, m)

ConnInv ==
    /\ data \in [Ino -> Seq(Client \cup {"disk"})]
    /\ conn = [c \in Client |-> conn[c]]
    /\ \A c \in Client : Sound(c, conn[c], data, conn)

\* The names of the file of client c, if it has a connection like k, are where
\* the target of its request is looked for.
Home(k) ==
    Uploads(k) /\ LocationOf[k.req.target].root.slash = TRUE =>
        \A p \in Paths :
            tree[p] = k.file.ino =>
                p = Place(Checked(LocationOf[k.req.target], k.req.target).names)

TreeInv ==
    /\ tree \in [Paths -> Ino \cup {None, Dir}] /\ up \in BOOLEAN
    /\ \A p, q \in Paths : tree[p] = tree[q] /\ tree[p] \in Ino => p = q
    /\ \A c \in Client : Home(conn[c])

-----------------------------------------------------------------------------
(***************************************************************************)
(* What the operators return is sound                                      *)
(***************************************************************************)

\* A file that has just been opened, or none.
LEMMA OpenedFields ==
    ASSUME NEW i, NEW a, NEW f, f = Opened(i, a)
    PROVE  /\ f.ino = i /\ f.at = 0 /\ f.buf = <<>> /\ f.others = a
           /\ f = [ino |-> f.ino, at |-> f.at, buf |-> f.buf, others |-> f.others]
  <1>1. f.ino = i /\ f.at = 0
    BY DEF Opened
  <1>2. f.buf = <<>>
    BY DEF Opened
  <1>3. f.others = a
    BY DEF Opened
  <1>4. f = [ino |-> f.ino, at |-> f.at, buf |-> f.buf, others |-> f.others]
    BY DEF Opened
  <1> QED BY <1>1, <1>2, <1>3, <1>4

\* A request that has been answered without a file.
LEMMA PushedSound ==
    ASSUME NEW c \in Client, NEW k, NEW d, NEW m,
           k = Connection(k.stage, k.req, k.cgi, k.file, k.status, k.reply),
           k.file = Opened(NoFile, {}), k.req \in Requests,
           NEW s \in Status, s # None, s # "201", NEW n, NEW b,
           n = Absent \/ k.cgi = TRUE \/ k.req.method = "HEAD" \/ Len(b) = n
    PROVE  Sound(c, Pushed(k, s, n, b), d, m)
  <1> DEFINE q == Pushed(k, s, n, b)
  <1>1. /\ q.stage = "answered" /\ q.req = k.req /\ q.cgi = k.cgi
        /\ q.file = k.file /\ q.status = s
        /\ q.reply = [length |-> n, blank |-> ~k.cgi,
                      body |-> IF k.req.method = "HEAD" THEN <<>> ELSE b]
        /\ q = Connection(q.stage, q.req, q.cgi, q.file, q.status, q.reply)
    BY DEF Pushed, Connection
  <1>2. /\ k.file.ino = NoFile /\ k.file.at = 0
        /\ k.file.others = {}
        /\ k.file = [ino |-> k.file.ino, at |-> k.file.at, buf |-> k.file.buf,
                     others |-> k.file.others]
    BY OpenedFields
  <1> HIDE DEF q
  <1>3. Typed(q)
    BY <1>1, <1>2 DEF Typed, Stages, Uploads
  <1>4. ASSUME q.reply.blank = TRUE, q.reply.length # Absent, q.req.method # "HEAD"
        PROVE  Len(q.reply.body) = q.reply.length
    <2>1. q.reply.length = n
      BY <1>1
    <2>2. q.reply.body = b
      BY <1>1, <1>4
    <2>3. q.reply.blank = ~k.cgi
      BY <1>1
    <2>4. k.cgi # TRUE
      BY <1>4, <2>3
    <2> QED BY <1>1, <1>4, <2>1, <2>2, <2>4
  <1>5. Faithful(c, q, d)
    BY <1>1, <1>2, <1>4 DEF Faithful, Uploads
  <1>6. Apart(c, q, m)
    BY <1>1, <1>2 DEF Apart
  <1> QED BY <1>3, <1>5, <1>6 DEF Sound, q

\* A connection between two requests.
LEMMA IdleSound ==
    ASSUME NEW c \in Client, NEW d, NEW m
    PROVE  Sound(c, Idle, d, m)
  <1>1. /\ Idle.stage = "idle" /\ Idle.file = Opened(NoFile, {})
        /\ Idle.status = None
        /\ Idle = Connection(Idle.stage, Idle.req, Idle.cgi, Idle.file, Idle.status,
                             Idle.reply)
    BY DEF Idle, Begun, Connection
  <1>2. /\ Idle.file.ino = NoFile /\ Idle.file.at = 0 /\ Idle.file.others = {}
        /\ Idle.file = [ino |-> Idle.file.ino, at |-> Idle.file.at,
                        buf |-> Idle.file.buf, others |-> Idle.file.others]
    BY <1>1, OpenedFields
  <1> HIDE DEF Idle
  <1>3. Typed(Idle)
    BY <1>1, <1>2 DEF Typed, Stages, Status, Uploads
  <1>4. Faithful(c, Idle, d)
    BY <1>1 DEF Faithful, Uploads
  <1>5. Apart(c, Idle, m)
    BY <1>1, <1>2 DEF Apart
  <1> QED BY <1>3, <1>4, <1>5 DEF Sound

\* A request that waits for nothing of a file: just begun, or for a program.
Plain(k) ==
    /\ k = Connection(k.stage, k.req, k.cgi, k.file, k.status, k.reply)
    /\ k.file = Opened(NoFile, {}) /\ k.req \in Requests

\* What a request begins with.
LEMMA BegunPlain ==
    ASSUME NEW r \in Requests
    PROVE  Plain(Begun(r)) /\ Begun(r).req = r /\ Begun(r).cgi = FALSE
  BY DEF Plain, Begun, Connection

\* A file has been opened for reading.
LEMMA ReadingSound ==
    ASSUME NEW c \in Client, NEW k, Plain(k), NEW i \in Ino,
           NEW s \in Status, s # None, s # "201",
           data \in [Ino -> Seq(Client \cup {"disk"})]
    PROVE  Sound(c, Reading(k, i, s), data, conn) /\ ~Uploads(Reading(k, i, s))
  <1> DEFINE q == Reading(k, i, s)
  <1>1. /\ q.stage = "reading" /\ q.req = k.req /\ q.status = s
        /\ q.file = Opened(i, Writers(i))
        /\ q = Connection(q.stage, q.req, q.cgi, q.file, q.status, q.reply)
    BY DEF Reading, Connection
  <1>2. /\ q.file.ino = i /\ q.file.at = 0 /\ q.file.buf = <<>>
        /\ q.file.others = Writers(i)
        /\ q.file = [ino |-> q.file.ino, at |-> q.file.at, buf |-> q.file.buf,
                     others |-> q.file.others]
    BY <1>1, OpenedFields
  <1> HIDE DEF q
  <1>3. i # NoFile
    BY FileAssumption
  <1>4. Writers(i) \subseteq Client
    BY DEF Writers
  <1>5. k.req \in Requests
    BY DEF Plain
  <1>11. \E m \in Nat : q.file.at = m * BufSize
    <2>1. 0 = 0 * BufSize
      BY FileAssumption
    <2> QED BY <1>2, <2>1
  <1>6. Typed(q)
    BY <1>1, <1>2, <1>3, <1>4, <1>5, <1>11 DEF Typed, Stages, Uploads
  <1>7. data[i] \in Seq(Client \cup {"disk"})
    OBVIOUS
  <1>8. Len(data[i]) \in Nat /\ SubSeq(data[i], 1, 0) = <<>>
    BY <1>7
  <1>9. Faithful(c, q, data)
    BY <1>1, <1>2, <1>8 DEF Faithful, Uploads
  <1>10. Apart(c, q, conn)
    BY <1>2 DEF Apart, Writers
  <1>12. ~Uploads(q)
    BY <1>1 DEF Uploads
  <1> QED BY <1>6, <1>9, <1>10, <1>12 DEF Sound, q

-----------------------------------------------------------------------------
(***************************************************************************)
(* One connection changes                                                  *)
(***************************************************************************)

\* A step keeps the invariant, and uploads are those that were there before.
Kept ==
    \A e \in Client :
        Uploads(conn'[e]) =>
            /\ Uploads(conn[e]) /\ conn'[e].req = conn[e].req
            /\ conn'[e].file.ino = conn[e].file.ino

Keeps == ConnInv' /\ Kept

\* The connection of c becomes k, which is no upload, and the files stay.
LEMMA BecomingKeeps ==
    ASSUME ConnInv, NEW c \in Client, NEW k, Becomes(c, k), data' = data,
           Sound(c, k, data, conn), ~Uploads(k)
    PROVE  Keeps
  <1>1. /\ conn' = [e \in Client |-> conn'[e]]
        /\ conn'[c] = k
        /\ \A e \in Client \ {c} : conn'[e] = conn[e]
    BY DEF ConnInv, Becomes
  <1>2. Sound(c, conn'[c], data', conn')
    BY <1>1 DEF Sound, Apart
  <1>5. k.stage # "writing"
    BY DEF Uploads
  <1>3. ASSUME NEW e \in Client \ {c}
        PROVE  Sound(e, conn'[e], data', conn')
    <2>1. Sound(e, conn[e], data, conn)
      BY DEF ConnInv
    <2>2. Apart(e, conn[e], conn')
      BY <1>1, <1>5, <2>1 DEF Sound, Apart
    <2> QED BY <1>1, <2>1, <2>2 DEF Sound
  <1>4. ConnInv'
    BY <1>1, <1>2, <1>3 DEF ConnInv
  <1> QED BY <1>1, <1>4 DEF Keeps, Kept

\* An error is answered.
LEMMA FailKeeps ==
    ASSUME ConnInv, NEW c \in Client, NEW k, Plain(k),
           NEW s \in Status, s # None, s # "201", Fail(c, k, s)
    PROVE  Keeps
  <1>1. k.req \in Requests /\ k.file = Opened(NoFile, {})
        /\ k = Connection(k.stage, k.req, k.cgi, k.file, k.status, k.reply)
    BY DEF Plain
  <1>2. data' = data /\ data \in [Ino -> Seq(Client \cup {"disk"})]
    BY DEF Fail, ConnInv
  <1>3. ASSUME NEW u \in Status, u # None, u # "201", Becomes(c, BuiltIn(k, u))
        PROVE  Keeps
    <2>1. Len(<<"digit", "digit", "digit", "NUL">>) = 4
      OBVIOUS
    <2>2. Sound(c, BuiltIn(k, u), data, conn)
      BY <1>1, <1>3, <2>1, PushedSound DEF BuiltIn
    <2>3. ~Uploads(BuiltIn(k, u))
      BY <1>3 DEF BuiltIn, Pushed, Connection, Uploads
    <2> QED BY <1>2, <1>3, <2>2, <2>3, BecomingKeeps
  <1>4. ASSUME NEW i \in Ino, Becomes(c, Reading(k, i, s))
        PROVE  Keeps
    BY <1>2, <1>4, ReadingSound, BecomingKeeps
  <1>5. "500" \in Status /\ "500" # None /\ "500" # "201"
    BY DEF Status, None
  <1> QED BY <1>3, <1>4, <1>5 DEF Fail

\* A response without a file is made.
LEMMA PushedKeeps ==
    ASSUME ConnInv, NEW c \in Client, NEW k, Plain(k),
           NEW s \in Status, s # None, s # "201", NEW n, NEW b,
           n = Absent \/ k.cgi = TRUE \/ k.req.method = "HEAD" \/ Len(b) = n,
           Becomes(c, Pushed(k, s, n, b)), data' = data
    PROVE  Keeps
  <1>1. Sound(c, Pushed(k, s, n, b), data, conn)
    BY PushedSound DEF Plain
  <1>2. ~Uploads(Pushed(k, s, n, b))
    BY DEF Pushed, Connection, Uploads
  <1> QED BY <1>1, <1>2, BecomingKeeps

\* A request waits without a file and without an answer.
LEMMA WaitingKeeps ==
    ASSUME ConnInv, NEW c \in Client, NEW q, Becomes(c, q), data' = data,
           q = Connection(q.stage, q.req, q.cgi, q.file, q.status, q.reply),
           q.stage \in {"script", "dropped"}, q.req \in Requests, q.status = None,
           q.file = Opened(NoFile, {})
    PROVE  Keeps
  <1>1. /\ q.file.ino = NoFile /\ q.file.at = 0 /\ q.file.others = {}
        /\ q.file = [ino |-> q.file.ino, at |-> q.file.at, buf |-> q.file.buf,
                     others |-> q.file.others]
    BY OpenedFields
  <1>2. Typed(q)
    BY <1>1 DEF Typed, Stages, Status, Uploads
  <1>3. Faithful(c, q, data) /\ Apart(c, q, conn) /\ ~Uploads(q)
    BY <1>1 DEF Faithful, Apart, Uploads
  <1> QED BY <1>2, <1>3, BecomingKeeps DEF Sound

-----------------------------------------------------------------------------
(***************************************************************************)
(* The actions that write no file                                          *)
(***************************************************************************)

LEMMA RefusalStatus ==
    ASSUME NEW l, NEW r, Refusal(l, r) # None
    PROVE  Refusal(l, r) \in Status /\ Refusal(l, r) # "201"
  BY DEF Refusal, Status, None

\* Requests that are refused, redirected or answered with a listing or a 204.
LEMMA AnswerKeeps ==
    ASSUME ConnInv, NEW c \in Client, NEW r \in Requests,
           \/ Refuse(c, r) \/ Redirect(c, r) \/ GetNothing(c, r)
           \/ DeleteFile(c, r) \/ DeleteDirectory(c, r) \/ DeletePartly(c, r)
           \/ PutDirectory(c, r) \/ PutFails(c, r)
    PROVE  Keeps
  <1> DEFINE k == Begun(r)
  <1>1. Plain(k) /\ k.req = r
    BY BegunPlain
  <1>2. /\ "500" \in Status /\ "500" # None /\ "500" # "201"
        /\ "400" \in Status /\ "400" # None /\ "400" # "201"
        /\ "404" \in Status /\ "404" # None /\ "404" # "201"
        /\ "301" \in Status /\ "301" # None /\ "301" # "201"
        /\ "204" \in Status /\ "204" # None /\ "204" # "201"
        /\ "200" \in Status /\ "200" # None /\ "200" # "201"
    BY DEF Status, None
  <1> HIDE DEF k
  <1>3. CASE Refuse(c, r)
    <2> DEFINE s == Refusal(LocationOf[r.target], r)
    <2>1. s # None /\ Fail(c, k, s)
      BY <1>3 DEF Refuse, k
    <2>2. s \in Status /\ s # "201"
      BY <2>1, RefusalStatus
    <2> HIDE DEF s
    <2> QED BY <1>1, <2>1, <2>2, FailKeeps
  <1>4. CASE Redirect(c, r)
    <2>1. Becomes(c, Pushed(k, "301", Absent, <<>>)) /\ data' = data
      BY <1>4 DEF Redirect, k
    <2> QED BY <1>1, <1>2, <2>1, PushedKeeps
  <1>5. CASE GetNothing(c, r)
    <2>1. \/ Becomes(c, Pushed(k, "200", 1, <<"list">>)) /\ data' = data
          \/ Fail(c, k, "500")
          \/ Fail(c, k, "404")
      BY <1>5 DEF GetNothing, k
    <2>2. Len(<<"list">>) = 1
      OBVIOUS
    <2>3. CASE Becomes(c, Pushed(k, "200", 1, <<"list">>)) /\ data' = data
      BY <1>1, <1>2, <2>2, <2>3, PushedKeeps
    <2>4. CASE Fail(c, k, "500")
      BY <1>1, <1>2, <2>4, FailKeeps
    <2>5. CASE Fail(c, k, "404")
      BY <1>1, <1>2, <2>5, FailKeeps
    <2> QED BY <2>1, <2>3, <2>4, <2>5
  <1>6. CASE DeleteFile(c, r) \/ DeleteDirectory(c, r)
    <2>1. Becomes(c, Pushed(k, "204", Absent, <<>>)) /\ data' = data
      BY <1>6 DEF DeleteFile, DeleteDirectory, Deleted, k
    <2> QED BY <1>1, <1>2, <2>1, PushedKeeps
  <1>7. CASE DeletePartly(c, r) \/ PutFails(c, r)
    <2>1. Becomes(c, Pushed(k, "500", 4, <<"digit", "digit", "digit", "NUL">>))
          /\ data' = data
      BY <1>7 DEF DeletePartly, PutFails, BuiltIn, k
    <2>2. Len(<<"digit", "digit", "digit", "NUL">>) = 4
      OBVIOUS
    <2> QED BY <1>1, <1>2, <2>1, <2>2, PushedKeeps
  <1>8. CASE PutDirectory(c, r)
    <2>1. Fail(c, k, "400")
      BY <1>8 DEF PutDirectory, k
    <2> QED BY <1>1, <1>2, <2>1, FailKeeps
  <1> QED BY <1>3, <1>4, <1>5, <1>6, <1>7, <1>8

\* A file is asked for.
LEMMA GetFileKeeps ==
    ASSUME ConnInv, NEW c \in Client, NEW r \in Requests,
           GetFile(c, r) \/ GetDirectory(c, r)
    PROVE  Keeps
  <1> DEFINE k == Begun(r)
  <1>1. Plain(k) /\ k.req = r
    BY BegunPlain
  <1>2. /\ "500" \in Status /\ "500" # None /\ "500" # "201"
        /\ "200" \in Status /\ "200" # None /\ "200" # "201"
    BY DEF Status, None
  <1> DEFINE w == Connection("dropped", r, FALSE, Opened(NoFile, {}), None, NoReply)
  <1>3. \/ Becomes(c, Response(k, "200")) /\ data' = data
        \/ \E i \in Ino : Becomes(c, Reading(k, i, "200")) /\ data' = data
        \/ Becomes(c, w) /\ data' = data
        \/ Fail(c, k, "500")
    BY DEF GetFile, GetDirectory, k
  <1> HIDE DEF k, w
  <1>4. CASE Becomes(c, Response(k, "200")) /\ data' = data
    <2>1. Response(k, "200") = Pushed(k, "200", Len(k.file.buf), k.file.buf)
      BY DEF Response
    <2> QED BY <1>1, <1>2, <1>4, <2>1, PushedKeeps
  <1>5. ASSUME NEW i \in Ino, Becomes(c, Reading(k, i, "200")) /\ data' = data
        PROVE  Keeps
    <2>1. data \in [Ino -> Seq(Client \cup {"disk"})]
      BY DEF ConnInv
    <2> QED BY <1>1, <1>2, <1>5, <2>1, ReadingSound, BecomingKeeps
  <1>6. CASE Fail(c, k, "500")
    BY <1>1, <1>2, <1>6, FailKeeps
  <1>7. CASE Becomes(c, w) /\ data' = data
    <2>1. /\ w.stage = "dropped" /\ w.req = r /\ w.status = None
          /\ w.file = Opened(NoFile, {})
          /\ w = Connection(w.stage, w.req, w.cgi, w.file, w.status, w.reply)
      BY DEF Connection, w
    <2> QED BY <1>7, <2>1, WaitingKeeps
  <1> QED BY <1>3, <1>4, <1>5, <1>6, <1>7

\* A program is started, fails, or has answered.
LEMMA ScriptKeeps ==
    ASSUME ConnInv, NEW c \in Client, NEW r,
           (r \in Requests /\ StartScript(c, r)) \/ ScriptFails(c) \/ ScriptEnds(c)
    PROVE  Keeps
  <1>1. Typed(conn[c])
    BY DEF ConnInv, Sound
  <1>2. CASE r \in Requests /\ StartScript(c, r)
    <2> DEFINE q == Connection("script", r, TRUE, Opened(NoFile, {}), None, NoReply)
    <2>1. Becomes(c, q) /\ data' = data
      BY <1>2 DEF StartScript
    <2>2. /\ q.stage = "script" /\ q.req = r /\ q.status = None
          /\ q.file = Opened(NoFile, {})
          /\ q = Connection(q.stage, q.req, q.cgi, q.file, q.status, q.reply)
      BY DEF Connection
    <2> HIDE DEF q
    <2> QED BY <1>2, <2>1, <2>2, WaitingKeeps
  <1>3. CASE ScriptFails(c)
    <2>1. Plain(conn[c])
      BY <1>1, <1>3 DEF ScriptFails, Typed, Plain
    <2>2. "500" \in Status /\ "500" # None /\ "500" # "201"
      BY DEF Status, None
    <2> QED BY <1>3, <2>1, <2>2, FailKeeps DEF ScriptFails
  <1>4. CASE ScriptEnds(c)
    <2>1. PICK out \in {"body", "bare"}, n \in 0..1 :
              Becomes(c, ScriptResponse(conn[c], out, n))
      BY <1>4 DEF ScriptEnds
    <2> DEFINE q == ScriptResponse(conn[c], out, n)
               full == conn[c].req.method # "HEAD" /\ out = "body"
    <2>2. /\ conn[c].stage = "script" /\ data' = data
          /\ conn[c].req \in Requests /\ conn[c].file = Opened(NoFile, {})
      BY <1>1, <1>4 DEF ScriptEnds, Typed
    <2>3. /\ q.stage = "answered" /\ q.req = conn[c].req /\ q.status = "200"
          /\ q.file = conn[c].file
          /\ q = Connection(q.stage, q.req, q.cgi, q.file, q.status, q.reply)
      BY DEF ScriptResponse, Connection
    <2>5. /\ full => q.reply.body = [i \in 1..n |-> "out"]
          /\ ~full => q.reply.body = <<>>
          /\ q.reply.length = IF out = "body" THEN n ELSE 0
      BY DEF ScriptResponse, Connection
    <2> HIDE DEF q
    <2>4. /\ q.file.ino = NoFile /\ q.file.at = 0 /\ q.file.others = {}
          /\ q.file = [ino |-> q.file.ino, at |-> q.file.at, buf |-> q.file.buf,
                       others |-> q.file.others]
      BY <2>2, <2>3, OpenedFields
    <2> HIDE DEF q, full
    <2>6. ASSUME q.req.method # "HEAD"
          PROVE  Len(q.reply.body) = q.reply.length
      <3>1. CASE out = "body"
        <4>1. full
          BY <2>3, <2>6, <3>1 DEF full
        <4>2. q.reply.body = [i \in 1..n |-> "out"]
          BY <2>5, <4>1
        <4>3. q.reply.length = n
          BY <2>5, <3>1
        <4>4. Len([i \in 1..n |-> "out"]) = n
          OBVIOUS
        <4> QED BY <4>2, <4>3, <4>4
      <3>2. CASE out # "body"
        <4>1. ~full
          BY <3>2 DEF full
        <4>2. q.reply.body = <<>>
          BY <2>5, <4>1
        <4>3. q.reply.length = 0
          BY <2>5, <3>2
        <4> QED BY <4>2, <4>3
      <3> QED BY <3>1, <3>2
    <2>7. Typed(q)
      BY <2>2, <2>3, <2>4 DEF Typed, Stages, Status, Uploads, None
    <2>8. Faithful(c, q, data) /\ Apart(c, q, conn) /\ ~Uploads(q)
      BY <2>3, <2>4, <2>6 DEF Faithful, Apart, Uploads
    <2> QED BY <2>1, <2>2, <2>7, <2>8, BecomingKeeps DEF Sound, q
  <1> QED BY <1>2, <1>3, <1>4

\* A connection is emptied.
LEMMA FinishKeeps ==
    ASSUME ConnInv, NEW c \in Client, Finish(c)
    PROVE  Keeps
  <1>1. Becomes(c, Idle) /\ data' = data
    BY DEF Finish
  <1>2. ~Uploads(Idle)
    BY DEF Idle, Begun, Connection, Uploads
  <1> QED BY <1>1, <1>2, IdleSound, BecomingKeeps

\* All connections are.
LEMMA PutBareKeeps ==
    ASSUME ConnInv, NEW c \in Client, NEW r \in Requests, PutBare(c, r)
    PROVE  Keeps
  <1>1. conn' = [d \in Client |-> Idle] /\ data' = data
    BY DEF PutBare
  <1>2. \A d \in Client : Sound(d, Idle, data, conn')
    BY IdleSound
  <1>3. ~Uploads(Idle)
    BY DEF Idle, Begun, Connection, Uploads
  <1> QED BY <1>1, <1>2, <1>3 DEF ConnInv, Keeps, Kept

-----------------------------------------------------------------------------
(***************************************************************************)
(* Reading                                                                 *)
(***************************************************************************)

\* A part of a sequence and what follows it.
LEMMA Parts ==
    ASSUME NEW S, NEW d \in Seq(S), NEW a \in Nat, NEW n \in Nat, a + n <= Len(d)
    PROVE  SubSeq(d, 1, a) \o SubSeq(d, a + 1, a + n) = SubSeq(d, 1, a + n)
  OBVIOUS

LEMMA WholeSeq ==
    ASSUME NEW S, NEW d \in Seq(S)
    PROVE  SubSeq(d, 1, Len(d)) = d
  OBVIOUS

\* A part of the file, or the last of it, is read.
LEMMA ReadKeeps ==
    ASSUME ConnInv, NEW c \in Client, Read(c)
    PROVE  Keeps
  <1> DEFINE k == conn[c]
             f == k.file
             d == data[f.ino]
             n == Smaller(BufSize, Len(d) - f.at)
             more == Connection("reading", k.req, k.cgi, Further(f, n), k.status,
                                NoReply)
  <1>1. /\ k.stage = "reading" /\ f.at < Len(d) /\ data' = data
        /\ Becomes(c, IF n < BufSize THEN Response(more, k.status) ELSE more)
    BY DEF Read
  <1>2. Typed(k) /\ Faithful(c, k, data) /\ Apart(c, k, conn)
    BY DEF ConnInv, Sound
  <1>3. /\ f.ino \in Ino /\ f.ino # NoFile /\ f.at \in Nat /\ k.req \in Requests
        /\ f.others \subseteq Client
        /\ k.status \in Status /\ k.status # None /\ k.status # "201"
    BY <1>1, <1>2 DEF Typed
  <1>4. d \in Seq(Client \cup {"disk"}) /\ Len(d) \in Nat
    BY <1>3 DEF ConnInv
  <1>5. /\ n \in Nat /\ f.at + n <= Len(d)
        /\ n < BufSize => f.at + n = Len(d)
    <2>1. f.at \in Nat /\ Len(d) \in Nat /\ f.at < Len(d) /\ BufSize \in Nat
      BY <1>1, <1>3, <1>4, FileAssumption
    <2>2. n = IF BufSize < Len(d) - f.at THEN BufSize ELSE Len(d) - f.at
      BY DEF Smaller
    <2> HIDE DEF f, d, n
    <2> QED
      BY <2>1, <2>2
  <1>6. /\ Further(f, n).ino = f.ino /\ Further(f, n).at = f.at + n
        /\ Further(f, n).others = f.others
        /\ Further(f, n).buf = f.buf \o SubSeq(d, f.at + 1, f.at + n)
        /\ Further(f, n) = [ino |-> Further(f, n).ino, at |-> Further(f, n).at,
                            buf |-> Further(f, n).buf,
                            others |-> Further(f, n).others]
    BY DEF Further
  <1>7. /\ more.stage = "reading" /\ more.req = k.req /\ more.status = k.status
        /\ more.file = Further(f, n)
        /\ more = Connection(more.stage, more.req, more.cgi, more.file, more.status,
                             more.reply)
    BY DEF Connection
  <1> HIDE DEF n, more
  <1>8. f.others = {} => more.file.buf = SubSeq(d, 1, f.at + n)
    <2> SUFFICES ASSUME f.others = {}
                 PROVE  more.file.buf = SubSeq(d, 1, f.at + n)
      OBVIOUS
    <2>1. f.buf = SubSeq(d, 1, f.at)
      BY <1>1, <1>2 DEF Faithful
    <2>2. more.file.buf = SubSeq(d, 1, f.at) \o SubSeq(d, f.at + 1, f.at + n)
      BY <1>6, <1>7, <2>1
    <2> HIDE DEF d, f, k
    <2>3. SubSeq(d, 1, f.at) \o SubSeq(d, f.at + 1, f.at + n) = SubSeq(d, 1, f.at + n)
      BY <1>3, <1>4, <1>5, Parts
    <2> QED BY <2>2, <2>3
  <1>9. CASE ~(n < BufSize)
    <2>1. Becomes(c, more)
      BY <1>1, <1>9
    <2>2. Typed(more)
      <3>1. f.at + n \in Nat
        BY <1>3, <1>5
      <3>2. PICK m \in Nat : f.at = m * BufSize
        BY <1>1, <1>2 DEF Typed
      <3>6. n = IF BufSize < Len(d) - f.at THEN BufSize ELSE Len(d) - f.at
        BY DEF Smaller, n
      <3> HIDE DEF k, f, d
      <3>3. n = BufSize /\ BufSize \in Nat
        BY <1>3, <1>4, <1>9, <3>6, FileAssumption
      <3>4. f.at + n = (m + 1) * BufSize
        BY <3>2, <3>3
      <3>5. \E j \in Nat : f.at + n = j * BufSize
        BY <3>4
      <3> QED BY <1>3, <1>6, <1>7, <3>1, <3>5 DEF Typed, Stages, Uploads
    <2>3. Faithful(c, more, data) /\ ~Uploads(more)
      BY <1>5, <1>6, <1>7, <1>8 DEF Faithful, Uploads
    <2>4. Apart(c, more, conn)
      BY <1>2, <1>6, <1>7 DEF Apart
    <2> QED BY <1>1, <1>7, <2>1, <2>2, <2>3, <2>4, BecomingKeeps DEF Sound
  <1>10. CASE n < BufSize
    <2> DEFINE q == Response(more, k.status)
    <2>1. Becomes(c, q)
      BY <1>1, <1>10
    <2>2. /\ q.stage = "answered" /\ q.req = more.req /\ q.status = k.status
          /\ q.file = more.file
          /\ q.reply.length = Len(more.file.buf)
          /\ q.req.method # "HEAD" => q.reply.body = more.file.buf
          /\ q = Connection(q.stage, q.req, q.cgi, q.file, q.status, q.reply)
      BY DEF Response, Pushed, Connection
    <2> HIDE DEF q
    <2>3. Typed(q)
      <3>1. f.at + n \in Nat
        BY <1>3, <1>5
      <3> HIDE DEF k, f, d
      <3> QED BY <1>3, <1>6, <1>7, <2>2, <3>1 DEF Typed, Stages, Uploads
    <2>4. f.others = {} => more.file.buf = d
      <3> HIDE DEF d, f, k
      <3> QED BY <1>4, <1>5, <1>8, <1>10, WholeSeq
    <2>5. Faithful(c, q, data) /\ ~Uploads(q)
      BY <1>3, <1>6, <1>7, <2>2, <2>4 DEF Faithful, Uploads
    <2>6. Apart(c, q, conn)
      BY <1>2, <1>6, <1>7, <2>2 DEF Apart
    <2> QED BY <1>1, <2>1, <2>2, <2>3, <2>5, <2>6, BecomingKeeps DEF Sound
  <1> QED BY <1>9, <1>10

-----------------------------------------------------------------------------
(***************************************************************************)
(* Writing                                                                 *)
(***************************************************************************)

\* A file stays a sequence.
LEMMA WrittenType ==
    ASSUME NEW c \in Client, NEW a \in Nat, NEW n \in Nat,
           NEW old \in Seq(Client \cup {"disk"})
    PROVE  Written(old, a, n, c) \in Seq(Client \cup {"disk"})
  BY DEF Written

\* What holds of client e holds when only files that are not its own, or not
\* its own alone, have changed.
LEMMA FaithfulElsewhere ==
    ASSUME NEW e, NEW k, NEW d, NEW d2, Typed(k), Faithful(e, k, d),
           k.file.others = {} /\ k.file.ino # NoFile => d2[k.file.ino] = d[k.file.ino]
    PROVE  Faithful(e, k, d2)
  BY DEF Faithful, Typed, Uploads

\* A part of the body, or the last of it, is written.
LEMMA WriteKeeps ==
    ASSUME ConnInv, NEW c \in Client, Write(c)
    PROVE  Keeps
  <1> DEFINE k == conn[c]
             f == k.file
             d == data[f.ino]
  <1>1. PICK n \in 0..(k.req.length - f.at) :
          /\ data' = [data EXCEPT ![f.ino] = Written(d, f.at, n, c)]
          /\ Becomes(c, IF f.at + n < k.req.length
                        THEN Connection("writing", k.req, k.cgi,
                                        [ino |-> f.ino, at |-> f.at + n,
                                         buf |-> f.buf, others |-> f.others],
                                        None, NoReply)
                        ELSE Response(k, "201"))
    BY DEF Write
  <1>2. k.stage = "writing"
    BY DEF Write
  <1>3. Typed(k) /\ Faithful(c, k, data) /\ Apart(c, k, conn)
    BY DEF ConnInv, Sound
  <1>4. /\ f.ino \in Ino /\ f.ino # NoFile /\ f.at \in Nat /\ k.req \in Requests
        /\ f.others \subseteq Client /\ f.at <= k.req.length
        /\ f = [ino |-> f.ino, at |-> f.at, buf |-> f.buf, others |-> f.others]
    BY <1>2, <1>3 DEF Typed, Uploads
  <1>5. k.req.length \in Nat /\ n \in Nat /\ f.at + n \in Nat
        /\ f.at + n <= k.req.length
    BY <1>4, RequestAssumption
  <1>6. data \in [Ino -> Seq(Client \cup {"disk"})] /\ d \in Seq(Client \cup {"disk"})
    BY <1>4 DEF ConnInv
  <1>7. Written(d, f.at, n, c) \in Seq(Client \cup {"disk"})
    BY <1>4, <1>5, <1>6, WrittenType
  <1>8. /\ data' \in [Ino -> Seq(Client \cup {"disk"})]
        /\ data'[f.ino] = Written(d, f.at, n, c)
        /\ \A i \in Ino : i # f.ino => data'[i] = data[i]
    BY <1>1, <1>4, <1>6, <1>7
  <1>9. f.others = {} => data'[f.ino] = [j \in 1..(f.at + n) |-> c]
    <2> SUFFICES ASSUME f.others = {}
                 PROVE  data'[f.ino] = [j \in 1..(f.at + n) |-> c]
      OBVIOUS
    <2>1. d = [j \in 1..f.at |-> c]
      BY <1>2, <1>3 DEF Faithful, Uploads, Stored
    <2> HIDE DEF d, f, k
    <2>2. Len(d) = f.at
      BY <1>4, <2>1
    <2>3. Written(d, f.at, n, c) = [j \in 1..(f.at + n) |-> c]
      BY <1>4, <1>5, <2>1, <2>2 DEF Written
    <2> QED BY <1>8, <2>3
  <1>10. /\ conn' = [e \in Client |-> conn'[e]]
         /\ \A e \in Client \ {c} : conn'[e] = conn[e]
    BY <1>1 DEF ConnInv, Becomes
  <1>11. Sound(c, conn'[c], data', conn') /\ conn'[c].file.ino = f.ino
         /\ conn'[c].req = k.req
    <2>1. CASE f.at + n < k.req.length
      <3> DEFINE g == [ino |-> f.ino, at |-> f.at + n, buf |-> f.buf,
                       others |-> f.others]
                 q == Connection("writing", k.req, k.cgi, g, None, NoReply)
      <3>1. conn'[c] = q
        BY <1>1, <2>1 DEF ConnInv, Becomes
      <3>2. /\ q.stage = "writing" /\ q.req = k.req /\ q.status = None
            /\ q.file = g
            /\ q = Connection(q.stage, q.req, q.cgi, q.file, q.status, q.reply)
        BY DEF Connection
      <3>3. /\ g.ino = f.ino /\ g.at = f.at + n /\ g.others = f.others
            /\ g = [ino |-> g.ino, at |-> g.at, buf |-> g.buf, others |-> g.others]
        OBVIOUS
      <3> HIDE DEF g, q, k, f, d
      <3>4. Typed(q)
        BY <1>4, <1>5, <2>1, <3>2, <3>3 DEF Typed, Stages, Status, Uploads
      <3>5. Faithful(c, q, data')
        BY <1>9, <3>2, <3>3 DEF Faithful, Uploads, Stored
      <3>6. Apart(c, q, conn')
        BY <1>3, <1>10, <3>2, <3>3 DEF Apart, f
      <3> QED BY <3>1, <3>2, <3>3, <3>4, <3>5, <3>6 DEF Sound
    <2>2. CASE ~(f.at + n < k.req.length)
      <3> DEFINE q == Response(k, "201")
      <3>1. conn'[c] = q
        BY <1>1, <2>2 DEF ConnInv, Becomes
      <3>2. /\ q.stage = "answered" /\ q.req = k.req /\ q.status = "201"
            /\ q.file = f
            /\ q.reply.length = Len(f.buf)
            /\ q.req.method # "HEAD" => q.reply.body = f.buf
            /\ q = Connection(q.stage, q.req, q.cgi, q.file, q.status, q.reply)
        BY DEF Response, Pushed, Connection
      <3> HIDE DEF q, k, f, d
      <3>3. f.at + n = k.req.length
        BY <1>4, <1>5, <2>2
      <3>4. Typed(q)
        BY <1>4, <3>2 DEF Typed, Stages, Status, Uploads, None
      <3>5. Faithful(c, q, data')
        BY <1>9, <3>2, <3>3 DEF Faithful, Uploads, Stored
      <3>6. Apart(c, q, conn')
        BY <1>3, <1>10, <3>2 DEF Apart, f
      <3> QED BY <3>1, <3>2, <3>4, <3>5, <3>6 DEF Sound
    <2> QED BY <2>1, <2>2
  <1>12. ASSUME NEW e \in Client \ {c}
         PROVE  Sound(e, conn'[e], data', conn')
    <2>1. Typed(conn[e]) /\ Faithful(e, conn[e], data) /\ Apart(e, conn[e], conn)
      BY DEF ConnInv, Sound
    <2>2. conn[e].file.others = {} /\ conn[e].file.ino # NoFile
             => conn[e].file.ino # f.ino
      BY <1>2, <2>1 DEF Apart
    <2>3. conn[e].file.others = {} /\ conn[e].file.ino # NoFile
             => data'[conn[e].file.ino] = data[conn[e].file.ino]
      BY <1>8, <2>1, <2>2 DEF Typed
    <2>4. Faithful(e, conn[e], data')
      BY <2>1, <2>3, FaithfulElsewhere
    <2>5. Apart(e, conn[e], conn')
      BY <1>10, <1>11, <2>1, <2>2 DEF Apart
    <2> QED BY <1>10, <2>1, <2>4, <2>5 DEF Sound
  <1>13. ConnInv'
    BY <1>8, <1>10, <1>11, <1>12 DEF ConnInv
  <1> QED BY <1>2, <1>10, <1>11, <1>13 DEF Keeps, Kept, Uploads

\* A file is opened to be written.
LEMMA PutFileKeeps ==
    ASSUME ConnInv, NEW c \in Client, NEW r \in Requests, PutFile(c, r)
    PROVE  ConnInv'
  <1>1. PICK i \in Ino \ Locked :
          /\ data' = [data EXCEPT ![i] = <<>>]
          /\ conn' = [d \in Client |->
                IF d = c
                THEN Connection("writing", r, FALSE, Opened(i, Writers(i)), None, NoReply)
                ELSE IF conn[d].file.ino = i THEN Shared(conn[d], c)
                ELSE conn[d]]
    BY DEF PutFile, Emptied
  <1>2. i \in Ino /\ i # NoFile
    BY FileAssumption
  <1>3. <<>> \in Seq(Client \cup {"disk"})
    OBVIOUS
  <1>4. /\ data' \in [Ino -> Seq(Client \cup {"disk"})]
        /\ data'[i] = <<>>
        /\ \A j \in Ino : j # i => data'[j] = data[j]
    BY <1>1, <1>2, <1>3 DEF ConnInv
  <1> DEFINE q == Connection("writing", r, FALSE, Opened(i, Writers(i)), None, NoReply)
  <1>5. /\ q.stage = "writing" /\ q.req = r /\ q.status = None
        /\ q.file = Opened(i, Writers(i))
        /\ q = Connection(q.stage, q.req, q.cgi, q.file, q.status, q.reply)
    BY DEF Connection
  <1>6. conn'[c] = q
    BY <1>1
  <1> HIDE DEF q
  <1>7. /\ q.file.ino = i /\ q.file.at = 0 /\ q.file.others = Writers(i)
        /\ q.file = [ino |-> q.file.ino, at |-> q.file.at, buf |-> q.file.buf,
                     others |-> q.file.others]
    BY <1>5, OpenedFields
  <1>8. ASSUME NEW e \in Client \ {c}
        PROVE  /\ conn'[e].stage = conn[e].stage
               /\ conn'[e].file.ino = conn[e].file.ino
               /\ conn'[e].file.ino = i => conn'[e] = Shared(conn[e], c)
               /\ conn'[e].file.ino # i => conn'[e] = conn[e]
    <2>1. Shared(conn[e], c).stage = conn[e].stage
          /\ Shared(conn[e], c).file.ino = conn[e].file.ino
      BY DEF Shared, Connection
    <2> QED BY <1>1, <2>1
  <1>9. Sound(c, q, data', conn')
    <2>1. r.length \in Nat /\ Writers(i) \subseteq Client
      BY RequestAssumption DEF Writers
    <2>2. Typed(q)
      BY <1>2, <1>5, <1>7, <2>1 DEF Typed, Stages, Status, Uploads
    <2>3. <<>> = [n \in 1..0 |-> c]
      OBVIOUS
    <2>4. Faithful(c, q, data')
      BY <1>4, <1>5, <1>7, <2>3 DEF Faithful, Uploads, Stored
    <2>5. Apart(c, q, conn')
      BY <1>7, <1>8 DEF Apart, Writers
    <2> QED BY <2>2, <2>4, <2>5 DEF Sound
  <1>10. ASSUME NEW e \in Client \ {c}
         PROVE  Sound(e, conn'[e], data', conn')
    <2>1. Typed(conn[e]) /\ Faithful(e, conn[e], data) /\ Apart(e, conn[e], conn)
      BY DEF ConnInv, Sound
    <2>2. CASE conn'[e].file.ino # i
      <3>1. conn'[e] = conn[e]
        BY <1>8, <2>2
      <3>2. conn[e].file.ino # NoFile => data'[conn[e].file.ino] = data[conn[e].file.ino]
        BY <1>4, <2>1, <2>2, <3>1 DEF Typed
      <3>3. Faithful(e, conn[e], data')
        BY <2>1, <3>2, FaithfulElsewhere
      <3>4. Apart(e, conn[e], conn')
        BY <1>5, <1>6, <1>7, <1>8, <2>1, <2>2, <3>1 DEF Apart
      <3> QED BY <2>1, <3>1, <3>3, <3>4 DEF Sound
    <2>3. CASE conn'[e].file.ino = i
      <3> DEFINE k == conn[e]
                 s == Shared(k, c)
      <3>1. conn'[e] = s
        BY <1>8, <2>3
      <3>2. /\ s.stage = k.stage /\ s.req = k.req /\ s.status = k.status
            /\ s.reply = k.reply
            /\ s.file.ino = k.file.ino /\ s.file.at = k.file.at
            /\ s.file.others = k.file.others \cup {c}
        BY DEF Shared, Connection
      <3>3. /\ s = Connection(s.stage, s.req, s.cgi, s.file, s.status, s.reply)
            /\ s.file = [ino |-> s.file.ino, at |-> s.file.at, buf |-> s.file.buf,
                         others |-> s.file.others]
        BY DEF Shared, Connection
      <3>4. k.file.ino = i
        BY <1>8, <2>3
      <3>5. k.stage # "script"
        BY <1>2, <2>1, <3>4, OpenedFields DEF Typed
      <3> HIDE DEF s, k
      <3>6. Typed(k) /\ Faithful(e, k, data)
        BY <2>1 DEF k
      <3>7. Typed(s)
        BY <1>2, <3>2, <3>3, <3>4, <3>5, <3>6 DEF Typed, Stages, Uploads
      <3>8. s.file.others # {}
        BY <3>2
      <3>9. Faithful(e, s, data')
        BY <3>2, <3>6, <3>8 DEF Faithful, Uploads
      <3>10. Apart(e, s, conn')
        BY <3>8 DEF Apart
      <3> QED BY <3>1, <3>7, <3>9, <3>10 DEF Sound
    <2> QED BY <2>2, <2>3
  <1>11. conn' = [e \in Client |-> conn'[e]]
    BY <1>1
  <1> QED BY <1>4, <1>6, <1>9, <1>10, <1>11 DEF ConnInv

-----------------------------------------------------------------------------
(***************************************************************************)
(* The theorems about uploads and responses                                *)
(***************************************************************************)

LEMMA InitConn ==
    ASSUME Init
    PROVE  ConnInv
  <1>1. data \in [Ino -> Seq(Client \cup {"disk"})]
    <2>1. [n \in 1..Size0 |-> "disk"] \in Seq(Client \cup {"disk"})
      BY FileAssumption
    <2>2. <<>> \in Seq(Client \cup {"disk"})
      OBVIOUS
    <2> QED BY <2>1, <2>2 DEF Init
  <1>2. conn = [c \in Client |-> Idle]
    BY DEF Init
  <1> QED BY <1>1, <1>2, IdleSound DEF ConnInv

LEMMA StepConn ==
    ASSUME ConnInv, [Next]_vars
    PROVE  ConnInv'
  <1>1. CASE UNCHANGED vars
    BY <1>1 DEF vars, ConnInv
  <1>2. CASE Next
    <2>1. PICK c \in Client :
            \/ Read(c) \/ Write(c) \/ ScriptFails(c) \/ ScriptEnds(c) \/ Finish(c)
            \/ \E r \in Requests : Handle(c, r)
      BY <1>2 DEF Next
    <2>2. CASE Read(c)
      BY <2>2, ReadKeeps DEF Keeps
    <2>3. CASE Write(c)
      BY <2>3, WriteKeeps DEF Keeps
    <2>4. CASE Finish(c)
      BY <2>4, FinishKeeps DEF Keeps
    <2>5. ASSUME NEW r \in Requests, Handle(c, r)
          PROVE  ConnInv'
      BY <2>5, AnswerKeeps, GetFileKeeps, ScriptKeeps, PutBareKeeps, PutFileKeeps
         DEF Handle, Keeps
    <2>6. CASE ScriptFails(c) \/ ScriptEnds(c)
      BY <2>6, ScriptKeeps DEF Keeps
    <2> QED BY <2>1, <2>2, <2>3, <2>4, <2>5, <2>6
  <1> QED BY <1>1, <1>2

\* The invariant of files and connections holds in every reachable state.
THEOREM ConnInvariant == Spec => []ConnInv
  <1> QED BY InitConn, StepConn, PTL DEF Spec

\* An upload answered 201, which no other upload overlapped or followed, is
\* stored as it was sent.
THEOREM UploadExactHolds == Spec => []UploadExact
  <1>1. ConnInv => UploadExact
    BY DEF ConnInv, Sound, Faithful, UploadExact, Uploads, Stored
  <1> QED BY <1>1, ConnInvariant, PTL

\* A file that no upload writes meanwhile is answered as it is.
THEOREM GetExactHolds == Spec => []GetExact
  <1>1. ConnInv => GetExact
    BY DEF ConnInv, Sound, Faithful, GetExact
  <1> QED BY <1>1, ConnInvariant, PTL

\* The body is as long as Content-Length says.
THEOREM LengthTrueHolds == Spec => []LengthTrue
  <1>1. ConnInv => LengthTrue
    BY DEF ConnInv, Sound, Faithful, LengthTrue
  <1> QED BY <1>1, ConnInvariant, PTL

\* A client waits for an event that does not come only for a file whose size is a
\* multiple of the buffer's, or that an upload has come between.
THEOREM ReaderServedHolds == Spec => []ReaderServed
  <1>1. ASSUME NEW n \in Nat, NEW m \in Nat, n = m * BufSize
        PROVE  m \in 0..n
    <2>1. BufSize \in Nat /\ BufSize >= 1
      BY FileAssumption
    <2>2. m * BufSize >= m
      BY <2>1
    <2> QED BY <1>1, <2>2
  <1>2. ConnInv => ReaderServed
    <2> SUFFICES ASSUME ConnInv, NEW c \in Client, conn[c].stage = "reading",
                        conn[c].file.others = {},
                        conn[c].file.at >= Len(data[conn[c].file.ino])
                 PROVE  \E m \in 0..Len(data[conn[c].file.ino]) :
                            Len(data[conn[c].file.ino]) = m * BufSize
      BY DEF ReaderServed
    <2> DEFINE f == conn[c].file
               n == Len(data[f.ino])
    <2>1. Typed(conn[c]) /\ Faithful(c, conn[c], data)
      BY DEF ConnInv, Sound
    <2>2. f.at \in Nat /\ f.at <= n
      BY <2>1 DEF Typed, Faithful
    <2>3. f.ino \in Ino
      BY <2>1 DEF Typed
    <2>4. data[f.ino] \in Seq(Client \cup {"disk"})
      BY <2>3 DEF ConnInv
    <2>5. n \in Nat
      BY <2>4
    <2>6. PICK m \in Nat : f.at = m * BufSize
      BY <2>1 DEF Typed
    <2>7. f.at >= n
      OBVIOUS
    <2> HIDE DEF n, f
    <2>8. n = m * BufSize
      BY <2>2, <2>5, <2>6, <2>7
    <2>9. m \in 0..n
      BY <1>1, <2>5, <2>8
    <2> QED BY <2>8, <2>9 DEF n, f
  <1> QED BY <1>2, ConnInvariant, PTL

-----------------------------------------------------------------------------
(***************************************************************************)
(* Names                                                                   *)
(***************************************************************************)

\* Every name of a file of the new tree was there before.
Fewer ==
    /\ tree' \in [Paths -> Ino \cup {None, Dir}]
    /\ \A p \in Paths : tree'[p] \in Ino => tree'[p] = tree[p]

LEMMA Distinct == None # Dir /\ None \notin Ino /\ Dir \notin Ino
  BY FileAssumption DEF None, Dir

\* Directories that are made are no files.
LEMMA MadeFewer ==
    ASSUME TreeInv, NEW names
    PROVE  /\ Made(names) \in [Paths -> Ino \cup {None, Dir}]
           /\ \A p \in Paths : /\ Made(names)[p] \in Ino => Made(names)[p] = tree[p]
                               /\ tree[p] \in Ino => Made(names)[p] = tree[p]
                               /\ Made(names)[p] = None => tree[p] = None
  <1>1. \A p \in Paths :
          \/ tree[p] = None /\ Made(names)[p] = Dir
          \/ Made(names)[p] = tree[p]
    BY DEF Made
  <1>2. Made(names) \in [Paths -> Ino \cup {None, Dir}]
    BY DEF Made, TreeInv
  <1> QED BY <1>1, <1>2, Distinct

LEMMA TakesFewer ==
    ASSUME TreeInv, NEW gone, Takes(gone)
    PROVE  Fewer
  BY Distinct DEF Takes, Fewer, TreeInv

\* The requests that give no file a name.
LEMMA StepFewer ==
    ASSUME TreeInv, NEW c \in Client, NEW r \in Requests, Handle(c, r), ~PutFile(c, r)
    PROVE  Fewer /\ up' \in BOOLEAN
  <1>1. UNCHANGED tree => Fewer
    BY DEF Fewer, TreeInv
  <1>2. up \in BOOLEAN
    BY DEF TreeInv
  <1>4. CASE \/ Refuse(c, r) \/ Redirect(c, r) \/ StartScript(c, r)
             \/ GetNothing(c, r) \/ GetDirectory(c, r) \/ GetFile(c, r)
             \/ PutBare(c, r) \/ PutDirectory(c, r)
    BY <1>1, <1>2, <1>4 DEF Refuse, Redirect, StartScript, GetNothing, GetDirectory,
       GetFile, PutBare, PutDirectory, Fail
  <1>5. CASE DeleteFile(c, r)
    <2>1. UNCHANGED tree \/ (\E q : tree' = [tree EXCEPT ![q] = None])
      BY <1>5 DEF DeleteFile
    <2>2. ASSUME NEW q, tree' = [tree EXCEPT ![q] = None]
          PROVE  Fewer
      BY <2>2, Distinct DEF Fewer, TreeInv
    <2> QED BY <1>1, <1>2, <1>5, <2>1, <2>2 DEF DeleteFile
  <1>6. CASE DeleteDirectory(c, r) \/ DeletePartly(c, r)
    <2>1. \E gone : Takes(gone)
      BY <1>6 DEF DeleteDirectory, DeletePartly
    <2> QED BY <1>2, <1>6, <2>1, TakesFewer DEF DeleteDirectory, DeletePartly
  <1>7. CASE PutFails(c, r)
    <2>1. \E names : tree' = Made(names)
      BY <1>7 DEF PutFails
    <2> QED BY <1>2, <1>7, <2>1, MadeFewer DEF Fewer, PutFails
  <1> QED BY <1>4, <1>5, <1>6, <1>7 DEF Handle

\* A step that gives no file a name, with no new upload.
LEMMA FewerKeeps ==
    ASSUME TreeInv, ConnInv, Kept, Fewer, up' \in BOOLEAN
    PROVE  TreeInv'
  <1>1. \A p, q \in Paths : tree'[p] = tree'[q] /\ tree'[p] \in Ino => p = q
    BY DEF Fewer, TreeInv
  <1>2. ASSUME NEW e \in Client
        PROVE  Home(conn[e])'
    <2> SUFFICES ASSUME Uploads(conn'[e]),
                        LocationOf[conn'[e].req.target].root.slash = TRUE,
                        NEW p \in Paths, tree'[p] = conn'[e].file.ino
                 PROVE  p = Place(Checked(LocationOf[conn'[e].req.target],
                                          conn'[e].req.target).names)
      BY DEF Home
    <2>1. /\ Uploads(conn[e]) /\ conn'[e].req = conn[e].req
          /\ conn'[e].file.ino = conn[e].file.ino
      BY DEF Kept
    <2>2. conn[e].file.ino \in Ino
      BY <2>1 DEF ConnInv, Sound, Typed
    <2>3. tree[p] = conn[e].file.ino
      BY <2>1, <2>2 DEF Fewer
    <2>4. Home(conn[e])
      BY DEF TreeInv
    <2> QED BY <2>1, <2>3, <2>4 DEF Home
  <1> QED BY <1>1, <1>2 DEF TreeInv, Fewer

\* With a slash at the end of the root, both paths have the same names.
LEMMA SameNames ==
    ASSUME NEW l \in Locations, NEW r \in Requests, NEW slash, l.root.slash = TRUE
    PROVE  Joined(l, r.target, slash).names = Checked(l, r.target).names
  <1>1. l.root.names \in Seq(Names)
    BY LocationAssumption
  <1>2. l.root.names \o <<>> = l.root.names
    BY <1>1
  <1> QED BY <1>2 DEF Joined, Checked, Path

\* A file is opened to be written, and may get a name.
LEMMA PutFileHome ==
    ASSUME TreeInv, ConnInv, NEW c \in Client, NEW r \in Requests, PutFile(c, r)
    PROVE  TreeInv'
  <1>1. PICK l \in Locations, i \in Ino \ Locked :
          /\ l = LocationOf[r.target] /\ UNCHANGED up
          /\ Place(Joined(l, r.target, r.target.slash).names) \in Paths
          /\ \/ Made(Joined(l, r.target, r.target.slash).names)
                    [Place(Joined(l, r.target, r.target.slash).names)] = i
             \/ /\ Made(Joined(l, r.target, r.target.slash).names)
                    [Place(Joined(l, r.target, r.target.slash).names)] = None
                /\ Fresh(i)
          /\ tree' = [Made(Joined(l, r.target, r.target.slash).names)
                      EXCEPT ![Place(Joined(l, r.target, r.target.slash).names)] = i]
          /\ conn' = [d \in Client |->
                IF d = c
                THEN Connection("writing", r, FALSE, Opened(i, Writers(i)), None, NoReply)
                ELSE IF conn[d].file.ino = i THEN Shared(conn[d], c)
                ELSE conn[d]]
    BY DEF PutFile, Upload, Meta, Passes
  <1> DEFINE names == Joined(l, r.target, r.target.slash).names
             q == Place(names)
             made == Made(names)
  <1>2. /\ made \in [Paths -> Ino \cup {None, Dir}]
        /\ \A p \in Paths : /\ made[p] \in Ino => made[p] = tree[p]
                            /\ tree[p] \in Ino => made[p] = tree[p]
                            /\ made[p] = None => tree[p] = None
    BY MadeFewer
  <1>3. /\ q \in Paths /\ tree' = [made EXCEPT ![q] = i]
        /\ made[q] = i \/ (made[q] = None /\ Fresh(i))
    BY <1>1
  <1>4. l.root.slash = TRUE => names = Checked(l, r.target).names
    BY SameNames
  <1>5. /\ conn'[c].req = r /\ conn'[c].file.ino = i
        /\ \A e \in Client \ {c} :
              /\ conn'[e].req = conn[e].req /\ conn'[e].file.ino = conn[e].file.ino
              /\ Uploads(conn'[e]) => Uploads(conn[e])
    <2>1. conn'[c].req = r /\ conn'[c].file = Opened(i, Writers(i))
      BY <1>1 DEF Connection
    <2>2. ASSUME NEW e \in Client \ {c}
          PROVE  conn'[e] = Shared(conn[e], c) \/ conn'[e] = conn[e]
      BY <1>1
    <2>3. ASSUME NEW e \in Client
          PROVE  /\ Shared(conn[e], c).req = conn[e].req
                 /\ Shared(conn[e], c).stage = conn[e].stage
                 /\ Shared(conn[e], c).status = conn[e].status
                 /\ Shared(conn[e], c).file.ino = conn[e].file.ino
      BY DEF Shared, Connection
    <2> QED BY <2>1, <2>2, <2>3, OpenedFields DEF Uploads
  <1> HIDE DEF names, q, made
  <1>6. /\ tree' \in [Paths -> Ino \cup {None, Dir}]
        /\ tree'[q] = i /\ \A p \in Paths \ {q} : tree'[p] = made[p]
    BY <1>2, <1>3
  <1>7. \A p \in Paths \ {q} : tree'[p] \in Ino => tree'[p] = tree[p]
    BY <1>2, <1>6
  <1>8. \A p \in Paths \ {q} : tree'[p] # i
    <2>1. CASE made[q] = i
      <3>1. tree[q] = i
        BY <1>2, <1>3, <2>1
      <3> QED BY <1>3, <1>7, <3>1 DEF TreeInv
    <2>2. CASE Fresh(i)
      BY <1>7, <2>2 DEF Fresh
    <2> QED BY <1>3, <2>1, <2>2
  <1>9. \A p, s \in Paths : tree'[p] = tree'[s] /\ tree'[p] \in Ino => p = s
    BY <1>6, <1>7, <1>8 DEF TreeInv
  <1>10. Home(conn[c])'
    <2> SUFFICES ASSUME LocationOf[r.target].root.slash = TRUE,
                        NEW p \in Paths, tree'[p] = i
                 PROVE  p = Place(Checked(LocationOf[r.target], r.target).names)
      BY <1>5 DEF Home
    <2>1. p = q
      BY <1>8
    <2>2. names = Checked(l, r.target).names
      BY <1>1, <1>4
    <2> QED BY <1>1, <2>1, <2>2 DEF q
  <1>11. ASSUME NEW e \in Client \ {c}
         PROVE  Home(conn[e])'
    <2> SUFFICES ASSUME Uploads(conn'[e]),
                        LocationOf[conn'[e].req.target].root.slash = TRUE,
                        NEW p \in Paths, tree'[p] = conn'[e].file.ino
                 PROVE  p = Place(Checked(LocationOf[conn'[e].req.target],
                                          conn'[e].req.target).names)
      BY DEF Home
    <2>1. /\ Uploads(conn[e]) /\ conn'[e].req = conn[e].req
          /\ conn'[e].file.ino = conn[e].file.ino
      BY <1>5
    <2>2. conn[e].file.ino \in Ino
      BY <2>1 DEF ConnInv, Sound, Typed
    <2>3. tree[p] = conn[e].file.ino
      <3>1. CASE p # q
        BY <1>7, <2>1, <2>2, <3>1
      <3>2. CASE p = q
        <4>1. conn[e].file.ino = i
          BY <1>6, <2>1, <3>2
        <4>2. made[q] = i
          BY <1>3, <4>1 DEF Fresh
        <4> QED BY <1>2, <1>3, <3>2, <4>1, <4>2
      <3> QED BY <3>1, <3>2
    <2>4. Home(conn[e])
      BY DEF TreeInv
    <2> QED BY <2>1, <2>3, <2>4 DEF Home
  <1> QED BY <1>1, <1>6, <1>9, <1>10, <1>11 DEF TreeInv

LEMMA InitTree ==
    ASSUME Init
    PROVE  TreeInv
  <1>1. \A c \in Client : ~Uploads(conn[c])
    BY DEF Init, Idle, Begun, Connection, Uploads
  <1> QED BY <1>1, FileAssumption DEF Init, TreeInv, Home

LEMMA StepTree ==
    ASSUME TreeInv, ConnInv, [Next]_vars
    PROVE  TreeInv'
  <1>1. CASE UNCHANGED vars
    BY <1>1 DEF vars, TreeInv, Home
  <1>2. CASE Next
    <2>1. PICK c \in Client :
            \/ Read(c) \/ Write(c) \/ ScriptFails(c) \/ ScriptEnds(c) \/ Finish(c)
            \/ \E r \in Requests : Handle(c, r)
      BY <1>2 DEF Next
    <2>2. CASE Read(c) \/ Write(c) \/ ScriptFails(c) \/ ScriptEnds(c) \/ Finish(c)
      <3>1. Kept
        BY <2>2, ReadKeeps, WriteKeeps, FinishKeeps, ScriptKeeps DEF Keeps
      <3>2. UNCHANGED <<tree, up>>
        BY <2>2 DEF Read, Write, ScriptFails, ScriptEnds, Finish, Fail
      <3>3. Fewer /\ up' \in BOOLEAN
        BY <3>2 DEF Fewer, TreeInv
      <3> QED BY <3>1, <3>3, FewerKeeps
    <2>3. ASSUME NEW r \in Requests, Handle(c, r)
          PROVE  TreeInv'
      <3>1. CASE PutFile(c, r)
        BY <3>1, PutFileHome
      <3>2. CASE ~PutFile(c, r)
        <4>1. Kept
          BY <2>3, <3>2, AnswerKeeps, GetFileKeeps, ScriptKeeps, PutBareKeeps
             DEF Handle, Keeps
        <4> QED BY <2>3, <3>2, <4>1, StepFewer, FewerKeeps
      <3> QED BY <3>1, <3>2
    <2> QED BY <2>1, <2>2, <2>3
  <1> QED BY <1>1, <1>2

\* The invariant of the names holds in every reachable state.
THEOREM TreeInvariant == Spec => []TreeInv
  <1>1. ConnInv /\ TreeInv /\ [Next]_vars => TreeInv'
    BY StepTree
  <1> QED BY InitTree, <1>1, ConnInvariant, PTL DEF Spec

\* An upload is stored where later requests for its target are looked for.
THEOREM UploadFoundHolds == Spec => []UploadFound
  <1>1. TreeInv => UploadFound
    BY DEF TreeInv, Home, Uploads, UploadFound
  <1> QED BY <1>1, TreeInvariant, PTL

\* The variables have their types.
THEOREM TypeOKHolds == Spec => []TypeOK
  <1>1. ConnInv /\ TreeInv => TypeOK
    <2> SUFFICES ASSUME ConnInv, TreeInv PROVE TypeOK
      OBVIOUS
    <2>1. ASSUME NEW i \in Ino, NEW k \in DOMAIN data[i]
          PROVE  data[i][k] \in Client \cup {"disk"}
      <3>1. data[i] \in Seq(Client \cup {"disk"})
        BY DEF ConnInv
      <3> QED BY <2>1, <3>1
    <2>2. ASSUME NEW c \in Client PROVE Typed(conn[c])
      BY DEF ConnInv, Sound
    <2> QED BY <2>1, <2>2 DEF TreeInv, TypeOK, Typed, Stages, Uploads
  <1> QED BY <1>1, ConnInvariant, TreeInvariant, PTL
=============================================================================
