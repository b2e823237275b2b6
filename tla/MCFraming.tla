------------------------------ MODULE MCFraming ------------------------------
(* Requests for TLC. *)
EXTENDS Framing

Request(kind, head, chunks, more) ==
    [kind |-> kind, head |-> head, chunks |-> chunks, more |-> more]

MCSizes == <<"1", "2", "3">>
MCData == {"x", "h", "blank", "CR", "LF", "0", "2"}

\* Data that looks like a size, half a line end, a line end or a last chunk.
Tricky == {<<"x">>, <<"2">>, <<"CR">>, <<"LF", "CR">>, <<"CR", "LF">>,
           <<"0", "CR", "LF">>}

Long(n) == [i \in 1..n |-> <<"x", "x", "x">>]

\* Bodies of up to two chunks, and of one when the next request follows; and
\* two whose length exceeds IntLimit.
MCRequests ==
    {Request(k, h, <<>>, m) : k \in {"plain", "bare"}, h \in {0, 4},
                              m \in {<<>>, <<"h", "blank">>, CrLf}}
    \cup {Request(k, 2, c, <<>>) : k \in {"length"} \cup InChunks,
                                   c \in SeqOf(Tricky, 2)}
    \cup {Request(k, 2, <<c>>, <<"h", "blank">>) :
              k \in {"length"} \cup InChunks, c \in Tricky}
    \cup {Request("length", 2, Long(n), <<>>) : n \in {3, 6}}
=============================================================================
