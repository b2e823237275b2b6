------------------------------ MODULE Exchange ------------------------------
(***************************************************************************)
(* What the server promises each connection, without descriptors, events   *)
(* or files: requests and responses alternate on it.  A connection is      *)
(*                                                                         *)
(*   closed    not accepted, or over                                       *)
(*   reading   collecting a request                                        *)
(*   serving   its request is complete and waits for a file or a program   *)
(*   sending   its response is on the way                                  *)
(*                                                                         *)
(* A request that is being served is never abandoned, and nothing is read  *)
(* from the connection until its response has been sent.                   *)
(***************************************************************************)
CONSTANT Conn
VARIABLE phase

Init == phase = [c \in Conn |-> "closed"]

\* Connection c moves from a phase in From to phase to; the others stay.
Move(c, From, to) ==
    /\ phase[c] \in From /\ phase'[c] = to
    /\ phase' = [phase EXCEPT ![c] = to]

Open(c)   == Move(c, {"closed"}, "reading")
Serve(c)  == Move(c, {"reading"}, "serving")
Answer(c) == Move(c, {"reading", "serving"}, "sending")
Finish(c) == Move(c, {"sending"}, "reading")
Close(c)  == Move(c, {"reading", "sending"}, "closed")

Next == \E c \in Conn :
            Open(c) \/ Serve(c) \/ Answer(c) \/ Finish(c) \/ Close(c)

Spec == Init /\ [][Next]_phase
=============================================================================
