------------------------------- MODULE Kqueue -------------------------------
(***************************************************************************)
(* The part of FreeBSD's kqueue(2) that the event loop relies on.  The     *)
(* server never talks to the queue directly: its handlers push EV_ADD and  *)
(* EV_DELETE commands on the vector ev_cmds (Webserv::add_kq_event,        *)
(* Client::add_kq_event) and the next call of kevent() applies the whole   *)
(* vector before it looks for events.                                      *)
(*                                                                         *)
(* Commands on different (descriptor, filter) pairs commute, so the vector *)
(* is kept as one entry per pair that sums up the commands pushed on it:   *)
(*                                                                         *)
(*   none     nothing pushed                                               *)
(*   add      ends registered, asks nothing of the queue                   *)
(*   delete   ends unregistered, its first command is a deletion           *)
(*   cancel   an addition followed by its deletion                         *)
(*   renew    a deletion followed by an addition                           *)
(*   refused  two deletions in a row: kevent() reports ENOENT              *)
(***************************************************************************)
CONSTANT Fd           \* descriptor numbers

Filter == {"READ", "WRITE"}
Knote  == Fd \X Filter
Cmd    == {"none", "add", "delete", "cancel", "renew", "refused"}

\* ev_cmds.clear()
NoCmds == [k \in Knote |-> "none"]

\* The entry of a pair after one more EV_ADD, or one more EV_DELETE.
Added(c) ==
    IF c = "refused" THEN "refused"
    ELSE IF c \in {"delete", "renew"} THEN "renew" ELSE "add"

Deleted(c) ==
    IF c \in {"none", "renew"} THEN "delete"
    ELSE IF c = "add" THEN "cancel" ELSE "refused"

\* add_kq_event(fd, filter, EV_ADD | EV_ENABLE)
Add(cmds, k) == [cmds EXCEPT ![k] = Added(@)]

\* add_kq_event(fd, filter, EV_DELETE | EV_DISABLE)
Delete(cmds, k) == [cmds EXCEPT ![k] = Deleted(@)]

\* What kevent() answers with EV_ERROR: EBADF for a descriptor that was
\* closed since the command was pushed, ENOENT for a deletion of a pair that
\* is not registered.
Refused(kq, cmds, open) ==
    {k \in Knote : \/ cmds[k] = "refused"
                   \/ cmds[k] # "none" /\ k[1] \notin open
                   \/ cmds[k] \in {"delete", "renew"} /\ k \notin kq}

\* The registered pairs once the commands are applied.
Applied(kq, cmds, open) ==
    {k \in Knote : /\ k[1] \in open
                   /\ \/ cmds[k] \in {"add", "renew"}
                      \/ cmds[k] = "none" /\ k \in kq}

\* close(fd) removes what is registered for the descriptor; it does not
\* remove the commands still waiting in ev_cmds.
WithoutFd(kq, f) == {k \in kq : k[1] # f}
=============================================================================
