------------------------------ MODULE MCWebserv ------------------------------
(* Small instances of Webserv for TLC. *)
EXTENDS Webserv, TLC

\* No action prefers one free descriptor over another, so the descriptors can
\* be permuted.  Used by the safety runs only.
Symmetry == Permutations(Fd)
=============================================================================
