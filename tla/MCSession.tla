------------------------------ MODULE MCSession ------------------------------
(* A small instance of Session for TLC. *)
EXTENDS Session, TLC

\* Browsers, ports and the connections of a browser are interchangeable.
Symmetry == Permutations(Browser) \cup Permutations(Server) \cup Permutations(Lane)
=============================================================================
