--------------------------- MODULE MCLocationMatch ---------------------------
(* Configurations for TLC. *)
EXTENDS LocationMatch

Plain == SeqOf(Names \ Dotted, 2)

\* With every location its parents up to "/", and no "." in a path; or none.
ClosedConfigs ==
    {c \in SUBSET Plain : \A p \in c : \A k \in 0..Len(p) : SubSeq(p, 1, k) \in c}

\* Any set of locations.
AllConfigs == SUBSET Plain
=============================================================================
