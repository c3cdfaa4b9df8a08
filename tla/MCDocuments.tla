----------------------------- MODULE MCDocuments -----------------------------
(* Instances of Documents for TLC.                                         *)
EXTENDS Documents, TLC

CONSTANTS u1, u2, a1, a2

\* One user has two connections, another has none.
MCOwner == [c \in {a1, a2} |-> u1]

Symmetry == Permutations(Doc) \cup Permutations({a1, a2})

===============================================================================
