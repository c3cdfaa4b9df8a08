---------------------------- MODULE MCOperations ----------------------------
(* Instances of Operations for TLC.                                        *)
EXTENDS Operations, TLC

Insert(p, t) == [kind |-> "insert", pos |-> p, text |-> t]
Delete(p, t) == [kind |-> "delete", pos |-> p, text |-> t]

MCChar == {"a", "b", "x"}
MCText == <<"x", "x">>

\* Two different insertions, and a deletion that reaches past the end of the
\* initial text.
MCRequests == {Insert(0, <<"a">>), Insert(1, <<"b">>), Delete(1, <<"x", "x">>)}
\* An insertion each, whose texts differ.
MCInsertions == {Insert(0, <<"a">>), Insert(1, <<"b">>)}

Symmetry == Permutations(Conn)

=============================================================================
