------------------------------ MODULE MCSessions ------------------------------
(* Instances of Sessions for TLC: a user with a password and one of Google *)
(* who has the same display name.                                          *)
EXTENDS Sessions, TLC

CONSTANTS u1, u2, n1

MCNameOf == u1 :> n1 @@ u2 :> n1
Symmetry == Permutations(Worker) \cup Permutations(Token)

===============================================================================
