------------------------------- MODULE MCRoom -------------------------------
(* Instances of Room for TLC: two connections, of two users or of one.     *)
EXTENDS Room, TLC

CONSTANTS c1, c2, u1, u2

MCOwnUser  == c1 :> u1 @@ c2 :> u2
MCSameUser == c1 :> u1 @@ c2 :> u1

\* Two connections of one user are alike.
MCAlike == Permutations({c1, c2})

=============================================================================
