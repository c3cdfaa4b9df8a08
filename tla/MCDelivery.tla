------------------------------ MODULE MCDelivery ------------------------------
(* Instances of Delivery for TLC.                                          *)
EXTENDS Delivery, TLC

Symmetry == Permutations(Doc) \cup Permutations(Conn) \cup Permutations(Server)

===============================================================================
