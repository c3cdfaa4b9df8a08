------------------------------ MODULE Lifecycle ------------------------------
(***************************************************************************)
(* What a one-time credential promises, without how it is kept: it goes    *)
(* through its stages one by one, and never back.  A verification code is  *)
(* drawn, mailed, stored and used (Verification.tla); a refresh token is   *)
(* issued and revoked (Sessions.tla).                                      *)
(***************************************************************************)
EXTENDS Naturals

CONSTANTS
    Item,
    Last    \* the number of the last stage

VARIABLE stage

Init == stage = [i \in Item |-> 0]

\* Several items may go on at once.
Next ==
    /\ stage' \in [Item -> 0 .. Last]
    /\ \A i \in Item : stage'[i] \in {stage[i], stage[i] + 1}

Spec == Init /\ [][Next]_stage

=============================================================================
