---------------------------- MODULE MCVerification ----------------------------
(* Instances of Verification for TLC.                                      *)
EXTENDS Verification, TLC

CONSTANTS r1, r2, r3, a1, a2, n1, n2

\* A sign-up, another for the same name, one of a stranger or a resend, and a
\* verification of the first address.
MCAsks ==
    r1 :> {<<"sign up", a1, n1>>}
    @@ r2 :> {<<"sign up", a2, n1>>, <<"sign up", a2, n2>>, <<"resend", a1, None>>}
    @@ r3 :> {<<"verify", a1, None>>}

\* The first task meets every failure of the worker and is delivered twice.
MCTries == r1 :> 2 @@ r2 :> 1 @@ r3 :> 1
MCFaults ==
    r1 :> WorkerFaults \cup {"database"}
    @@ r2 :> {"database", "queue"}
    @@ r3 :> {"database", "expiry"}
MCNoFaults == [r \in Request |-> {}]

=============================================================================
