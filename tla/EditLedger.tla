----------------------------- MODULE EditLedger -----------------------------
(***************************************************************************)
(* What the operation handlers promise, without how they do it: an edit    *)
(* gets a number of its own before it is committed, and is announced only  *)
(* after it was committed.  A number may be lost, and a numbered edit      *)
(* dropped, when a call fails.  Operations.tla implements this.            *)
(***************************************************************************)
EXTENDS Naturals

CONSTANTS Conn, Op

VARIABLES
    counter,    \* the last number given
    reserved,   \* the numbered edits that are not committed yet
    committed,
    announced   \* the edits their author or the room was told of

vars == <<counter, reserved, committed, announced>>

Edit == [seq : Nat, op : Op, conn : Conn]

Init ==
    /\ counter = 1      \* of a document that was created and not edited
    /\ reserved = {} /\ committed = {} /\ announced = {}

\* A connection has one edit under way at a time.
Number ==
    /\ counter' \in {counter + 1, counter + 2}
    /\ \E e \in reserved' \ reserved :
          /\ e \in Edit /\ e.seq = counter'
          /\ \A r \in reserved : r.conn # e.conn
          /\ reserved' = reserved \cup {e}
    /\ UNCHANGED <<committed, announced>>

LoseNumber ==
    /\ counter' = counter + 1
    /\ UNCHANGED <<reserved, committed, announced>>

Commit ==
    /\ \E e \in reserved :
          /\ reserved' = reserved \ {e}
          /\ committed' = committed \cup {e}
    /\ UNCHANGED <<counter, announced>>

Drop ==
    /\ \E e \in reserved : reserved' = reserved \ {e}
    /\ UNCHANGED <<counter, committed, announced>>

Announce ==
    /\ \E e \in committed : announced' = announced \cup {e}
    /\ UNCHANGED <<counter, reserved, committed>>

Next == Number \/ LoseNumber \/ Commit \/ Drop \/ Announce

Spec == Init /\ [][Next]_vars

=============================================================================
