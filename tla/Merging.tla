------------------------------- MODULE Merging -------------------------------
(***************************************************************************)
(* What one incoming edit becomes when others were logged since the text   *)
(* it was made against: the transformation of Transformation.tla compared  *)
(* with the merge that both authors meant.                                 *)
(*                                                                         *)
(* A character is a pair, who wrote it and where in what they wrote, so    *)
(* that a merged text shows whose characters survived and in which order.  *)
(***************************************************************************)
EXTENDS Transformation, SequencesExt

CONSTANTS BaseLength, MaxText, MaxHistory

ASSUME MergingAssumption ==
    BaseLength \in Nat /\ MaxText \in Nat \ {0} /\ MaxHistory \in Nat

VARIABLES
    phase,      \* "editing" until the incoming edit has been handled
    doc,        \* the document the server holds
    history,    \* the edits logged since the incoming edit's base
    incoming,   \* the incoming edit as its author made it, against Base
    landed      \* the incoming edit as the server applied it

vars == <<phase, doc, history, incoming, landed>>

\* Author 0 wrote the base text, author k the k-th logged edit, and the last
\* author the incoming edit.
Text(author, n) == [i \in 1..n |-> <<author, i>>]
Base == Text(0, BaseLength)
Incoming == MaxHistory + 1

NoEdit == [kind |-> "insert", pos |-> 0, text |-> <<>>]

\* The edits an author who sees text can make: inside the text, and a
\* deletion carries the text it removes.
Insertions(text, author) ==
    [kind : {"insert"}, pos : 0..Len(text), text : {Text(author, n) : n \in 1..MaxText}]
Deletions(text) ==
    { [kind |-> "delete", pos |-> r[1], text |-> SubSeq(text, r[1] + 1, r[1] + r[2])] :
        r \in {s \in (0..Len(text)) \X (1..MaxText) : s[1] + s[2] <= Len(text)} }
Edits(text, author) == Insertions(text, author) \cup Deletions(text)

Init ==
    /\ phase = "editing" /\ doc = Base /\ history = <<>>
    /\ incoming = NoEdit /\ landed = NoEdit

\* An edit made against the current text: base_seq = curr_seq.
LogEdit ==
    /\ phase = "editing" /\ Len(history) < MaxHistory
    /\ \E op \in Edits(doc, Len(history) + 1) :
          /\ doc' = ApplyOperation(doc, op)
          /\ history' = Append(history, op)
    /\ UNCHANGED <<phase, incoming, landed>>

\* An edit made against Base: base_seq < curr_seq.
MergeEdit ==
    /\ phase = "editing" /\ history # <<>>
    /\ \E op \in Edits(Base, Incoming) :
          /\ ~Cancels(Last(history), op)
          /\ incoming' = op
          /\ landed' = Rebase(Last(history), op)
          /\ doc' = ApplyOperation(doc, landed')
    /\ phase' = "merged"
    /\ UNCHANGED history

DiscardEdit ==
    /\ phase = "editing" /\ history # <<>>
    /\ \E op \in Edits(Base, Incoming) :
          /\ Cancels(Last(history), op)
          /\ incoming' = op
    /\ phase' = "discarded"
    /\ UNCHANGED <<doc, history, landed>>

Next == LogEdit \/ MergeEdit \/ DiscardEdit

Spec == Init /\ [][Next]_vars

-----------------------------------------------------------------------------
(* The merge two authors mean: a character is kept unless one of them      *)
(* deleted it, and inserted text stands between the characters it was put  *)
(* between, the logged edit's before the incoming edit's at one position.  *)

Removed(op) == IF op.kind = "delete" THEN ToSet(op.text) ELSE {}
Inserted(op) == IF op.kind = "insert" THEN ToSet(op.text) ELSE {}

Kept(op1, op2) ==
    (ToSet(Base) \ (Removed(op1) \cup Removed(op2))) \cup Inserted(op1) \cup Inserted(op2)

\* How many characters of the base text a character stands behind.
Gap(op1, op2, char) ==
    IF char[1] = 0 THEN char[2] ELSE IF char[1] = Incoming THEN op2.pos ELSE op1.pos

Precedes(op1, op2, a, b) ==
    \/ Gap(op1, op2, a) < Gap(op1, op2, b)
    \/ /\ Gap(op1, op2, a) = Gap(op1, op2, b)
       /\ a[1] < b[1] \/ (a[1] = b[1] /\ a[2] < b[2])

\* At most one text is, as Precedes is a strict order (MeantIsOneText).
IsMeant(op1, op2, text) ==
    /\ ToSet(text) = Kept(op1, op2)
    /\ \A i, j \in DOMAIN text : i < j => Precedes(op1, op2, text[i], text[j])

\* Neither deletes what the other deletes, and the incoming deletion does
\* not reach across the place of the logged insertion.
Disjoint(op1, op2) ==
    /\ Removed(op1) \cap Removed(op2) = {}
    /\ ~(/\ op1.kind = "insert" /\ op2.kind = "delete"
         /\ op2.pos < op1.pos /\ op1.pos < op2.pos + Len(op2.text))

(* Two concurrent edits that do not touch the same characters are merged   *)
(* to exactly the text both authors meant (the four transform_* methods    *)
(* and apply_operation together).                                          *)
DisjointEditsMerge ==
    phase = "merged" /\ Len(history) = 1 /\ Disjoint(history[1], incoming)
        => IsMeant(history[1], incoming, doc)

(* An edit that the server drops because the same position was deleted     *)
(* before (OperationDiscarded) had nothing left to delete when the logged  *)
(* deletion was at least as long.                                          *)
DiscardedWasDone ==
    phase = "discarded" /\ Len(history) = 1
      /\ Len(history[1].text) >= Len(incoming.text)
        => IsMeant(history[1], incoming, doc)

(* websocket.py: "transform operations since base_seq".  A one-character   *)
(* deletion that meets logged insertions alone cannot overlap any of them, *)
(* and removes the character its author chose.                             *)
DeletesWhatWasMeant ==
    (/\ phase = "merged"
     /\ \A i \in DOMAIN history : history[i].kind = "insert"
     /\ incoming.kind = "delete" /\ Len(incoming.text) = 1)
        => incoming.text[1] \notin ToSet(doc)

=============================================================================
