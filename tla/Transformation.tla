--------------------------- MODULE Transformation ---------------------------
(***************************************************************************)
(* The operational transformation of app/api/services/transformation.py    *)
(* as operators: how an edit is applied to a document and where an edit    *)
(* lands once an edit that was logged before it is taken into account.     *)
(*                                                                         *)
(* A document is a sequence of characters.  An edit carries the text it    *)
(* inserts or, for a deletion, the text it removes, of which the code uses *)
(* only the length.  Positions are Python indexes: any integer.            *)
(***************************************************************************)
EXTENDS Integers, Sequences

CONSTANT Char       \* the characters a document is made of

Document  == Seq(Char)
Kind      == {"insert", "delete"}
Operation == [kind : Kind, pos : Int, text : Seq(Char)]

-----------------------------------------------------------------------------
(* Python slices: a negative index counts from the end, and an index       *)
(* outside the list is moved to its nearest end.                           *)
Clamp(i, n) ==
    IF i >= 0 THEN IF i <= n THEN i ELSE n
              ELSE IF n + i >= 0 THEN n + i ELSE 0

Before(doc, i) == SubSeq(doc, 1, Clamp(i, Len(doc)))             \* doc[:i]
From(doc, i)   == SubSeq(doc, Clamp(i, Len(doc)) + 1, Len(doc))  \* doc[i:]

ApplyOperation(doc, op) ==
    IF op.kind = "insert"
    THEN Before(doc, op.pos) \o op.text \o From(doc, op.pos)
    ELSE Before(doc, op.pos) \o From(doc, op.pos + Len(op.text))

-----------------------------------------------------------------------------
(* op1 is the logged edit, op2 the incoming one, as in the code.           *)

\* Mutant: the incoming insertion goes first at the position both chose.
InsertionBeforeInsertion(op1, op2) ==
    IF op2.pos <= op1.pos THEN op2.pos ELSE op2.pos + Len(op1.text)

InsertionAgainstInsertion(op1, op2) ==
    IF op2.pos < op1.pos THEN op2.pos ELSE op2.pos + Len(op1.text)

\* The same formula: the deletion is treated as a single point.
InsertionAgainstDeletion(op1, op2) ==
    IF op2.pos < op1.pos THEN op2.pos ELSE op2.pos + Len(op1.text)

DeletionAgainstInsertion(op1, op2) ==
    IF op1.pos >= op2.pos THEN op2.pos
    ELSE IF op2.pos >= op1.pos + Len(op1.text) THEN op2.pos - Len(op1.text)
    ELSE op1.pos

\* Never asked for deletions at one position: see Cancels.
DeletionAgainstDeletion(op1, op2) ==
    IF op1.pos > op2.pos THEN op2.pos ELSE op2.pos - Len(op1.text)

\* Mutant: any two deletions cancel.
CancelsAnywhere(op1, op2) == op1.kind = "delete" /\ op2.kind = "delete"

\* The pair for which the code returns None in place of a position.
Cancels(op1, op2) ==
    op1.kind = "delete" /\ op2.kind = "delete" /\ op1.pos = op2.pos

TransformedPos(op1, op2) ==
    CASE op1.kind = "insert" /\ op2.kind = "insert" -> InsertionAgainstInsertion(op1, op2)
      [] op1.kind = "insert" /\ op2.kind = "delete" -> InsertionAgainstDeletion(op1, op2)
      [] op1.kind = "delete" /\ op2.kind = "insert" -> DeletionAgainstInsertion(op1, op2)
      [] op1.kind = "delete" /\ op2.kind = "delete" -> DeletionAgainstDeletion(op1, op2)

(* The loop of process_operation_event transforms the incoming edit        *)
(* against every edit logged since its base, but each round starts from    *)
(* the same op2 and overwrites temp_pos: what comes out is the edit        *)
(* transformed against the last of them alone.                             *)
Rebase(last, op) == [op EXCEPT !.pos = TransformedPos(last, op)]

=============================================================================
