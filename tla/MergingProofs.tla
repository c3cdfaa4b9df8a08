---------------------------- MODULE MergingProofs ----------------------------
(***************************************************************************)
(* Theorems about Merging.tla for texts and edits of any length.           *)
(***************************************************************************)
EXTENDS Merging, SequenceTheorems, WellFoundedInduction, TLAPS

Character == Nat \X Nat

-----------------------------------------------------------------------------
(* What apply_operation does with an edit inside the text.                 *)

LEMMA SplitInside ==
    ASSUME NEW text \in Seq(Character), NEW p \in 0..Len(text)
    PROVE  /\ Before(text, p) \in Seq(Character)
           /\ Len(Before(text, p)) = p
           /\ \A k \in 1..p : Before(text, p)[k] = text[k]
           /\ From(text, p) \in Seq(Character)
           /\ Len(From(text, p)) = Len(text) - p
           /\ \A k \in 1..Len(text) - p : From(text, p)[k] = text[p + k]
<1>1. Len(text) \in Nat /\ \A k \in 1..Len(text) : text[k] \in Character
  BY LenProperties, ElementOfSeq
<1>2. Clamp(p, Len(text)) = p
  BY <1>1 DEF Clamp
<1>3. /\ SubSeq(text, 1, p) \in Seq(Character) /\ Len(SubSeq(text, 1, p)) = p
      /\ \A k \in 1..p : SubSeq(text, 1, p)[k] = text[k]
  BY <1>1, SubSeqProperties
<1>4. /\ SubSeq(text, p + 1, Len(text)) \in Seq(Character)
      /\ Len(SubSeq(text, p + 1, Len(text))) = Len(text) - p
      /\ \A k \in 1..Len(text) - p : SubSeq(text, p + 1, Len(text))[k] = text[p + k]
  BY <1>1, SubSeqProperties
<1> QED
  BY <1>2, <1>3, <1>4 DEF Before, From

LEMMA InsertInside ==
    ASSUME NEW text \in Seq(Character), NEW op,
           op.kind = "insert", op.pos \in 0..Len(text), op.text \in Seq(Character)
    PROVE  /\ ApplyOperation(text, op) \in Seq(Character)
           /\ Len(ApplyOperation(text, op)) = Len(text) + Len(op.text)
           /\ \A k \in 1..Len(text) + Len(op.text) :
                 ApplyOperation(text, op)[k] =
                    IF k <= op.pos THEN text[k]
                    ELSE IF k <= op.pos + Len(op.text) THEN op.text[k - op.pos]
                    ELSE text[k - Len(op.text)]
<1> DEFINE p == op.pos
           n == Len(op.text)
           front == Before(text, p)
           back == From(text, p)
           half == front \o op.text
           all == half \o back
<1>1. /\ Len(text) \in Nat /\ n \in Nat /\ p \in Nat /\ p <= Len(text)
      /\ n = Len(op.text)
  BY LenProperties
<1>2. /\ front \in Seq(Character) /\ Len(front) = p
      /\ \A k \in 1..p : front[k] = text[k]
      /\ back \in Seq(Character) /\ Len(back) = Len(text) - p
      /\ \A k \in 1..Len(text) - p : back[k] = text[p + k]
  BY SplitInside
<1>3. ApplyOperation(text, op) = all
  BY DEF ApplyOperation
<1> HIDE DEF front, back, p, n
<1>4. /\ half \in Seq(Character)
      /\ Len(half) = p + n
      /\ \A k \in 1..p + n : half[k] = IF k <= p THEN front[k] ELSE op.text[k - p]
  <2>1. /\ half \in Seq(Character)
        /\ Len(half) = Len(front) + Len(op.text)
        /\ \A k \in 1..Len(front) + Len(op.text) :
              half[k] = IF k <= Len(front) THEN front[k] ELSE op.text[k - Len(front)]
    <3>1. front \in Seq(Character)
      BY <1>2
    <3> QED
      BY ONLY <3>1, op.text \in Seq(Character), ConcatProperties, ZenonT(40) DEF half
  <2> QED
    BY <1>1, <1>2, <2>1
<1> HIDE DEF half
<1>5. /\ all \in Seq(Character)
      /\ Len(all) = Len(text) + n
      /\ \A k \in 1..Len(text) + n :
            all[k] = IF k <= p + n THEN half[k] ELSE back[k - (p + n)]
  <2>1. /\ all \in Seq(Character)
        /\ Len(all) = Len(half) + Len(back)
        /\ \A k \in 1..Len(half) + Len(back) :
              all[k] = IF k <= Len(half) THEN half[k] ELSE back[k - Len(half)]
    <3>1. half \in Seq(Character) /\ back \in Seq(Character)
      BY <1>2, <1>4
    <3> HIDE DEF half
    <3> QED
      BY ONLY <3>1, ConcatProperties, Zenon DEF all
  <2>2. Len(half) = p + n /\ Len(half) + Len(back) = Len(text) + n
    BY <1>1, <1>2, <1>4
  <2> QED
    BY <2>1, <2>2
<1> HIDE DEF all
<1>6. ASSUME NEW k \in 1..Len(text) + n
      PROVE  all[k] = IF k <= p THEN text[k]
                      ELSE IF k <= p + n THEN op.text[k - p] ELSE text[k - n]
  <2>1. CASE k <= p
    <3>1. k \in 1..p /\ k \in 1..p + n /\ k <= p + n
      BY <1>1, <2>1
    <3>2. all[k] = half[k] /\ half[k] = front[k] /\ front[k] = text[k]
      BY <1>2, <1>4, <1>5, <2>1, <3>1
    <3> QED
      BY <2>1, <3>2
  <2>2. CASE p < k /\ k <= p + n
    <3>1. k \in 1..p + n /\ ~(k <= p) /\ k <= p + n
      BY <1>1, <2>2
    <3>2. all[k] = half[k] /\ half[k] = op.text[k - p]
      BY <1>4, <1>5, <3>1
    <3> QED
      BY <3>1, <3>2
  <2>3. CASE p + n < k
    <3>1. k - (p + n) \in 1..Len(text) - p /\ p + (k - (p + n)) = k - n
      BY <1>1, <2>3
    <3>2. all[k] = back[k - (p + n)]
      <4>1. ~(k <= p + n)
        BY <1>1, <2>3
      <4> QED
        BY <1>5, <4>1
    <3>3. back[k - (p + n)] = text[k - n]
      BY <1>2, <3>1
    <3> QED
      BY <1>1, <2>3, <3>2, <3>3
  <2> QED
    BY <1>1, <2>1, <2>2, <2>3
<1> QED
  BY <1>3, <1>5, <1>6 DEF p, n

LEMMA DeleteInside ==
    ASSUME NEW text \in Seq(Character), NEW op,
           op.kind = "delete", op.pos \in Nat, op.text \in Seq(Character),
           op.pos + Len(op.text) <= Len(text)
    PROVE  /\ ApplyOperation(text, op) \in Seq(Character)
           /\ Len(ApplyOperation(text, op)) = Len(text) - Len(op.text)
           /\ \A k \in 1..Len(text) - Len(op.text) :
                 ApplyOperation(text, op)[k] =
                    IF k <= op.pos THEN text[k] ELSE text[k + Len(op.text)]
<1> DEFINE p == op.pos
           n == Len(op.text)
           front == Before(text, p)
           back == From(text, p + n)
           all == front \o back
<1>1. Len(text) \in Nat /\ n \in Nat /\ p \in Nat /\ p + n <= Len(text)
  BY LenProperties
<1>2. ApplyOperation(text, op) = all
  BY DEF ApplyOperation
<1> HIDE DEF p, n
<1>3. p \in 0..Len(text) /\ p + n \in 0..Len(text)
  BY <1>1
<1>4. /\ front \in Seq(Character) /\ Len(front) = p
      /\ \A k \in 1..p : front[k] = text[k]
  BY <1>3, SplitInside
<1>5. /\ back \in Seq(Character) /\ Len(back) = Len(text) - (p + n)
      /\ \A k \in 1..Len(text) - (p + n) : back[k] = text[(p + n) + k]
  BY <1>3, SplitInside
<1> HIDE DEF front, back
<1>6. /\ all \in Seq(Character)
      /\ Len(all) = Len(text) - n
      /\ \A k \in 1..Len(text) - n : all[k] = IF k <= p THEN front[k] ELSE back[k - p]
  <2>1. /\ all \in Seq(Character)
        /\ Len(all) = Len(front) + Len(back)
        /\ \A k \in 1..Len(front) + Len(back) :
              all[k] = IF k <= Len(front) THEN front[k] ELSE back[k - Len(front)]
    <3>1. front \in Seq(Character) /\ back \in Seq(Character)
      BY <1>4, <1>5
    <3> QED
      BY ONLY <3>1, ConcatProperties, Zenon DEF all
  <2>2. Len(front) = p /\ Len(front) + Len(back) = Len(text) - n
    BY <1>1, <1>4, <1>5
  <2> QED
    BY <2>1, <2>2
<1> HIDE DEF all
<1>7. ASSUME NEW k \in 1..Len(text) - n
      PROVE  all[k] = IF k <= p THEN text[k] ELSE text[k + n]
  <2>1. CASE k <= p
    BY <1>1, <1>4, <1>6, <2>1
  <2>2. CASE p < k
    <3>1. k - p \in 1..Len(text) - (p + n) /\ (p + n) + (k - p) = k + n
      BY <1>1, <2>2
    <3>2. all[k] = back[k - p]
      BY <1>1, <1>6, <2>2
    <3>3. back[k - p] = text[k + n]
      BY <1>5, <3>1
    <3> QED
      BY <1>1, <2>2, <3>2, <3>3
  <2> QED
    BY <1>1, <2>1, <2>2
<1> QED
  BY <1>2, <1>6, <1>7 DEF p, n

\* How many characters an edit inserts, and how many it deletes.
New(op) == IF op.kind = "insert" THEN Len(op.text) ELSE 0
Cut(op) == IF op.kind = "delete" THEN Len(op.text) ELSE 0

LEMMA EditInside ==
    ASSUME NEW text \in Seq(Character), NEW op, op.kind \in {"insert", "delete"},
           op.pos \in Nat, op.text \in Seq(Character), op.pos + Cut(op) <= Len(text)
    PROVE  /\ ApplyOperation(text, op) \in Seq(Character)
           /\ Len(ApplyOperation(text, op)) = Len(text) - Cut(op) + New(op)
           /\ \A k \in 1..Len(text) - Cut(op) + New(op) :
                 ApplyOperation(text, op)[k] =
                    IF k <= op.pos THEN text[k]
                    ELSE IF k <= op.pos + New(op) THEN op.text[k - op.pos]
                    ELSE text[k - New(op) + Cut(op)]
<1>1. Len(text) \in Nat /\ Len(op.text) \in Nat
  BY LenProperties
<1>2. CASE op.kind = "insert"
  <2>1. op.pos \in 0..Len(text) /\ Cut(op) = 0 /\ New(op) = Len(op.text)
    BY <1>1, <1>2 DEF Cut, New
  <2>2. /\ ApplyOperation(text, op) \in Seq(Character)
        /\ Len(ApplyOperation(text, op)) = Len(text) + Len(op.text)
        /\ \A k \in 1..Len(text) + Len(op.text) :
              ApplyOperation(text, op)[k] =
                 IF k <= op.pos THEN text[k]
                 ELSE IF k <= op.pos + Len(op.text) THEN op.text[k - op.pos]
                 ELSE text[k - Len(op.text)]
    BY <1>2, <2>1, InsertInside, ZenonT(30)
  <2> QED
    BY <1>1, <2>1, <2>2
<1>3. CASE op.kind = "delete"
  <2>1. op.pos + Len(op.text) <= Len(text) /\ Cut(op) = Len(op.text) /\ New(op) = 0
    BY <1>1, <1>3 DEF Cut, New
  <2>2. /\ ApplyOperation(text, op) \in Seq(Character)
        /\ Len(ApplyOperation(text, op)) = Len(text) - Len(op.text)
        /\ \A k \in 1..Len(text) - Len(op.text) :
              ApplyOperation(text, op)[k] =
                 IF k <= op.pos THEN text[k] ELSE text[k + Len(op.text)]
    BY <1>3, <2>1, DeleteInside, ZenonT(30)
  <2> QED
    BY <1>1, <2>1, <2>2
<1> QED
  BY <1>2, <1>3

-----------------------------------------------------------------------------
(* The edits an author makes to the base text.                             *)

Insertion(op, author) ==
    /\ op.kind = "insert" /\ op.pos \in 0..BaseLength
    /\ op.text \in Seq(Character) /\ Len(op.text) \in Nat \ {0}
    /\ \A k \in 1..Len(op.text) : op.text[k] = <<author, k>>

Deletion(op) ==
    /\ op.kind = "delete" /\ op.pos \in Nat
    /\ op.text \in Seq(Character) /\ Len(op.text) \in Nat \ {0}
    /\ op.pos + Len(op.text) <= BaseLength
    /\ \A k \in 1..Len(op.text) : op.text[k] = <<0, op.pos + k>>

LEMMA TextType ==
    ASSUME NEW author \in Nat, NEW n \in Nat
    PROVE  /\ Text(author, n) \in Seq(Character)
           /\ Len(Text(author, n)) = n
           /\ \A k \in 1..n : Text(author, n)[k] = <<author, k>>
<1>1. \A k \in 1..n : <<author, k>> \in Character
  BY DEF Character
<1>2. Text(author, n) \in [1..n -> Character]
  BY <1>1 DEF Text
<1> QED
  BY <1>2, SeqDef, LenProperties DEF Text

LEMMA BaseType ==
    /\ Base \in Seq(Character) /\ Len(Base) = BaseLength
    /\ \A k \in 1..BaseLength : Base[k] = <<0, k>>
BY TextType, MergingAssumption DEF Base

LEMMA EditsOfBase ==
    ASSUME NEW author \in Nat, NEW op \in Edits(Base, author)
    PROVE  Insertion(op, author) \/ Deletion(op)
<1>1. CASE op \in Insertions(Base, author)
  <2>1. PICK n \in 1..MaxText : op.text = Text(author, n)
    BY <1>1 DEF Insertions
  <2>2. n \in Nat \ {0}
    BY <2>1, MergingAssumption
  <2>3. op.kind = "insert" /\ op.pos \in 0..BaseLength
    BY <1>1, BaseType DEF Insertions
  <2>4. /\ Text(author, n) \in Seq(Character) /\ Len(Text(author, n)) = n
        /\ \A k \in 1..n : Text(author, n)[k] = <<author, k>>
    BY <2>2, TextType
  <2> QED
    BY <2>1, <2>2, <2>3, <2>4 DEF Insertion
<1>2. CASE op \in Deletions(Base)
  <2>1. PICK p \in 0..Len(Base), n \in 1..MaxText :
           /\ p + n <= Len(Base)
           /\ op = [kind |-> "delete", pos |-> p, text |-> SubSeq(Base, p + 1, p + n)]
    BY <1>2 DEF Deletions
  <2>2. p \in Nat /\ n \in Nat \ {0} /\ BaseLength \in Nat /\ p + n <= BaseLength
    BY <2>1, BaseType, MergingAssumption
  <2>3. \A k \in p + 1 .. p + n : Base[k] \in Character
    BY <2>2, BaseType, ElementOfSeq
  <2>4. /\ SubSeq(Base, p + 1, p + n) \in Seq(Character)
        /\ Len(SubSeq(Base, p + 1, p + n)) = n
        /\ \A k \in 1..n : SubSeq(Base, p + 1, p + n)[k] = Base[p + k]
    <3> DEFINE from == p + 1
               to == p + n
    <3>1. from \in Int /\ to \in Int /\ \A k \in from..to : Base[k] \in Character
      BY <2>2, <2>3
    <3>2. from <= to /\ to - from + 1 = n /\ \A k \in 1..n : from + k - 1 = p + k
      BY <2>2
    <3> HIDE DEF from, to
    <3>3. /\ SubSeq(Base, from, to) \in Seq(Character)
          /\ Len(SubSeq(Base, from, to)) = IF from <= to THEN to - from + 1 ELSE 0
          /\ \A k \in 1..to - from + 1 : SubSeq(Base, from, to)[k] = Base[from + k - 1]
      BY ONLY <3>1, SubSeqProperties, SMTT(40)
    <3>4. /\ SubSeq(Base, from, to) \in Seq(Character)
          /\ Len(SubSeq(Base, from, to)) = n
          /\ \A k \in 1..n : SubSeq(Base, from, to)[k] = Base[p + k]
      BY <3>2, <3>3
    <3> QED
      BY <3>4 DEF from, to
  <2>5. \A k \in 1..n : Base[p + k] = <<0, p + k>>
    BY <2>2, BaseType
  <2> QED
    BY <2>1, <2>2, <2>4, <2>5 DEF Deletion
<1> QED
  BY <1>1, <1>2 DEF Edits

\* A character of the base text that an edit deletes.
Gone(op, i) == op.kind = "delete" /\ op.pos < i /\ i <= op.pos + Len(op.text)

LEMMA EditHas ==
    ASSUME NEW op, NEW author, Insertion(op, author) \/ Deletion(op)
    PROVE  /\ \A i \in 1..BaseLength : <<0, i>> \in Removed(op) <=> Gone(op, i)
           /\ Inserted(op) = {<<author, k>> : k \in 1..New(op)}
<1>0. \A text \in Seq(Character) : ToSet(text) = {text[k] : k \in 1..Len(text)}
  BY LenProperties DEF ToSet
<1>1. CASE Insertion(op, author)
  BY <1>0, <1>1 DEF Insertion, Removed, Inserted, Gone, New
<1>2. CASE Deletion(op)
  <2>1. ToSet(op.text) = {<<0, op.pos + k>> : k \in 1..Len(op.text)}
    <3>1. /\ op.text \in Seq(Character)
          /\ \A k \in 1..Len(op.text) : op.text[k] = <<0, op.pos + k>>
      BY <1>2 DEF Deletion
    <3>2. ToSet(op.text) = {op.text[k] : k \in 1..Len(op.text)}
      BY <1>0, <3>1
    <3> QED
      BY <3>1, <3>2
  <2>2. ASSUME NEW i \in 1..BaseLength
        PROVE  <<0, i>> \in ToSet(op.text) <=> Gone(op, i)
    <3>1. ASSUME Gone(op, i) PROVE <<0, i>> \in ToSet(op.text)
      <4>1. i - op.pos \in 1..Len(op.text) /\ op.pos + (i - op.pos) = i
        BY <1>2, <3>1 DEF Gone, Deletion
      <4> QED
        BY <2>1, <4>1
    <3>2. ASSUME <<0, i>> \in ToSet(op.text) PROVE Gone(op, i)
      <4>1. PICK k \in 1..Len(op.text) : <<0, i>> = <<0, op.pos + k>>
        BY <2>1, <3>2
      <4> QED
        BY <1>2, <4>1 DEF Gone, Deletion
    <3> QED
      BY <3>1, <3>2
  <2>3. op.kind = "delete"
    BY <1>2 DEF Deletion
  <2> QED
    BY <2>2, <2>3 DEF Removed, Inserted, New
<1> QED
  BY <1>1, <1>2

LEMMA KeptIs ==
    ASSUME NEW op1, Insertion(op1, 1) \/ Deletion(op1),
           NEW op2, Insertion(op2, Incoming) \/ Deletion(op2),
           NEW char
    PROVE  char \in Kept(op1, op2) <=>
              \/ \E i \in 1..BaseLength :
                    char = <<0, i>> /\ ~Gone(op1, i) /\ ~Gone(op2, i)
              \/ \E k \in 1..New(op1) : char = <<1, k>>
              \/ \E k \in 1..New(op2) : char = <<Incoming, k>>
<1>1. \A text \in Seq(Character) : ToSet(text) = {text[k] : k \in 1..Len(text)}
  BY LenProperties DEF ToSet
<1>2. ToSet(Base) = {<<0, i>> : i \in 1..BaseLength}
  BY <1>1, BaseType
<1>3. ASSUME NEW op, NEW author, Insertion(op, author) \/ Deletion(op)
      PROVE  /\ \A i \in 1..BaseLength : <<0, i>> \in Removed(op) <=> Gone(op, i)
             /\ Inserted(op) = {<<author, k>> : k \in 1..New(op)}
  BY <1>3, EditHas
<1> QED
  BY <1>2, <1>3 DEF Kept

(* The k-th character of a text is number X[k] of author A[k] and was put  *)
(* behind G[k] characters of the base text: each is kept, each that is     *)
(* kept is there, and they stand in order.                                 *)
Reads(op1, op2, text, A, X, G) ==
    /\ \A k \in 1..Len(text) : text[k] = <<A[k], X[k]>>
    /\ \A k \in 1..Len(text) :
          \/ /\ A[k] = 0 /\ G[k] = X[k] /\ X[k] \in 1..BaseLength
             /\ ~Gone(op1, X[k]) /\ ~Gone(op2, X[k])
          \/ A[k] = 1 /\ G[k] = op1.pos /\ X[k] \in 1..New(op1)
          \/ A[k] = Incoming /\ G[k] = op2.pos /\ X[k] \in 1..New(op2)
    /\ \A i \in 1..BaseLength :
          ~Gone(op1, i) /\ ~Gone(op2, i)
             => \E k \in 1..Len(text) : A[k] = 0 /\ X[k] = i
    /\ \A i \in 1..New(op1) : \E k \in 1..Len(text) : A[k] = 1 /\ X[k] = i
    /\ \A i \in 1..New(op2) : \E k \in 1..Len(text) : A[k] = Incoming /\ X[k] = i
    /\ \A i, j \in 1..Len(text) : i < j =>
          \/ G[i] < G[j]
          \/ G[i] = G[j] /\ (A[i] < A[j] \/ (A[i] = A[j] /\ X[i] < X[j]))

(* A text that reads so is the one that was meant.                         *)
LEMMA MeantBy ==
    ASSUME NEW op1, Insertion(op1, 1) \/ Deletion(op1),
           NEW op2, Insertion(op2, Incoming) \/ Deletion(op2),
           Incoming > 1,
           NEW text \in Seq(Character), NEW A, NEW X, NEW G,
           Reads(op1, op2, text, A, X, G)
    PROVE  IsMeant(op1, op2, text)
<1> DEFINE n == Len(text)
<1>0. Incoming \in Nat
  BY MergingAssumption DEF Incoming
<1>1. DOMAIN text = 1..n /\ ToSet(text) = {text[k] : k \in 1..n}
  BY LenProperties DEF ToSet
<1>2. ASSUME NEW k \in 1..n PROVE text[k] \in Kept(op1, op2)
  <2>1. \/ \E i \in 1..BaseLength : text[k] = <<0, i>> /\ ~Gone(op1, i) /\ ~Gone(op2, i)
        \/ \E i \in 1..New(op1) : text[k] = <<1, i>>
        \/ \E i \in 1..New(op2) : text[k] = <<Incoming, i>>
    BY <1>2 DEF Reads
  <2> QED
    BY <2>1, KeptIs
<1>3. ASSUME NEW char \in Kept(op1, op2) PROVE \E k \in 1..n : text[k] = char
  <2>1. \/ \E i \in 1..BaseLength : char = <<0, i>> /\ ~Gone(op1, i) /\ ~Gone(op2, i)
        \/ \E k \in 1..New(op1) : char = <<1, k>>
        \/ \E k \in 1..New(op2) : char = <<Incoming, k>>
    BY <1>3, KeptIs
  <2>2. CASE \E i \in 1..BaseLength : char = <<0, i>> /\ ~Gone(op1, i) /\ ~Gone(op2, i)
    <3>1. PICK i \in 1..BaseLength : char = <<0, i>> /\ ~Gone(op1, i) /\ ~Gone(op2, i)
      BY <2>2
    <3>2. PICK k \in 1..n : A[k] = 0 /\ X[k] = i
      BY <3>1 DEF Reads
    <3> QED
      BY <3>1, <3>2 DEF Reads
  <2>3. CASE \E i \in 1..New(op1) : char = <<1, i>>
    <3>1. PICK i \in 1..New(op1) : char = <<1, i>>
      BY <2>3
    <3>2. PICK k \in 1..n : A[k] = 1 /\ X[k] = i
      BY <3>1 DEF Reads
    <3> QED
      BY <3>1, <3>2 DEF Reads
  <2>4. CASE \E i \in 1..New(op2) : char = <<Incoming, i>>
    <3>1. PICK i \in 1..New(op2) : char = <<Incoming, i>>
      BY <2>4
    <3>2. PICK k \in 1..n : A[k] = Incoming /\ X[k] = i
      BY <3>1 DEF Reads
    <3> QED
      BY <3>1, <3>2 DEF Reads
  <2> QED
    BY <2>1, <2>2, <2>3, <2>4
<1>4. ToSet(text) = Kept(op1, op2)
  BY <1>1, <1>2, <1>3
<1>5. ASSUME NEW k \in 1..n
      PROVE  /\ text[k][1] = A[k] /\ text[k][2] = X[k]
             /\ Gap(op1, op2, text[k]) = G[k]
  BY <1>0 DEF Gap, Reads
<1>6. ASSUME NEW i \in 1..n, NEW j \in 1..n, i < j
      PROVE  Precedes(op1, op2, text[i], text[j])
  BY <1>5, <1>6 DEF Precedes, Reads
<1> QED
  BY <1>1, <1>4, <1>6 DEF IsMeant

-----------------------------------------------------------------------------
(* Two edits leave a text in five pieces: kept text up to the place of the *)
(* first, what the first inserts, kept text up to b, what the second       *)
(* inserts, and the rest of the text.  First and second are in the order   *)
(* of their places, and u1 and u2 are their authors.                       *)
InPieces(text, first, u1, second, u2, b) ==
    LET a  == first.pos
        e1 == b - Cut(first) + New(first)       \* the length up to b
    IN  /\ a + Cut(first) <= b /\ b + Cut(second) <= BaseLength
        /\ \/ b = second.pos
           \/ a <= second.pos /\ second.pos <= b /\ a + Cut(first) = b /\ Cut(second) = 0
        /\ New(first) = 0 \/ New(second) = 0 \/ a < second.pos \/ u1 < u2
        /\ text \in Seq(Character)
        /\ Len(text) = BaseLength - Cut(first) - Cut(second) + New(first) + New(second)
        /\ \A k \in 1..Len(text) :
              text[k] = IF k <= a THEN <<0, k>>
                        ELSE IF k <= a + New(first) THEN <<u1, k - a>>
                        ELSE IF k <= e1 THEN <<0, k - New(first) + Cut(first)>>
                        ELSE IF k <= e1 + New(second) THEN <<u2, k - e1>>
                        ELSE <<0, k - New(first) - New(second) + Cut(first) + Cut(second)>>

LEMMA PiecesAreMeant ==
    ASSUME NEW op1, Insertion(op1, 1) \/ Deletion(op1),
           NEW op2, Insertion(op2, Incoming) \/ Deletion(op2),
           Incoming > 1,
           NEW text, NEW first, NEW u1, NEW second, NEW u2, NEW b \in Nat,
           \/ first = op1 /\ u1 = 1 /\ second = op2 /\ u2 = Incoming
           \/ first = op2 /\ u1 = Incoming /\ second = op1 /\ u2 = 1,
           InPieces(text, first, u1, second, u2, b)
    PROVE  IsMeant(op1, op2, text)
<1> DEFINE a == first.pos
           d1 == Cut(first)
           m1 == New(first)
           g == second.pos
           d2 == Cut(second)
           m2 == New(second)
           n == Len(text)
           N == BaseLength
           A == [k \in 1..n |-> IF k <= a THEN 0 ELSE IF k <= a + m1 THEN u1
                                ELSE IF k <= b - d1 + m1 THEN 0
                                ELSE IF k <= b - d1 + m1 + m2 THEN u2 ELSE 0]
           X == [k \in 1..n |-> IF k <= a THEN k ELSE IF k <= a + m1 THEN k - a
                                ELSE IF k <= b - d1 + m1 THEN k - m1 + d1
                                ELSE IF k <= b - d1 + m1 + m2 THEN k - (b - d1 + m1)
                                ELSE k - m1 - m2 + d1 + d2]
           G == [k \in 1..n |-> IF k <= a THEN k ELSE IF k <= a + m1 THEN a
                                ELSE IF k <= b - d1 + m1 THEN k - m1 + d1
                                ELSE IF k <= b - d1 + m1 + m2 THEN g
                                ELSE k - m1 - m2 + d1 + d2]
<1>1. /\ N \in Nat /\ u1 \in Nat \ {0} /\ u2 \in Nat \ {0}
      /\ a \in Nat /\ d1 \in Nat /\ m1 \in Nat /\ g \in Nat /\ d2 \in Nat /\ m2 \in Nat
      /\ d1 = 0 \/ m1 = 0
  BY MergingAssumption DEF Incoming, Insertion, Deletion, New, Cut
<1>2. ASSUME NEW op, Insertion(op, 1) \/ Insertion(op, Incoming) \/ Deletion(op),
             NEW i \in 1..BaseLength
      PROVE  Gone(op, i) <=> op.pos < i /\ i <= op.pos + Cut(op)
  BY <1>2 DEF Gone, Cut, Insertion, Deletion
<1>3. /\ a + d1 <= b /\ b + d2 <= N
      /\ b = g \/ (a <= g /\ g <= b /\ a + d1 = b /\ d2 = 0)
      /\ m1 = 0 \/ m2 = 0 \/ a < g \/ u1 < u2
      /\ n = N - d1 - d2 + m1 + m2 /\ n \in Nat
  BY LenProperties DEF InPieces
<1>0. /\ text \in Seq(Character) /\ Len(text) = n
      /\ \A k \in 1..n : text[k] = <<A[k], X[k]>>
  BY DEF InPieces
<1>4. /\ \A k \in 1..n :
            A[k] = IF k <= a THEN 0 ELSE IF k <= a + m1 THEN u1
                   ELSE IF k <= b - d1 + m1 THEN 0
                   ELSE IF k <= b - d1 + m1 + m2 THEN u2 ELSE 0
      /\ \A k \in 1..n :
            X[k] = IF k <= a THEN k ELSE IF k <= a + m1 THEN k - a
                   ELSE IF k <= b - d1 + m1 THEN k - m1 + d1
                   ELSE IF k <= b - d1 + m1 + m2 THEN k - (b - d1 + m1)
                   ELSE k - m1 - m2 + d1 + d2
      /\ \A k \in 1..n :
            G[k] = IF k <= a THEN k ELSE IF k <= a + m1 THEN a
                   ELSE IF k <= b - d1 + m1 THEN k - m1 + d1
                   ELSE IF k <= b - d1 + m1 + m2 THEN g
                   ELSE k - m1 - m2 + d1 + d2
  BY Zenon
<1> HIDE DEF a, d1, m1, g, d2, m2, n, A, X, G
<1>5. ASSUME NEW k \in 1..n
      PROVE  \/ /\ A[k] = 0 /\ G[k] = X[k] /\ X[k] \in 1..N
                /\ ~(a < X[k] /\ X[k] <= a + d1) /\ ~(g < X[k] /\ X[k] <= g + d2)
             \/ A[k] = u1 /\ G[k] = a /\ X[k] \in 1..m1
             \/ A[k] = u2 /\ G[k] = g /\ X[k] \in 1..m2
  BY <1>1, <1>3, <1>4
<1>6. ASSUME NEW i \in 1..N, ~(a < i /\ i <= a + d1), ~(g < i /\ i <= g + d2)
      PROVE  \E k \in 1..n : A[k] = 0 /\ X[k] = i
  <2>1. i <= a \/ (a + d1 < i /\ i <= b) \/ b + d2 < i
    BY <1>1, <1>3, <1>4, <1>6
  <2>2. CASE i <= a
    <3>1. i \in 1..n
      BY <1>1, <1>3, <1>4, <2>2
    <3>2. A[i] = 0 /\ X[i] = i
      BY <1>1, <1>3, <1>4, <2>2, <3>1
    <3> QED
      BY <3>1, <3>2
  <2>3. CASE a + d1 < i /\ i <= b
    <3>1. i - d1 + m1 \in 1..n
      BY <1>1, <1>3, <1>4, <2>3
    <3>2. A[i - d1 + m1] = 0 /\ X[i - d1 + m1] = i
      BY <1>1, <1>3, <1>4, <2>3, <3>1
    <3> QED
      BY <3>1, <3>2
  <2>4. CASE b + d2 < i
    <3>1. i - d1 - d2 + m1 + m2 \in 1..n
      BY <1>1, <1>3, <1>4, <2>4
    <3>2. A[i - d1 - d2 + m1 + m2] = 0 /\ X[i - d1 - d2 + m1 + m2] = i
      BY <1>1, <1>3, <1>4, <2>4, <3>1
    <3> QED
      BY <3>1, <3>2
  <2> QED
    BY <2>1, <2>2, <2>3, <2>4
<1>7. ASSUME NEW i \in 1..m1
      PROVE  \E k \in 1..n : A[k] = u1 /\ X[k] = i
  <2>1. a + i \in 1..n
    BY <1>1, <1>3, <1>4
  <2>2. A[a + i] = u1 /\ X[a + i] = i
    BY <1>1, <1>3, <1>4, <2>1
  <2> QED
    BY <2>1, <2>2
<1>8. ASSUME NEW i \in 1..m2
      PROVE  \E k \in 1..n : A[k] = u2 /\ X[k] = i
  <2>1. b - d1 + m1 + i \in 1..n
    BY <1>1, <1>3, <1>4
  <2>2. A[b - d1 + m1 + i] = u2 /\ X[b - d1 + m1 + i] = i
    BY <1>1, <1>3, <1>4, <2>1
  <2> QED
    BY <2>1, <2>2
<1>9. ASSUME NEW i \in 1..n, NEW j \in 1..n, i < j
      PROVE  \/ G[i] < G[j]
             \/ G[i] = G[j] /\ (A[i] < A[j] \/ (A[i] = A[j] /\ X[i] < X[j]))
  BY <1>1, <1>3, <1>4, <1>9
<1>10. /\ \A k \in 1..n :
             \/ A[k] = 0 /\ G[k] = X[k] /\ X[k] \in 1..BaseLength
                /\ ~Gone(op1, X[k]) /\ ~Gone(op2, X[k])
             \/ A[k] = 1 /\ G[k] = op1.pos /\ X[k] \in 1..New(op1)
             \/ A[k] = Incoming /\ G[k] = op2.pos /\ X[k] \in 1..New(op2)
       /\ \A i \in 1..BaseLength :
             ~Gone(op1, i) /\ ~Gone(op2, i) => \E k \in 1..n : A[k] = 0 /\ X[k] = i
       /\ \A i \in 1..New(op1) : \E k \in 1..n : A[k] = 1 /\ X[k] = i
       /\ \A i \in 1..New(op2) : \E k \in 1..n : A[k] = Incoming /\ X[k] = i
  <2>1. CASE first = op1 /\ u1 = 1 /\ second = op2 /\ u2 = Incoming
    BY <1>2, <1>5, <1>6, <1>7, <1>8, <2>1 DEF a, d1, m1, g, d2, m2
  <2>2. CASE first = op2 /\ u1 = Incoming /\ second = op1 /\ u2 = 1
    BY <1>2, <1>5, <1>6, <1>7, <1>8, <2>2 DEF a, d1, m1, g, d2, m2
  <2> QED
    BY <2>1, <2>2
<1> QED
  <2>1. Reads(op1, op2, text, A, X, G)
    BY <1>0, <1>9, <1>10 DEF Reads
  <2> QED
    BY <1>0, <2>1, MeantBy

-----------------------------------------------------------------------------
(* The merge of two edits that are disjoint.                               *)

Merged(op1, op2) == ApplyOperation(ApplyOperation(Base, op1), Rebase(op1, op2))

(* Where the incoming edit goes: behind the logged edit, before it, or     *)
(* into the gap that a logged deletion left.                               *)
LEMMA Places ==
    ASSUME NEW op1, Insertion(op1, 1) \/ Deletion(op1),
           NEW op2, Insertion(op2, Incoming) \/ Deletion(op2),
           ~Cancels(op1, op2), Disjoint(op1, op2),
           NEW q, q = Rebase(op1, op2).pos
    PROVE  \/ op1.pos + Cut(op1) <= op2.pos /\ q = op2.pos - Cut(op1) + New(op1)
           \/ /\ op2.pos + Cut(op2) <= op1.pos /\ q = op2.pos
              /\ New(op1) = 0 \/ New(op2) = 0 \/ op2.pos < op1.pos
           \/ /\ op1.pos <= op2.pos /\ op2.pos <= op1.pos + Cut(op1) /\ q = op1.pos
              /\ Cut(op2) = 0 /\ New(op1) = 0
<1> DEFINE p1 == op1.pos
           n1 == Len(op1.text)
           p2 == op2.pos
           n2 == Len(op2.text)
<1>1. BaseLength \in Nat /\ p1 \in Nat /\ n1 \in Nat \ {0} /\ p2 \in Nat /\ n2 \in Nat \ {0}
  BY MergingAssumption DEF Insertion, Deletion
<1>2. q = TransformedPos(op1, op2)
  BY DEF Rebase, Insertion, Deletion
<1>3. CASE op1.kind = "insert" /\ op2.kind = "insert"
  BY <1>1, <1>2, <1>3 DEF TransformedPos, InsertionAgainstInsertion, Cut, New
<1>4. CASE op1.kind = "insert" /\ op2.kind = "delete"
  BY <1>1, <1>2, <1>4 DEF TransformedPos, InsertionAgainstDeletion, Cut, New, Disjoint
<1>5. CASE op1.kind = "delete" /\ op2.kind = "insert"
  BY <1>1, <1>2, <1>5 DEF TransformedPos, DeletionAgainstInsertion, Cut, New
<1>6. CASE op1.kind = "delete" /\ op2.kind = "delete"
  <2>1. p1 + n1 <= BaseLength /\ p2 + n2 <= BaseLength /\ p1 # p2
    BY <1>6 DEF Deletion, Insertion, Cancels
  <2>2. \A i \in 1..BaseLength : ~(Gone(op1, i) /\ Gone(op2, i))
    BY EditHas DEF Disjoint
  <2>3. p1 + n1 <= p2 \/ p2 + n2 <= p1
    <3>1. SUFFICES ASSUME p2 < p1 + n1, p1 < p2 + n2 PROVE FALSE
      BY <1>1
    <3>2. CASE p1 < p2
      <4>1. p2 + 1 \in 1..BaseLength
        BY <1>1, <2>1
      <4>2. Gone(op1, p2 + 1) /\ Gone(op2, p2 + 1)
        BY <1>1, <1>6, <3>1, <3>2 DEF Gone
      <4> QED
        BY <2>2, <4>1, <4>2
    <3>3. CASE p2 < p1
      <4>1. p1 + 1 \in 1..BaseLength
        BY <1>1, <2>1
      <4>2. Gone(op1, p1 + 1) /\ Gone(op2, p1 + 1)
        BY <1>1, <1>6, <3>1, <3>3 DEF Gone
      <4> QED
        BY <2>2, <4>1, <4>2
    <3> QED
      BY <1>1, <2>1, <3>2, <3>3
  <2> QED
    BY <1>1, <1>2, <1>6, <2>1, <2>3 DEF TransformedPos, DeletionAgainstDeletion, Cut, New
<1> QED
  BY <1>3, <1>4, <1>5, <1>6 DEF Insertion, Deletion

LEMMA MergedInPieces ==
    ASSUME NEW op1, Insertion(op1, 1) \/ Deletion(op1),
           NEW op2, Insertion(op2, Incoming) \/ Deletion(op2),
           Incoming > 1, ~Cancels(op1, op2), Disjoint(op1, op2)
    PROVE  \E b \in Nat :
              \/ InPieces(Merged(op1, op2), op1, 1, op2, Incoming, b)
              \/ InPieces(Merged(op1, op2), op2, Incoming, op1, 1, b)
<1> DEFINE op == Rebase(op1, op2)
           mid == ApplyOperation(Base, op1)
           text == Merged(op1, op2)
           N == BaseLength
           p1 == op1.pos
           c1 == Cut(op1)
           m1 == New(op1)
           p2 == op2.pos
           c2 == Cut(op2)
           m2 == New(op2)
           q == op.pos
<1>1. /\ N \in Nat /\ p1 \in Nat /\ c1 \in Nat /\ m1 \in Nat
      /\ p2 \in Nat /\ c2 \in Nat /\ m2 \in Nat
      /\ p1 + c1 <= N /\ p2 + c2 <= N
      /\ c1 = 0 \/ m1 = 0
      /\ c2 = 0 \/ m2 = 0
  BY MergingAssumption DEF Insertion, Deletion, Cut, New
<1>0. /\ op1.kind \in {"insert", "delete"} /\ op2.kind \in {"insert", "delete"}
      /\ op1.text \in Seq(Character) /\ op2.text \in Seq(Character)
      /\ \A k \in 1..m1 : op1.text[k] = <<1, k>>
      /\ \A k \in 1..m2 : op2.text[k] = <<Incoming, k>>
  BY MergingAssumption DEF Insertion, Deletion, Cut, New
<1>2. op.kind = op2.kind /\ op.text = op2.text /\ Cut(op) = c2 /\ New(op) = m2
  BY DEF Rebase, Cut, New, Insertion, Deletion
<1>3. \/ p1 + c1 <= p2 /\ q = p2 - c1 + m1
      \/ p2 + c2 <= p1 /\ q = p2 /\ (m1 = 0 \/ m2 = 0 \/ p2 < p1)
      \/ p1 <= p2 /\ p2 <= p1 + c1 /\ q = p1 /\ c2 = 0 /\ m1 = 0
  BY Places
<1>4. /\ mid \in Seq(Character) /\ Len(mid) = N - c1 + m1
      /\ \A k \in 1..N - c1 + m1 : mid[k] = IF k <= p1 THEN Base[k]
                                            ELSE IF k <= p1 + m1 THEN op1.text[k - p1]
                                            ELSE Base[k - m1 + c1]
  <2>1. Base \in Seq(Character) /\ p1 + c1 <= Len(Base) /\ Len(Base) = N
    BY <1>1, BaseType
  <2>2. /\ mid \in Seq(Character) /\ Len(mid) = Len(Base) - c1 + m1
        /\ \A k \in 1..Len(Base) - c1 + m1 :
              mid[k] = IF k <= p1 THEN Base[k]
                       ELSE IF k <= p1 + m1 THEN op1.text[k - p1] ELSE Base[k - m1 + c1]
    <3>1. op1.kind \in {"insert", "delete"} /\ op1.pos \in Nat /\ op1.text \in Seq(Character)
          /\ Base \in Seq(Character) /\ op1.pos + Cut(op1) <= Len(Base)
      BY <1>0, <1>1, <2>1
    <3> QED
      BY ONLY <3>1, EditInside, SMT
  <2> QED
    BY <2>1, <2>2
<1>5. q \in Nat /\ q + c2 <= N - c1 + m1
  <2> HIDE DEF op, mid, text, N, p1, c1, m1, p2, c2, m2, q
  <2> QED
    BY <1>1, <1>3
<1>6. /\ text \in Seq(Character) /\ Len(text) = N - c1 + m1 - c2 + m2
      /\ \A k \in 1..N - c1 + m1 - c2 + m2 : text[k] = IF k <= q THEN mid[k]
                                            ELSE IF k <= q + m2 THEN op2.text[k - q]
                                            ELSE mid[k - m2 + c2]
  <2>1. op.kind \in {"insert", "delete"} /\ q \in Nat /\ op.text \in Seq(Character)
        /\ q + Cut(op) <= Len(mid) /\ text = ApplyOperation(mid, op)
    BY <1>0, <1>1, <1>2, <1>4, <1>5 DEF Merged
  <2>2. /\ text \in Seq(Character) /\ Len(text) = Len(mid) - Cut(op) + New(op)
        /\ \A k \in 1..Len(mid) - Cut(op) + New(op) :
              text[k] = IF k <= q THEN mid[k]
                        ELSE IF k <= q + New(op) THEN op.text[k - q]
                        ELSE mid[k - New(op) + Cut(op)]
    <3>1. mid \in Seq(Character)
      BY <1>4
    <3> HIDE DEF mid, op
    <3> QED
      BY ONLY <2>1, <3>1, EditInside, SMT DEF q
  <2> HIDE DEF op, mid, text, N, p1, c1, m1, p2, c2, m2, q
  <2> QED
    BY <1>1, <1>2, <1>4, <2>2
<1> HIDE DEF op, mid, text, N, p1, c1, m1, p2, c2, m2, q
<1>7. ASSUME NEW k \in 1..N - c1 + m1
      PROVE  mid[k] = IF k <= p1 THEN <<0, k>>
                      ELSE IF k <= p1 + m1 THEN <<1, k - p1>> ELSE <<0, k - m1 + c1>>
  <2>1. \A i \in 1..N : Base[i] = <<0, i>>
    BY BaseType DEF N
  <2>2. CASE k <= p1
    BY <1>1, <1>4, <2>1, <2>2
  <2>3. CASE p1 < k /\ k <= p1 + m1
    <3>1. k - p1 \in 1..m1
      BY <1>1, <2>3
    <3>2. mid[k] = op1.text[k - p1]
      BY <1>1, <1>4, <2>3
    <3>3. op1.text[k - p1] = <<1, k - p1>>
      BY <1>0, <3>1
    <3> QED
      BY <1>1, <2>3, <3>2, <3>3
  <2>4. CASE p1 < k /\ p1 + m1 < k
    <3>1. k - m1 + c1 \in 1..N
      BY <1>1, <2>4
    <3>2. mid[k] = Base[k - m1 + c1]
      BY <1>1, <1>4, <2>4
    <3> QED
      BY <1>1, <2>1, <2>4, <3>1, <3>2
  <2> QED
    BY <1>1, <2>2, <2>3, <2>4
<1>8. ASSUME NEW k \in 1..N - c1 + m1 - c2 + m2
      PROVE  text[k] = IF k <= q THEN mid[k]
                       ELSE IF k <= q + m2 THEN <<Incoming, k - q>> ELSE mid[k - m2 + c2]
  <2>1. CASE q < k /\ k <= q + m2
    <3>1. k - q \in 1..m2
      BY <1>1, <1>5, <2>1
    <3>2. text[k] = op2.text[k - q]
      BY <1>1, <1>5, <1>6, <2>1
    <3> QED
      BY <1>0, <1>1, <1>5, <2>1, <3>1, <3>2
  <2>2. CASE ~(q < k /\ k <= q + m2)
    BY <1>1, <1>5, <1>6, <2>2
  <2> QED
    BY <2>1, <2>2
<1>9. CASE p1 + c1 <= p2 /\ q = p2 - c1 + m1
  <2>1. ASSUME NEW k \in 1..N - c1 + m1 - c2 + m2
        PROVE  text[k] = IF k <= p1 THEN <<0, k>>
                         ELSE IF k <= p1 + m1 THEN <<1, k - p1>>
                         ELSE IF k <= p2 - c1 + m1 THEN <<0, k - m1 + c1>>
                         ELSE IF k <= p2 - c1 + m1 + m2
                              THEN <<Incoming, k - (p2 - c1 + m1)>>
                         ELSE <<0, k - m1 - m2 + c1 + c2>>
    <3>1. CASE k <= q
      <4>1. k \in 1..N - c1 + m1
        BY <1>1, <1>5, <3>1
      <4>2. text[k] = mid[k]
        BY <1>8, <3>1
      <4> QED
        BY <1>1, <1>5, <1>7, <1>9, <3>1, <4>1, <4>2
    <3>2. CASE q < k /\ k <= q + m2
      BY <1>1, <1>5, <1>8, <1>9, <3>2
    <3>3. CASE q < k /\ q + m2 < k
      <4>1. k - m2 + c2 \in 1..N - c1 + m1
        BY <1>1, <1>5, <3>3
      <4>2. ~(k <= q) /\ ~(k <= q + m2)
        BY <1>1, <1>5, <3>3
      <4>3. text[k] = mid[k - m2 + c2]
        BY <1>8, <4>2
      <4> QED
        <5>1. ~(k - m2 + c2 <= p1) /\ ~(k - m2 + c2 <= p1 + m1)
              /\ (k - m2 + c2) - m1 + c1 = k - m1 - m2 + c1 + c2
          BY <1>1, <1>5, <1>9, <3>3
        <5>2. text[k] = <<0, k - m1 - m2 + c1 + c2>>
          BY <1>7, <4>1, <4>3, <5>1
        <5> QED
          BY <1>1, <1>5, <1>9, <3>3, <5>2
    <3> QED
      BY <1>1, <1>5, <3>1, <3>2, <3>3
  <2>2. InPieces(text, op1, 1, op2, Incoming, p2)
    BY <1>1, <1>6, <1>9, <2>1 DEF InPieces, N, p1, c1, m1, p2, c2, m2
  <2> QED
    BY <1>1, <2>2 DEF text
<1>10. CASE p2 + c2 <= p1 /\ q = p2 /\ (m1 = 0 \/ m2 = 0 \/ p2 < p1)
  <2>1. ASSUME NEW k \in 1..N - c1 + m1 - c2 + m2
        PROVE  text[k] = IF k <= p2 THEN <<0, k>>
                         ELSE IF k <= p2 + m2 THEN <<Incoming, k - p2>>
                         ELSE IF k <= p1 - c2 + m2 THEN <<0, k - m2 + c2>>
                         ELSE IF k <= p1 - c2 + m2 + m1
                              THEN <<1, k - (p1 - c2 + m2)>>
                         ELSE <<0, k - m2 - m1 + c2 + c1>>
    <3>1. CASE k <= q
      <4>1. k \in 1..N - c1 + m1
        BY <1>1, <1>5, <3>1
      <4>2. text[k] = mid[k]
        BY <1>8, <3>1
      <4> QED
        <5>1. k <= p1 /\ k <= p2
          BY <1>1, <1>10, <3>1
        <5>2. text[k] = <<0, k>>
          BY <1>7, <4>1, <4>2, <5>1
        <5> QED
          BY <5>1, <5>2
    <3>2. CASE q < k /\ k <= q + m2
      BY <1>1, <1>5, <1>8, <1>10, <3>2
    <3>3. CASE q < k /\ q + m2 < k
      <4>1. k - m2 + c2 \in 1..N - c1 + m1
        BY <1>1, <1>5, <3>3
      <4>2. ~(k <= q) /\ ~(k <= q + m2)
        BY <1>1, <1>5, <3>3
      <4>3. text[k] = mid[k - m2 + c2]
        BY <1>8, <4>2
      <4> QED
        BY <1>1, <1>5, <1>7, <1>10, <3>3, <4>1, <4>3
    <3> QED
      BY <1>1, <1>5, <3>1, <3>2, <3>3
  <2>2. InPieces(text, op2, Incoming, op1, 1, p1)
    BY <1>1, <1>6, <1>10, <2>1 DEF InPieces, N, p1, c1, m1, p2, c2, m2
  <2> QED
    BY <1>1, <2>2 DEF text
<1>11. CASE p1 <= p2 /\ p2 <= p1 + c1 /\ q = p1 /\ c2 = 0 /\ m1 = 0
  <2>1. ASSUME NEW k \in 1..N - c1 + m1 - c2 + m2
        PROVE  text[k] = IF k <= p1 THEN <<0, k>>
                         ELSE IF k <= p1 + m1 THEN <<1, k - p1>>
                         ELSE IF k <= p1 + c1 - c1 + m1 THEN <<0, k - m1 + c1>>
                         ELSE IF k <= p1 + c1 - c1 + m1 + m2
                              THEN <<Incoming, k - (p1 + c1 - c1 + m1)>>
                         ELSE <<0, k - m1 - m2 + c1 + c2>>
    <3>1. CASE k <= q
      <4>1. k \in 1..N - c1 + m1
        BY <1>1, <1>5, <3>1
      <4>2. text[k] = mid[k]
        BY <1>8, <3>1
      <4> QED
        BY <1>1, <1>5, <1>7, <1>11, <3>1, <4>1, <4>2
    <3>2. CASE q < k /\ k <= q + m2
      BY <1>1, <1>5, <1>8, <1>11, <3>2
    <3>3. CASE q < k /\ q + m2 < k
      <4>1. k - m2 + c2 \in 1..N - c1 + m1
        BY <1>1, <1>5, <3>3
      <4>2. ~(k <= q) /\ ~(k <= q + m2)
        BY <1>1, <1>5, <3>3
      <4>3. text[k] = mid[k - m2 + c2]
        BY <1>8, <4>2
      <4> QED
        <5>1. ~(k - m2 + c2 <= p1) /\ ~(k - m2 + c2 <= p1 + m1)
              /\ (k - m2 + c2) - m1 + c1 = k - m1 - m2 + c1 + c2
          BY <1>1, <1>5, <1>11, <3>3
        <5>2. text[k] = <<0, k - m1 - m2 + c1 + c2>>
          BY <1>7, <4>1, <4>3, <5>1
        <5> QED
          BY <1>1, <1>5, <1>11, <3>3, <5>2
    <3> QED
      BY <1>1, <1>5, <3>1, <3>2, <3>3
  <2>2. InPieces(text, op1, 1, op2, Incoming, p1 + c1)
    BY <1>1, <1>6, <1>11, <2>1 DEF InPieces, N, p1, c1, m1, p2, c2, m2
  <2>3. p1 + c1 \in Nat
    BY <1>1
  <2> QED
    BY <2>2, <2>3 DEF text
<1> QED
  BY <1>3, <1>9, <1>10, <1>11

LEMMA MergeIsMeant ==
    ASSUME NEW op1, Insertion(op1, 1) \/ Deletion(op1),
           NEW op2, Insertion(op2, Incoming) \/ Deletion(op2),
           Incoming > 1, ~Cancels(op1, op2), Disjoint(op1, op2)
    PROVE  IsMeant(op1, op2, Merged(op1, op2))
<1>1. PICK b \in Nat : \/ InPieces(Merged(op1, op2), op1, 1, op2, Incoming, b)
                       \/ InPieces(Merged(op1, op2), op2, Incoming, op1, 1, b)
  BY MergedInPieces
<1> QED
  BY <1>1, PiecesAreMeant

(* Of two deletions at one position the longer one does what both do.      *)
LEMMA LongerDeletionIsMeant ==
    ASSUME NEW op1, Deletion(op1), NEW op2, Deletion(op2), op1.pos = op2.pos,
           Len(op1.text) >= Len(op2.text), Incoming > 1
    PROVE  IsMeant(op1, op2, ApplyOperation(Base, op1))
<1> DEFINE text == ApplyOperation(Base, op1)
           N == BaseLength
           p == op1.pos
           n1 == Len(op1.text)
           n2 == Len(op2.text)
           A == [k \in 1..N - n1 |-> 0]
           X == [k \in 1..N - n1 |-> IF k <= p THEN k ELSE k + n1]
<1>1. /\ N \in Nat /\ p \in Nat /\ n1 \in Nat /\ n2 \in Nat /\ p + n1 <= N /\ n2 <= n1
      /\ op1.kind = "delete" /\ op2.kind = "delete" /\ op2.pos = p
      /\ op1.text \in Seq(Character)
  BY MergingAssumption DEF Deletion
<1>2. /\ text \in Seq(Character) /\ Len(text) = N - n1
      /\ \A k \in 1..N - n1 : text[k] = IF k <= p THEN Base[k] ELSE Base[k + n1]
  <2>1. Base \in Seq(Character) /\ Len(Base) = N
    BY BaseType
  <2>2. op1.kind = "delete" /\ op1.pos \in Nat /\ op1.text \in Seq(Character)
        /\ op1.pos + Len(op1.text) <= Len(Base)
    BY <1>1, <2>1
  <2>3. /\ text \in Seq(Character) /\ Len(text) = Len(Base) - n1
        /\ \A k \in 1..Len(Base) - n1 :
              text[k] = IF k <= p THEN Base[k] ELSE Base[k + n1]
    BY <2>1, <2>2, DeleteInside, ZenonT(30)
  <2> QED
    BY <2>1, <2>3
<1>3. \A k \in 1..N - n1 : text[k] = <<A[k], X[k]>> /\ X[k] \in 1..N
  <2> SUFFICES ASSUME NEW k \in 1..N - n1
               PROVE  text[k] = <<A[k], X[k]>> /\ X[k] \in 1..N
    OBVIOUS
  <2>1. A[k] = 0 /\ X[k] = (IF k <= p THEN k ELSE k + n1) /\ X[k] \in 1..N
    BY <1>1
  <2>2. text[k] = Base[X[k]]
    BY <1>2, <2>1
  <2> HIDE DEF A, X, text
  <2> QED
    BY <2>1, <2>2, BaseType
<1>4. /\ \A k \in 1..N - n1 : A[k] = 0 /\ ~Gone(op1, X[k]) /\ ~Gone(op2, X[k])
      /\ \A i, j \in 1..N - n1 : i < j => X[i] < X[j]
      /\ New(op1) = 0 /\ New(op2) = 0
  <2>1. \A k \in 1..N - n1 : A[k] = 0 /\ (X[k] <= p \/ p + n1 < X[k])
    BY <1>1
  <2>2. \A i, j \in 1..N - n1 : i < j => X[i] < X[j]
    BY <1>1
  <2> HIDE DEF A, X
  <2>3. ASSUME NEW i \in 1..N, i <= p \/ p + n1 < i PROVE ~Gone(op1, i) /\ ~Gone(op2, i)
    BY <1>1, <2>3 DEF Gone
  <2>4. New(op1) = 0 /\ New(op2) = 0
    BY <1>1 DEF New
  <2> QED
    BY <1>3, <2>1, <2>2, <2>3, <2>4
<1>5. ASSUME NEW i \in 1..N, ~Gone(op1, i), ~Gone(op2, i)
      PROVE  \E k \in 1..N - n1 : A[k] = 0 /\ X[k] = i
  <2>1. i <= p \/ p + n1 < i
    BY <1>1, <1>5 DEF Gone
  <2>2. CASE i <= p
    <3>1. i \in 1..N - n1
      BY <1>1, <2>2
    <3>2. A[i] = 0 /\ X[i] = i
      BY <1>1, <2>2, <3>1
    <3> QED
      BY <3>1, <3>2
  <2>3. CASE p + n1 < i
    <3>1. i - n1 \in 1..N - n1
      BY <1>1, <2>3
    <3>2. A[i - n1] = 0 /\ X[i - n1] = i
      BY <1>1, <2>3, <3>1
    <3> QED
      BY <3>1, <3>2
  <2> QED
    BY <2>1, <2>2, <2>3
<1> HIDE DEF A, X, text
<1>6. Reads(op1, op2, text, A, X, X)
  <2>1. Len(text) = N - n1 /\ 1..New(op1) = {} /\ 1..New(op2) = {}
    BY <1>2, <1>4
  <2>2. \A i, j \in 1..N - n1 : i < j => X[i] < X[j]
    BY <1>4
  <2>3. \A k \in 1..N - n1 :
           A[k] = 0 /\ X[k] \in 1..N /\ ~Gone(op1, X[k]) /\ ~Gone(op2, X[k])
    BY <1>3, <1>4
  <2> HIDE DEF N, n1
  <2>4. \A k \in 1..Len(text) : text[k] = <<A[k], X[k]>>
    BY <1>3, <2>1
  <2> QED
    <3>1. \A i \in 1..BaseLength :
             ~Gone(op1, i) /\ ~Gone(op2, i)
                => \E k \in 1..Len(text) : A[k] = 0 /\ X[k] = i
      BY <1>5, <2>1 DEF N
    <3>2. \A k \in 1..Len(text) :
             A[k] = 0 /\ X[k] \in 1..BaseLength /\ ~Gone(op1, X[k]) /\ ~Gone(op2, X[k])
      BY <2>1, <2>3 DEF N
    <3>3. \A i, j \in 1..Len(text) : i < j => X[i] < X[j]
      BY <2>1, <2>2
    <3> QED
      BY <2>1, <2>4, <3>1, <3>2, <3>3 DEF Reads
<1> QED
  BY <1>2, <1>6, MeantBy DEF text

-----------------------------------------------------------------------------
(* What is known of the server's document while one edit is logged.        *)

LoggedEdit == [kind : {"insert", "delete"}, pos : Nat, text : Seq(Character)]

HistoryOfType ==
    /\ phase \in {"editing", "merged", "discarded"}
    /\ history \in Seq(LoggedEdit) /\ Len(history) <= MaxHistory
    /\ phase = "editing" => doc \in Seq(Character)

AfterFirst ==
    /\ history = <<>> => phase = "editing" /\ doc = Base
    /\ Len(history) = 1 =>
          /\ history[1] \in Edits(Base, 1)
          /\ phase # "merged" => doc = ApplyOperation(Base, history[1])
          /\ phase # "editing" => incoming \in Edits(Base, Incoming)
          /\ phase = "merged" => /\ ~Cancels(history[1], incoming)
                                 /\ doc = Merged(history[1], incoming)
          /\ phase = "discarded" => Cancels(history[1], incoming)

LEMMA EditsInside ==
    ASSUME NEW text \in Seq(Character), NEW author \in Nat, NEW op \in Edits(text, author)
    PROVE  op \in LoggedEdit /\ op.pos + Cut(op) <= Len(text)
<1>0. Len(text) \in Nat
  BY LenProperties
<1>1. CASE op \in Insertions(text, author)
  <2>1. PICK n \in 1..MaxText :
           op \in [kind : {"insert"}, pos : 0..Len(text), text : {Text(author, n)}]
    BY <1>1 DEF Insertions
  <2>2. Text(author, n) \in Seq(Character)
    BY <2>1, TextType, MergingAssumption
  <2> QED
    BY <1>0, <2>1, <2>2 DEF LoggedEdit, Cut
<1>2. CASE op \in Deletions(text)
  <2>1. PICK p \in 0..Len(text), n \in 1..MaxText :
           /\ p + n <= Len(text)
           /\ op = [kind |-> "delete", pos |-> p, text |-> SubSeq(text, p + 1, p + n)]
    BY <1>2 DEF Deletions
  <2>2. p \in Nat /\ n \in Nat
    BY <1>0, <2>1, MergingAssumption
  <2>3. \A k \in p + 1 .. p + n : text[k] \in Character
    BY <1>0, <2>1, <2>2, ElementOfSeq
  <2>4. SubSeq(text, p + 1, p + n) \in Seq(Character) /\ Len(SubSeq(text, p + 1, p + n)) = n
    BY <2>2, <2>3, SubSeqProperties
  <2> QED
    BY <2>1, <2>2, <2>4 DEF LoggedEdit, Cut
<1> QED
  BY <1>1, <1>2 DEF Edits

LEMMA FirstInit == ASSUME Init PROVE HistoryOfType /\ AfterFirst
BY BaseType, MergingAssumption DEF Init, HistoryOfType, AfterFirst

LEMMA FirstLogEdit ==
    ASSUME HistoryOfType, AfterFirst, LogEdit
    PROVE  HistoryOfType' /\ AfterFirst'
<1>1. PICK op \in Edits(doc, Len(history) + 1) :
         doc' = ApplyOperation(doc, op) /\ history' = Append(history, op)
  BY DEF LogEdit
<1>2. Len(history) \in Nat /\ MaxHistory \in Nat /\ doc \in Seq(Character)
      /\ Len(history) < MaxHistory /\ phase = "editing" /\ phase' = "editing"
  BY LenProperties, MergingAssumption DEF LogEdit, HistoryOfType
<1>3. op \in LoggedEdit /\ op.pos + Cut(op) <= Len(doc)
  BY <1>1, <1>2, EditsInside
<1>4. doc' \in Seq(Character)
  <2>1. op.kind \in {"insert", "delete"} /\ op.pos \in Nat /\ op.text \in Seq(Character)
    BY <1>3 DEF LoggedEdit
  <2>2. ApplyOperation(doc, op) \in Seq(Character)
    BY <1>2, <1>3, <2>1, EditInside, SMTT(40)
  <2> QED
    BY <1>1, <2>2
<1>5. /\ history' \in Seq(LoggedEdit) /\ Len(history') = Len(history) + 1
      /\ history'[Len(history) + 1] = op
  BY <1>1, <1>3, AppendProperties DEF HistoryOfType
<1>6. HistoryOfType'
  BY <1>2, <1>4, <1>5 DEF HistoryOfType
<1>7. CASE Len(history) = 0
  <2>1. history = <<>> /\ doc = Base
    BY <1>7, EmptySeq DEF HistoryOfType, AfterFirst
  <2>2. AfterFirst'
    BY <1>1, <1>2, <1>5, <1>7, <2>1 DEF AfterFirst
  <2> QED
    BY <1>6, <2>2
<1>8. CASE Len(history) # 0
  <2>1. Len(history') # 1 /\ history' # <<>>
    BY <1>2, <1>5, <1>8
  <2> QED
    BY <1>6, <2>1 DEF AfterFirst
<1> QED
  BY <1>7, <1>8

LEMMA FirstMergeEdit ==
    ASSUME HistoryOfType, AfterFirst, MergeEdit
    PROVE  HistoryOfType' /\ AfterFirst'
BY DEF MergeEdit, HistoryOfType, AfterFirst, Last, Merged

LEMMA FirstDiscardEdit ==
    ASSUME HistoryOfType, AfterFirst, DiscardEdit
    PROVE  HistoryOfType' /\ AfterFirst'
BY DEF DiscardEdit, HistoryOfType, AfterFirst, Last

LEMMA FirstNext ==
    ASSUME HistoryOfType, AfterFirst, [Next]_vars
    PROVE  HistoryOfType' /\ AfterFirst'
<1>1. CASE UNCHANGED vars
  BY <1>1 DEF vars, HistoryOfType, AfterFirst
<1> QED
  BY <1>1, FirstLogEdit, FirstMergeEdit, FirstDiscardEdit DEF Next

LEMMA FirstAlways == Spec => [](HistoryOfType /\ AfterFirst)
<1>1. Init => HistoryOfType /\ AfterFirst
  BY FirstInit
<1>2. HistoryOfType /\ AfterFirst /\ [Next]_vars => HistoryOfType' /\ AfterFirst'
  BY FirstNext
<1> QED
  BY <1>1, <1>2, PTL DEF Spec

LEMMA OneLogged ==
    ASSUME HistoryOfType, AfterFirst, Len(history) = 1, phase # "editing"
    PROVE  /\ Incoming > 1
           /\ Insertion(history[1], 1) \/ Deletion(history[1])
           /\ Insertion(incoming, Incoming) \/ Deletion(incoming)
<1>1. MaxHistory \in Nat /\ MaxHistory >= 1 /\ Incoming \in Nat /\ Incoming > 1
  BY MergingAssumption DEF HistoryOfType, Incoming
<1> QED
  BY <1>1, EditsOfBase DEF AfterFirst

(* Any two concurrent edits that do not touch the same characters are      *)
(* merged to the text both authors meant, whatever the length of the text  *)
(* and of the edits: transform_operation and apply_operation together.     *)
THEOREM DisjointEdits == Spec => []DisjointEditsMerge
<1>1. ASSUME HistoryOfType, AfterFirst PROVE DisjointEditsMerge
  <2> SUFFICES ASSUME phase = "merged", Len(history) = 1, Disjoint(history[1], incoming)
               PROVE  IsMeant(history[1], incoming, doc)
    BY DEF DisjointEditsMerge
  <2>1. /\ Incoming > 1
        /\ Insertion(history[1], 1) \/ Deletion(history[1])
        /\ Insertion(incoming, Incoming) \/ Deletion(incoming)
    BY <1>1, OneLogged
  <2>2. ~Cancels(history[1], incoming) /\ doc = Merged(history[1], incoming)
    BY <1>1 DEF AfterFirst
  <2> QED
    BY <2>1, <2>2, MergeIsMeant
<1> QED
  BY <1>1, FirstAlways, PTL

(* An incoming deletion that the server drops had nothing left to delete   *)
(* when the logged deletion at its position was at least as long.          *)
THEOREM DiscardedDone == Spec => []DiscardedWasDone
<1>1. ASSUME HistoryOfType, AfterFirst PROVE DiscardedWasDone
  <2> SUFFICES ASSUME phase = "discarded", Len(history) = 1,
                      Len(history[1].text) >= Len(incoming.text)
               PROVE  IsMeant(history[1], incoming, doc)
    BY DEF DiscardedWasDone
  <2>1. /\ Incoming > 1
        /\ Insertion(history[1], 1) \/ Deletion(history[1])
        /\ Insertion(incoming, Incoming) \/ Deletion(incoming)
    BY <1>1, OneLogged
  <2>2. /\ Deletion(history[1]) /\ Deletion(incoming) /\ history[1].pos = incoming.pos
        /\ doc = ApplyOperation(Base, history[1])
    BY <1>1, <2>1 DEF AfterFirst, Cancels, Insertion
  <2> QED
    BY <2>1, <2>2, LongerDeletionIsMeant
<1> QED
  BY <1>1, FirstAlways, PTL

-----------------------------------------------------------------------------
(* The reference names one text.                                           *)

(* Every set of naturals that is not empty has a least element.            *)
LEMMA LeastNatural ==
    ASSUME NEW T, T \subseteq Nat, T # {}
    PROVE  \E x \in T : \A y \in T : x <= y
<1> DEFINE R == {ss \in Nat \X Nat : ss[1] < ss[2]}
<1>1. R = OpToRel(<, Nat)
  BY Zenon DEF OpToRel
<1>2. IsWellFoundedOn(R, Nat)
  BY ONLY <1>1, NatLessThanWellFounded, Zenon
<1>3. PICK x \in T : \A y \in T : ~(<<y, x>> \in R)
  <2> HIDE DEF R
  <2> QED
    BY <1>2, WFMin, Zenon
<1>4. ASSUME NEW y \in T PROVE x <= y
  <2>1. x \in Nat /\ y \in Nat /\ ~(<<y, x>> \in R)
    BY <1>3
  <2>2. y < x => <<y, x>> \in R
    BY <2>1
  <2> QED
    BY <2>1, <2>2
<1> QED
  BY <1>4

(* No two characters stand before each other.                              *)
LEMMA PrecedesOneWay ==
    ASSUME NEW op1, NEW op2, op1.pos \in Nat, op2.pos \in Nat,
           NEW a \in Character, NEW b \in Character, Precedes(op1, op2, a, b)
    PROVE  ~Precedes(op1, op2, b, a)
<1>1. a[1] \in Nat /\ a[2] \in Nat /\ b[1] \in Nat /\ b[2] \in Nat
  BY DEF Character
<1>2. Gap(op1, op2, a) \in Nat /\ Gap(op1, op2, b) \in Nat
  BY <1>1 DEF Gap
<1> HIDE DEF Gap
<1> QED
  BY <1>1, <1>2 DEF Precedes

(* The first place where two meant texts differ would be a character that  *)
(* stands later in each of them.                                           *)
LEMMA MeantReaches ==
    ASSUME NEW op1, NEW op2, op1.pos \in Nat, op2.pos \in Nat,
           NEW text \in Seq(Character), NEW other \in Seq(Character),
           IsMeant(op1, op2, text), IsMeant(op1, op2, other),
           NEW i \in 1..Len(text),
           \A k \in 1..i - 1 : k <= Len(other) /\ other[k] = text[k]
    PROVE  /\ i <= Len(other)
           /\ other[i] = text[i] \/ Precedes(op1, op2, other[i], text[i])
<1>1. /\ Len(text) \in Nat /\ Len(other) \in Nat /\ i \in Nat
      /\ DOMAIN text = 1..Len(text) /\ DOMAIN other = 1..Len(other)
      /\ \A k \in 1..Len(text) : text[k] \in Character
      /\ \A k \in 1..Len(other) : other[k] \in Character
  BY LenProperties, ElementOfSeq
<1>2. ToSet(text) = ToSet(other)
  BY DEF IsMeant
<1>3. PICK j \in 1..Len(other) : other[j] = text[i]
  BY <1>1, <1>2 DEF ToSet
<1>4. ~(j < i)
  <2> SUFFICES ASSUME j < i PROVE FALSE
    OBVIOUS
  <2>1. j \in 1..i - 1 /\ j \in 1..Len(text)
    BY <1>1
  <2>2. text[j] = text[i]
    BY <1>3, <2>1
  <2>3. Precedes(op1, op2, text[j], text[i])
    BY <1>1, <2>1 DEF IsMeant
  <2> QED
    BY <1>1, <2>1, <2>2, <2>3, PrecedesOneWay
<1>5. i <= Len(other) /\ i \in 1..Len(other)
  BY <1>1, <1>4
<1>6. CASE j = i
  BY <1>3, <1>5, <1>6
<1>7. CASE i < j
  <2>1. Precedes(op1, op2, other[i], other[j])
    BY <1>1, <1>5, <1>7 DEF IsMeant
  <2> QED
    BY <1>3, <1>5, <2>1
<1> QED
  BY <1>1, <1>4, <1>6, <1>7

(* IsMeant describes at most one text, whatever the edits and the texts    *)
(* are: to satisfy it is to be the merge.                                  *)
THEOREM MeantIsOneText ==
    ASSUME NEW op1, NEW op2, op1.pos \in Nat, op2.pos \in Nat,
           NEW text \in Seq(Character), NEW other \in Seq(Character),
           IsMeant(op1, op2, text), IsMeant(op1, op2, other)
    PROVE  text = other
<1>1. /\ Len(text) \in Nat /\ Len(other) \in Nat
      /\ \A k \in 1..Len(text) : text[k] \in Character
      /\ \A k \in 1..Len(other) : other[k] \in Character
  BY LenProperties, ElementOfSeq
<1> DEFINE In(s, k) == k <= Len(s)
           T == {k \in Nat : /\ k >= 1
                             /\ In(text, k) \/ In(other, k)
                             /\ ~(In(text, k) /\ In(other, k) /\ text[k] = other[k])}
<1>2. T = {}
  <2> SUFFICES ASSUME T # {} PROVE FALSE
    OBVIOUS
  <2>1. PICK i \in T : \A k \in T : i <= k
    <3>1. T \subseteq Nat
      OBVIOUS
    <3> HIDE DEF T
    <3> QED
      BY <3>1, LeastNatural
  <2>2. i \in Nat /\ i >= 1
    OBVIOUS
  <2>3. \A k \in 1..i - 1 : In(text, k) /\ In(other, k) /\ text[k] = other[k]
    <3> SUFFICES ASSUME NEW k \in 1..i - 1
                 PROVE  In(text, k) /\ In(other, k) /\ text[k] = other[k]
      OBVIOUS
    <3>1. k \notin T /\ k \in Nat /\ k >= 1 /\ k < i
      BY <2>1, <2>2
    <3>2. In(text, k) \/ In(other, k)
      BY <1>1, <2>2, <3>1
    <3> QED
      BY <3>1, <3>2
  <2>4. CASE In(text, i)
    <3>1. i \in 1..Len(text)
      BY <1>1, <2>2, <2>4
    <3>2. /\ In(other, i)
          /\ other[i] = text[i] \/ Precedes(op1, op2, other[i], text[i])
      BY <2>3, <3>1, MeantReaches
    <3>3. i \in 1..Len(other)
      BY <1>1, <2>2, <3>2
    <3>4. text[i] = other[i] \/ Precedes(op1, op2, text[i], other[i])
      BY <2>3, <3>3, MeantReaches
    <3>5. text[i] = other[i]
      BY <1>1, <3>1, <3>2, <3>3, <3>4, PrecedesOneWay
    <3> QED
      BY <2>4, <3>2, <3>5
  <2>5. CASE In(other, i)
    <3>1. i \in 1..Len(other)
      BY <1>1, <2>2, <2>5
    <3>2. In(text, i)
      BY <2>3, <3>1, MeantReaches
    <3> QED
      BY <2>4, <3>2
  <2> QED
    BY <2>4, <2>5
<1>3. Len(text) = Len(other)
  <2>1. \A k \in Nat : k >= 1 => (k <= Len(text) <=> k <= Len(other))
    BY <1>2
  <2> QED
    BY <1>1, <2>1
<1>4. \A k \in 1..Len(text) : text[k] = other[k]
  BY <1>1, <1>2
<1> QED
  BY <1>3, <1>4, SeqEqual

=============================================================================
