-------------------------- MODULE OperationsProofs --------------------------
(***************************************************************************)
(* Theorems about Operations.tla for any number of connections, any edits  *)
(* and any combination of faults.                                          *)
(***************************************************************************)
EXTENDS Operations, SequenceTheorems, WellFoundedInduction, TLAPS

-----------------------------------------------------------------------------
(* What the operators of Transformation.tla return for any edit, whatever  *)
(* its position.                                                           *)

(* A Python index is moved into the list it is applied to.                 *)
LEMMA ClampRange ==
    ASSUME NEW n \in Nat, NEW i \in Int
    PROVE  Clamp(i, n) \in 0..n
BY SMT DEF Clamp

(* doc[:i] is a document.                                                  *)
LEMMA BeforeType ==
    ASSUME NEW doc \in Document, NEW i \in Int
    PROVE  /\ Before(doc, i) \in Document
           /\ Len(Before(doc, i)) = Clamp(i, Len(doc))
           /\ \A k \in 1..Clamp(i, Len(doc)) : Before(doc, i)[k] = doc[k]
<1>1. Clamp(i, Len(doc)) \in 0..Len(doc)
  BY ClampRange, LenProperties DEF Document
<1>2. \A k \in 1..Clamp(i, Len(doc)) : doc[k] \in Char
  BY <1>1, ElementOfSeq DEF Document
<1> QED
  BY <1>1, <1>2, SubSeqProperties, LenProperties DEF Document, Before

(* doc[i:] is a document.                                                  *)
LEMMA FromType ==
    ASSUME NEW doc \in Document, NEW i \in Int
    PROVE  /\ From(doc, i) \in Document
           /\ Len(From(doc, i)) = Len(doc) - Clamp(i, Len(doc))
<1>1. Clamp(i, Len(doc)) \in 0..Len(doc)
  BY ClampRange, LenProperties DEF Document
<1>2. Clamp(i, Len(doc)) + 1 \in 1..Len(doc) + 1 /\ Len(doc) \in 0..Len(doc)
  BY <1>1, LenProperties DEF Document
<1> QED
  BY <1>1, <1>2, SubSeqProperties, LenProperties DEF Document, From

(* Applying an edit to a document gives a document.                        *)
LEMMA ApplyType ==
    ASSUME NEW doc \in Document, NEW op \in Operation
    PROVE  ApplyOperation(doc, op) \in Document
<1>1. op.pos \in Int /\ op.text \in Seq(Char) /\ op.pos + Len(op.text) \in Int
  BY LenProperties DEF Operation
<1>2. /\ Before(doc, op.pos) \in Seq(Char)
      /\ From(doc, op.pos) \in Seq(Char)
      /\ From(doc, op.pos + Len(op.text)) \in Seq(Char)
  BY <1>1, BeforeType, FromType DEF Document
<1>3. Before(doc, op.pos) \o op.text \in Seq(Char)
  BY <1>1, <1>2, ConcatProperties
<1> QED
  BY <1>2, <1>3, ConcatProperties DEF ApplyOperation, Document

(* Rebasing an edit moves it and changes nothing else.                     *)
LEMMA RebaseType ==
    ASSUME NEW last \in Operation, NEW op \in Operation
    PROVE  /\ Rebase(last, op) \in Operation
           /\ Rebase(last, op).kind = op.kind
           /\ Rebase(last, op).text = op.text
<1>1. Len(last.text) \in Nat
  BY LenProperties DEF Operation
<1>2. TransformedPos(last, op) \in Int
  BY <1>1 DEF Operation, Kind, TransformedPos, InsertionAgainstInsertion,
     InsertionAgainstDeletion, DeletionAgainstInsertion, DeletionAgainstDeletion
<1> QED
  BY <1>2 DEF Rebase, Operation

-----------------------------------------------------------------------------
(* The steps that handlers share.                                          *)

LEMMA NoLocalType == NoLocal \in Local
BY EmptySeq DEF NoLocal, NoOp, Local, Operation, Kind, Document

LEMMA GoToType ==
    ASSUME TypeOK, NEW c \in Conn, NEW step \in PC, GoTo(c, step)
    PROVE  pc' \in [Conn -> PC]
BY DEF TypeOK, GoTo

LEMMA FinishType ==
    ASSUME TypeOK, NEW c \in Conn, Finish(c)
    PROVE  pc' \in [Conn -> PC] /\ local' \in [Conn -> Local]
BY NoLocalType DEF TypeOK, Finish, GoTo, PC

LEMMA FailType ==
    ASSUME TypeOK, NEW c \in Conn, Fail(c)
    PROVE  /\ pc' \in [Conn -> PC] /\ local' \in [Conn -> Local]
           /\ inRoom' \in [Conn -> BOOLEAN]
           /\ open' \in [Conn -> BOOLEAN] /\ up' \in [Conn -> BOOLEAN]
BY FinishType DEF TypeOK, Fail

LEMMA DisconnectType ==
    ASSUME TypeOK, NEW c \in Conn, Disconnect(c)
    PROVE  /\ pc' \in [Conn -> PC] /\ local' \in [Conn -> Local]
           /\ inRoom' \in [Conn -> BOOLEAN]
           /\ open' \in [Conn -> BOOLEAN] /\ up' \in [Conn -> BOOLEAN]
BY FinishType DEF TypeOK, Disconnect

LEMMA ThisEditType ==
    ASSUME TypeOK, NEW c \in Conn
    PROVE  ThisEdit(c) \in Edit
BY DEF TypeOK, ThisEdit, Edit, Local

LEMMA ZAddType ==
    ASSUME TypeOK, NEW c \in Conn
    PROVE  ZAdd(log, local[c].op, local[c].seq) \subseteq LogEntry
BY DEF TypeOK, ZAdd, LogEntry, Local

LEMMA RowWithType ==
    ASSUME TypeOK, NEW c \in Conn
    PROVE  RowWith(local[c]) \in Row
BY DEF TypeOK, RowWith, Row, Local

-----------------------------------------------------------------------------
(* Type correctness.                                                       *)

LEMMA TypeInit == ASSUME Init PROVE TypeOK
<1>1. local \in [Conn -> Local]
  BY NoLocalType DEF Init
<1>2. stored \in Row
  BY OperationsAssumption DEF Init, Row
<1> QED
  BY <1>1, <1>2 DEF Init, TypeOK, PC

LEMMA TypeReceiveOperation ==
    ASSUME TypeOK, NEW c \in Conn, ReceiveOperation(c)
    PROVE  TypeOK'
<1>1. local' \in [Conn -> Local]
  <2>1. PICK op \in Requests, base \in Bases :
           local' = [local EXCEPT ![c] = [NoLocal EXCEPT !.op = op, !.base = base]]
    BY DEF ReceiveOperation
  <2>2. op \in Operation /\ base \in Nat
    BY OperationsAssumption
  <2>3. [NoLocal EXCEPT !.op = op, !.base = base] \in Local
    BY <2>2, NoLocalType DEF Local
  <2> QED
    BY <2>1, <2>3 DEF TypeOK
<1>2. pc' \in [Conn -> PC]
  BY GoToType DEF ReceiveOperation, PC, Editing
<1> QED
  BY <1>1, <1>2 DEF TypeOK, ReceiveOperation, session, ledger

LEMMA TypeReadDocument ==
    ASSUME TypeOK, NEW c \in Conn, ReadDocument(c)
    PROVE  TypeOK'
<1>1. CASE stored.exists
  <2>0. [local[c] EXCEPT !.snap = stored.content] \in Local
    BY DEF TypeOK, Local, Row
  <2>1. local' \in [Conn -> Local]
    BY <1>1, <2>0 DEF ReadDocument, TypeOK
  <2>2. pc' \in [Conn -> PC]
    BY <1>1, GoToType DEF ReadDocument, PC, Editing
  <2> QED
    BY <1>1, <2>1, <2>2 DEF TypeOK, ReadDocument, session, ledger
<1>2. CASE ~stored.exists
  BY <1>2, FailType DEF TypeOK, ReadDocument, ledger
<1> QED
  BY <1>1, <1>2

LEMMA TypeReadSequence ==
    ASSUME TypeOK, NEW c \in Conn, ReadSequence(c)
    PROVE  TypeOK'
<1> DEFINE h == local[c]
<1>0. h \in Local /\ h.op \in Operation /\ h.snap \in Document /\ counter \in Nat
  BY DEF TypeOK, Local
<1>1. CASE h.base < counter /\ local' = [local EXCEPT ![c].curr = counter]
           /\ GoTo(c, "log") /\ UNCHANGED session
  <2>1. local' \in [Conn -> Local]
    BY <1>0, <1>1 DEF TypeOK, Local
  <2>2. pc' \in [Conn -> PC]
    BY <1>1, GoToType DEF PC, Editing
  <2> QED
    BY <1>1, <2>1, <2>2 DEF TypeOK, ReadSequence, session, ledger
<1>2. CASE /\ local' = [local EXCEPT ![c].curr = counter,
                                     ![c].draft = ApplyOperation(h.snap, h.op)]
           /\ GoTo(c, "increment") /\ UNCHANGED session
  <2>1. ApplyOperation(h.snap, h.op) \in Document
    BY <1>0, ApplyType
  <2>2. local' \in [Conn -> Local]
    BY <1>0, <1>2, <2>1 DEF TypeOK, Local
  <2>3. pc' \in [Conn -> PC]
    BY <1>2, GoToType DEF PC, Editing
  <2> QED
    BY <1>2, <2>2, <2>3 DEF TypeOK, ReadSequence, session, ledger
<1>3. CASE Fail(c)
  BY <1>3, FailType DEF TypeOK, ReadSequence, ledger
<1> QED
  BY <1>1, <1>2, <1>3 DEF ReadSequence

LEMMA TypeReadLog ==
    ASSUME TypeOK, NEW c \in Conn, ReadLog(c)
    PROVE  TypeOK'
<1> DEFINE h == local[c]
           range == ZRangeByScore(log, h.base + 1, h.curr)
<1>0. h \in Local /\ h.op \in Operation /\ h.snap \in Document
  BY DEF TypeOK, Local
<1>1. CASE Fail(c)
  BY <1>1, FailType DEF TypeOK, ReadLog, ledger
<1>2. CASE Finish(c) /\ UNCHANGED session
  BY <1>2, FinishType DEF TypeOK, ReadLog, session, ledger
<1>3. CASE Disconnect(c)
  BY <1>3, DisconnectType DEF TypeOK, ReadLog, ledger
<1>4. ASSUME NEW last \in range,
             local' = [local EXCEPT
                         ![c].op = Rebase(last.op, h.op),
                         ![c].draft = ApplyOperation(h.snap, Rebase(last.op, h.op))],
             GoTo(c, "increment"), UNCHANGED session
      PROVE  TypeOK'
  <2>1. last.op \in Operation
    BY DEF TypeOK, ZRangeByScore, LogEntry
  <2>2. Rebase(last.op, h.op) \in Operation
    BY <1>0, <2>1, RebaseType
  <2>3. ApplyOperation(h.snap, Rebase(last.op, h.op)) \in Document
    BY <1>0, <2>2, ApplyType
  <2>4. local' \in [Conn -> Local]
    BY <1>0, <1>4, <2>2, <2>3 DEF TypeOK, Local
  <2>5. pc' \in [Conn -> PC]
    BY <1>4, GoToType DEF PC, Editing
  <2> QED
    BY <1>4, <2>4, <2>5 DEF TypeOK, ReadLog, session, ledger
<1> QED
  BY <1>1, <1>2, <1>3, <1>4 DEF ReadLog

LEMMA TypeIncrement ==
    ASSUME TypeOK, NEW c \in Conn, Increment(c)
    PROVE  TypeOK'
<1>1. counter' \in Nat
  BY DEF Increment, TypeOK
<1>2. [local[c] EXCEPT !.seq = counter'] \in Local
  BY <1>1 DEF TypeOK, Local
<1>3. local' \in [Conn -> Local]
  BY <1>2 DEF TypeOK, Increment
<1>4. ThisEdit(c)' \in Edit
  BY <1>3 DEF ThisEdit, Edit, Local
<1>5. pc' \in [Conn -> PC]
  BY GoToType DEF Increment, PC, Editing
<1> QED
  BY <1>1, <1>3, <1>4, <1>5 DEF TypeOK, Increment, session

LEMMA TypeRecord ==
    ASSUME TypeOK, NEW c \in Conn, Record(c)
    PROVE  TypeOK'
<1>1. pc' \in [Conn -> PC]
  BY GoToType DEF Record, PC, Editing
<1> QED
  BY <1>1, ZAddType DEF TypeOK, Record, session, ledger

LEMMA TypeCommit ==
    ASSUME TypeOK, NEW c \in Conn, Commit(c)
    PROVE  TypeOK'
<1>1. CASE stored.exists
  <2>1. pc' \in [Conn -> PC]
    BY <1>1, GoToType DEF Commit, PC, Editing
  <2> QED
    BY <1>1, <2>1, RowWithType, ThisEditType DEF TypeOK, Commit, session
<1>2. CASE ~stored.exists
  BY <1>2, FailType DEF TypeOK, Commit
<1> QED
  BY <1>1, <1>2

LEMMA TypePromoteRole ==
    ASSUME TypeOK, NEW c \in Conn, PromoteRole(c)
    PROVE  TypeOK'
<1>1. pc' \in [Conn -> PC]
  BY GoToType DEF PromoteRole, PC, Editing
<1> QED
  BY <1>1 DEF TypeOK, PromoteRole, session, ledger

LEMMA TypeAck ==
    ASSUME TypeOK, NEW c \in Conn, Ack(c)
    PROVE  TypeOK'
<1>1. CASE Disconnect(c) /\ UNCHANGED acked
  BY <1>1, DisconnectType DEF TypeOK, Ack
<1>2. CASE /\ acked' = IF inRoom[c] THEN acked \cup {ThisEdit(c)} ELSE acked
           /\ GoTo(c, "publish") /\ UNCHANGED <<local, session>>
  <2>1. pc' \in [Conn -> PC]
    BY <1>2, GoToType DEF PC, Editing
  <2> QED
    BY <1>2, <2>1, ThisEditType DEF TypeOK, Ack, session
<1> QED
  BY <1>1, <1>2 DEF Ack

LEMMA TypePublishOperation ==
    ASSUME TypeOK, NEW c \in Conn, PublishOperation(c)
    PROVE  TypeOK'
BY FinishType, ThisEditType DEF TypeOK, PublishOperation, session

LEMMA TypeReplay ==
    ASSUME TypeOK, NEW c \in Conn,
           \/ ReceiveReplay(c) \/ ReadReplaySequence(c)
           \/ ReadReplayLog(c) \/ SendReplayed(c)
    PROVE  TypeOK'
<1>1. CASE ReceiveReplay(c)
  <2>1. PICK base \in Bases : local' = [local EXCEPT ![c] = [NoLocal EXCEPT !.base = base]]
    BY <1>1 DEF ReceiveReplay
  <2>2. [NoLocal EXCEPT !.base = base] \in Local
    BY OperationsAssumption, NoLocalType DEF Local
  <2>3. pc' \in [Conn -> PC]
    BY <1>1, GoToType DEF ReceiveReplay, PC, Replaying
  <2> QED
    BY <1>1, <2>1, <2>2, <2>3 DEF TypeOK, ReceiveReplay, session, ledger
<1>2. CASE ReadReplaySequence(c)
  <2>1. [local[c] EXCEPT !.curr = counter] \in Local
    BY DEF TypeOK, Local
  <2>2. pc' \in [Conn -> PC]
    BY <1>2, GoToType DEF ReadReplaySequence, PC, Replaying
  <2> QED
    BY <1>2, <2>1, <2>2 DEF TypeOK, ReadReplaySequence, session, ledger
<1>3. CASE ReadReplayLog(c)
  <2> DEFINE range == ZRangeByScore(log, local[c].base + 1, local[c].curr)
  <2>1. range \in SUBSET LogEntry
    BY DEF TypeOK, ZRangeByScore
  <2>2. [local[c] EXCEPT !.batch = range] \in Local
    BY <2>1 DEF TypeOK, Local
  <2>3. pc' \in [Conn -> PC]
    BY <1>3, GoToType DEF ReadReplayLog, PC, Replaying
  <2> QED
    BY <1>3, <2>2, <2>3 DEF TypeOK, ReadReplayLog, session, ledger
<1>4. CASE SendReplayed(c)
  <2>1. CASE Finish(c) /\ UNCHANGED session
    BY <1>4, <2>1, FinishType DEF TypeOK, SendReplayed, session, ledger
  <2>2. CASE Disconnect(c)
    BY <1>4, <2>2, DisconnectType DEF TypeOK, SendReplayed, ledger
  <2>3. ASSUME NEW e \in local[c].batch,
               local' = [local EXCEPT ![c].base = e.score],
               UNCHANGED <<pc, session>>
        PROVE  TypeOK'
    <3>1. e.score \in Nat
      BY DEF TypeOK, Local, LogEntry
    <3>2. [local[c] EXCEPT !.base = e.score] \in Local
      BY <3>1 DEF TypeOK, Local
    <3> QED
      BY <1>4, <2>3, <3>2 DEF TypeOK, SendReplayed, session, ledger
  <2> QED
    BY <1>4, <2>1, <2>2, <2>3 DEF SendReplayed
<1> QED
  BY <1>1, <1>2, <1>3, <1>4

LEMMA TypeFailure ==
    ASSUME TypeOK, NEW c \in Conn, CallFails(c) \/ ReplyLost(c)
    PROVE  TypeOK'
<1>1. CASE CallFails(c)
  BY <1>1, FailType DEF TypeOK, CallFails, ledger
<1>2. CASE ReplyLost(c)
  <2>1. Fail(c) /\ UNCHANGED <<issued, acked, published>>
    BY <1>2 DEF ReplyLost
  <2>2. counter' \in Nat /\ log' \subseteq LogEntry /\ stored' \in Row /\ committed' \subseteq Edit
    BY <1>2, ZAddType, RowWithType, ThisEditType DEF TypeOK, ReplyLost
  <2> QED
    BY <2>1, <2>2, FailType DEF TypeOK
<1> QED
  BY <1>1, <1>2

LEMMA TypeConnection ==
    ASSUME TypeOK, NEW c \in Conn,
           \/ RefuseMessage(c) \/ ClientDrops(c) \/ NoticeDisconnect(c)
           \/ Reap(c) \/ Connect(c) \/ Join(c)
    PROVE  TypeOK'
<1>1. CASE RefuseMessage(c)
  BY <1>1, FailType DEF TypeOK, RefuseMessage, ledger
<1>2. CASE ClientDrops(c)
  BY <1>2 DEF TypeOK, ClientDrops, ledger
<1>3. CASE NoticeDisconnect(c)
  BY <1>3, DisconnectType DEF TypeOK, NoticeDisconnect, ledger
<1>4. CASE Reap(c)
  BY <1>4 DEF TypeOK, Reap, ledger
<1>5. CASE Connect(c)
  BY <1>5 DEF TypeOK, Connect, ledger
<1>6. CASE Join(c)
  BY <1>6 DEF TypeOK, Join, Row, ledger
<1> QED
  BY <1>1, <1>2, <1>3, <1>4, <1>5, <1>6

LEMMA TypeDelete == ASSUME TypeOK, DeleteDocument PROVE TypeOK'
BY DEF TypeOK, DeleteDocument, Row, session, ledger

LEMMA TypeStutter == ASSUME TypeOK, UNCHANGED vars PROVE TypeOK'
BY DEF TypeOK, vars

LEMMA TypeNext == ASSUME TypeOK, [Next]_vars PROVE TypeOK'
BY TypeReceiveOperation, TypeReadDocument, TypeReadSequence, TypeReadLog,
   TypeIncrement, TypeRecord, TypeCommit, TypePromoteRole, TypeAck,
   TypePublishOperation, TypeReplay, TypeFailure, TypeConnection, TypeDelete,
   TypeStutter DEF Next, Handler

(* Every variable keeps its type: the counter, the log, the document's row *)
(* and the locals of every handler are what Redis, Postgres and Python     *)
(* hold in them, for any edits that clients send.                          *)
THEOREM TypeCorrect == Spec => []TypeOK
<1>1. Init => TypeOK
  BY TypeInit
<1>2. TypeOK /\ [Next]_vars => TypeOK'
  BY TypeNext
<1> QED
  BY <1>1, <1>2, PTL DEF Spec

-----------------------------------------------------------------------------
(* The safety properties follow from what is known of an edit at each      *)
(* await of its handler: once it is numbered, it is among the issued       *)
(* edits; once it is recorded, it or an identical edit is in the log; once *)
(* its commit returned, it is committed.                                   *)

IssuedBelowCounter == \A i \in issued : i.seq <= counter

LogIsIssued == \A e \in log : \E j \in issued : j.op = e.op /\ j.seq = e.score

Holds(set, op) == \E e \in set : e.op = op

CommittedInLog == \A i \in committed : Holds(log, i.op)

Recorded == {"commit", "role", "ack", "publish"}
Answering == {"role", "ack", "publish"}

HandlersProgress ==
    \A c \in Conn :
        /\ pc[c] \in Numbered => ThisEdit(c) \in issued
        /\ pc[c] \in Recorded => Holds(log, local[c].op)
        /\ pc[c] \in Answering => ThisEdit(c) \in committed

Safe ==
    /\ IssuedBelowCounter /\ NumbersAreUnique
    /\ LogIsIssued /\ CommittedInLog
    /\ HandlersProgress
    /\ AnnouncedIsCommitted

(* A step that gives no number, writes no log and announces nothing, and   *)
(* after which every handler that has a number is where it was.            *)
LEMMA QuietStep ==
    ASSUME Safe,
           UNCHANGED <<counter, log, ledger>>,
           \A d \in Conn : pc'[d] \in Numbered
                              => pc'[d] = pc[d] /\ local'[d] = local[d]
    PROVE  Safe'
<1>1. UNCHANGED <<IssuedBelowCounter, NumbersAreUnique, LogIsIssued,
                  CommittedInLog, AnnouncedIsCommitted>>
  BY DEF ledger, IssuedBelowCounter, NumbersAreUnique, LogIsIssued,
         CommittedInLog, Holds, AnnouncedIsCommitted
<1>2. HandlersProgress'
  <2>1. ASSUME NEW d \in Conn, pc'[d] \in Numbered
        PROVE  /\ ThisEdit(d)' \in issued
               /\ pc'[d] \in Recorded => \E e \in log : e.op = local'[d].op
               /\ pc'[d] \in Answering => ThisEdit(d)' \in committed
    <3>1. pc'[d] = pc[d] /\ local'[d] = local[d] /\ ThisEdit(d)' = ThisEdit(d)
      BY <2>1 DEF ThisEdit
    <3> QED
      BY <2>1, <3>1 DEF Safe, HandlersProgress, Holds
  <2> QED
    BY <2>1 DEF HandlersProgress, Holds, Numbered, Recorded, Answering, ledger
<1> QED
  BY <1>1, <1>2 DEF Safe

(* The same for the steps of one handler that ends, or that stays before   *)
(* the number.                                                             *)
LEMMA QuietHandler ==
    ASSUME TypeOK, Safe, NEW c \in Conn, NEW step \in PC \ Numbered,
           UNCHANGED <<counter, log, ledger>>, GoTo(c, step),
           \A d \in Conn \ {c} : local'[d] = local[d]
    PROVE  Safe'
<1>1. pc'[c] = step /\ \A d \in Conn \ {c} : pc'[d] = pc[d]
  BY DEF GoTo, TypeOK
<1> QED
  BY <1>1, QuietStep

LEMMA QuietEnd ==
    ASSUME TypeOK, Safe, NEW c \in Conn,
           UNCHANGED <<counter, log, ledger>>,
           Fail(c) \/ Disconnect(c) \/ (Finish(c) /\ UNCHANGED session)
    PROVE  Safe'
<1>1. GoTo(c, "idle") /\ local' = [local EXCEPT ![c] = NoLocal]
  BY DEF Fail, Disconnect, Finish
<1>2. \A d \in Conn \ {c} : local'[d] = local[d]
  BY <1>1 DEF TypeOK
<1>3. "idle" \in PC \ Numbered
  BY DEF PC, Numbered
<1> QED
  BY <1>1, <1>2, <1>3, QuietHandler

LEMMA SafeInit == ASSUME Init PROVE Safe
BY DEF Init, Safe, IssuedBelowCounter, NumbersAreUnique, LogIsIssued, CommittedInLog,
   HandlersProgress, Numbered, Recorded, Answering, AnnouncedIsCommitted

(* Up to the number, a handler only reads.                                 *)
LEMMA SafeReading ==
    ASSUME TypeOK, Safe, NEW c \in Conn,
           \/ ReceiveOperation(c) \/ ReadDocument(c) \/ ReadSequence(c) \/ ReadLog(c)
           \/ ReceiveReplay(c) \/ ReadReplaySequence(c) \/ ReadReplayLog(c)
    PROVE  Safe'
<1>1. UNCHANGED <<counter, log, ledger>>
  BY DEF ReceiveOperation, ReadDocument, ReadSequence, ReadLog,
         ReceiveReplay, ReadReplaySequence, ReadReplayLog
<1>2. CASE Fail(c) \/ Disconnect(c) \/ (Finish(c) /\ UNCHANGED session)
  BY <1>1, <1>2, QuietEnd
<1>3. CASE /\ \E step \in PC \ Numbered : GoTo(c, step)
           /\ UNCHANGED session
           /\ \A d \in Conn \ {c} : local'[d] = local[d]
  BY <1>1, <1>3, QuietHandler DEF session
<1>4. \/ Fail(c) \/ Disconnect(c) \/ (Finish(c) /\ UNCHANGED session)
      \/ /\ \E step \in PC \ Numbered : GoTo(c, step)
         /\ UNCHANGED session
         /\ \A d \in Conn \ {c} : local'[d] = local[d]
  <2>1. {"document", "sequence", "log", "increment", "replay sequence", "replay log",
         "replay send"} \subseteq PC \ Numbered
    BY DEF PC, Editing, Replaying, Numbered
  <2>2. CASE ReceiveOperation(c)
    BY <2>1, <2>2 DEF ReceiveOperation, TypeOK
  <2>3. CASE ReadDocument(c)
    BY <2>1, <2>3 DEF ReadDocument, TypeOK
  <2>4. CASE ReadSequence(c)
    BY <2>1, <2>4 DEF ReadSequence, TypeOK
  <2>5. CASE ReadLog(c)
    BY <2>1, <2>5 DEF ReadLog, TypeOK
  <2>6. CASE ReceiveReplay(c)
    BY <2>1, <2>6 DEF ReceiveReplay, TypeOK
  <2>7. CASE ReadReplaySequence(c)
    BY <2>1, <2>7 DEF ReadReplaySequence, TypeOK
  <2>8. CASE ReadReplayLog(c)
    BY <2>1, <2>8 DEF ReadReplayLog, TypeOK
  <2> QED
    BY <2>2, <2>3, <2>4, <2>5, <2>6, <2>7, <2>8
<1> QED
  BY <1>2, <1>3, <1>4

LEMMA SafeSendReplayed ==
    ASSUME TypeOK, Safe, NEW c \in Conn, SendReplayed(c)
    PROVE  Safe'
<1>1. UNCHANGED <<counter, log, ledger>>
  BY DEF SendReplayed
<1>2. CASE Disconnect(c) \/ (Finish(c) /\ UNCHANGED session)
  BY <1>1, <1>2, QuietEnd
<1>3. CASE \E e \in local[c].batch :
              local' = [local EXCEPT ![c].base = e.score] /\ UNCHANGED <<pc, session>>
  <2>1. pc'[c] \notin Numbered
    BY <1>3 DEF SendReplayed, Numbered
  <2>2. \A d \in Conn \ {c} : local'[d] = local[d]
    BY <1>3 DEF TypeOK
  <2> QED
    BY <1>1, <1>3, <2>1, <2>2, QuietStep DEF session
<1> QED
  BY <1>2, <1>3 DEF SendReplayed

(* The number is greater than every number given before.                   *)
LEMMA SafeIncrement ==
    ASSUME TypeOK, TypeOK', Safe, NEW c \in Conn, Increment(c)
    PROVE  Safe'
<1> DEFINE edit == ThisEdit(c)'
<1>1. /\ counter \in Nat /\ counter' \in Nat /\ counter < counter'
      /\ edit.seq = counter' /\ edit.conn = c
      /\ pc' = [pc EXCEPT ![c] = "record"]
      /\ \A d \in Conn \ {c} : local'[d] = local[d] /\ ThisEdit(d)' = ThisEdit(d)
      /\ issued' = issued \cup {edit}
  BY DEF TypeOK, Increment, ThisEdit, GoTo
<1>2. UNCHANGED <<log, committed, acked, published>>
  BY DEF Increment, session
<1>3. \A i \in issued : i.seq \in Nat /\ i.seq <= counter
  BY DEF Safe, IssuedBelowCounter, TypeOK, Edit
<1>4. IssuedBelowCounter' /\ NumbersAreUnique'
  BY <1>1, <1>3 DEF Safe, IssuedBelowCounter, NumbersAreUnique
<1>5. LogIsIssued' /\ CommittedInLog' /\ AnnouncedIsCommitted'
  BY <1>1, <1>2 DEF Safe, LogIsIssued, CommittedInLog, Holds, AnnouncedIsCommitted
<1>6. HandlersProgress'
  <2>1. pc'[c] = "record" /\ \A d \in Conn \ {c} : pc'[d] = pc[d]
    BY <1>1 DEF TypeOK
  <2> QED
    BY <1>1, <1>2, <2>1 DEF Safe, HandlersProgress, Holds, Recorded, Answering
<1> QED
  BY <1>4, <1>5, <1>6 DEF Safe

(* Writing an edit to the log takes no other edit out of it: ZADD replaces *)
(* the entry of an identical edit by one with a number that was given, too.*)
LEMMA LogWritten ==
    ASSUME Safe, NEW c \in Conn, pc[c] \in Numbered, issued' = issued,
           log' = ZAdd(log, local[c].op, local[c].seq)
    PROVE  /\ Holds(log', local[c].op)
           /\ \A op : Holds(log, op) => Holds(log', op)
           /\ LogIsIssued'
<1> DEFINE entry == [op |-> local[c].op, score |-> local[c].seq]
<1>1. log' = {e \in log : e.op # local[c].op} \cup {entry} /\ entry.op = local[c].op
  BY DEF ZAdd
<1>2. \E j \in issued : j.op = entry.op /\ j.seq = entry.score
  BY DEF Safe, HandlersProgress, ThisEdit
<1>3. LogIsIssued'
  BY <1>1, <1>2 DEF Safe, LogIsIssued
<1>4. Holds(log', local[c].op)
  BY <1>1 DEF Holds
<1>5. ASSUME NEW op, Holds(log, op) PROVE Holds(log', op)
  BY <1>1, <1>4, <1>5 DEF Holds
<1> QED
  BY <1>3, <1>4, <1>5

LEMMA SafeRecord ==
    ASSUME TypeOK, Safe, NEW c \in Conn, Record(c)
    PROVE  Safe'
<1>1. /\ pc[c] = "record" /\ pc' = [pc EXCEPT ![c] = "commit"]
      /\ log' = ZAdd(log, local[c].op, local[c].seq)
      /\ UNCHANGED <<counter, local, issued, committed, acked, published>>
  BY DEF Record, GoTo, session, ledger
<1>2. /\ Holds(log', local[c].op)
      /\ \A op : Holds(log, op) => Holds(log', op)
      /\ LogIsIssued'
  BY <1>1, LogWritten DEF Numbered
<1>3. pc'[c] = "commit" /\ \A d \in Conn \ {c} : pc'[d] = pc[d]
  BY <1>1 DEF TypeOK
<1>4. HandlersProgress'
  BY <1>1, <1>2, <1>3 DEF Safe, HandlersProgress, ThisEdit, Numbered, Recorded, Answering
<1>5. CommittedInLog'
  BY <1>1, <1>2 DEF Safe, CommittedInLog
<1> QED
  BY <1>1, <1>2, <1>4, <1>5 DEF Safe, IssuedBelowCounter, NumbersAreUnique,
     AnnouncedIsCommitted

LEMMA SafeCommit ==
    ASSUME TypeOK, Safe, NEW c \in Conn, Commit(c)
    PROVE  Safe'
<1>1. CASE ~stored.exists
  BY <1>1, QuietEnd DEF Commit, ledger
<1>2. CASE stored.exists
  <2>1. /\ pc[c] = "commit"
        /\ pc' = [pc EXCEPT ![c] = IF c \in Author THEN "ack" ELSE "role"]
        /\ committed' = committed \cup {ThisEdit(c)}
        /\ UNCHANGED <<counter, log, local, issued, acked, published>>
    BY <1>2 DEF Commit, GoTo, session
  <2>2. pc'[c] \in {"role", "ack"} /\ \A d \in Conn \ {c} : pc'[d] = pc[d]
    BY <2>1 DEF TypeOK
  <2>3. ThisEdit(c) \in issued /\ Holds(log, local[c].op) /\ ThisEdit(c).op = local[c].op
    BY <2>1 DEF Safe, HandlersProgress, Numbered, Recorded, ThisEdit
  <2>4. HandlersProgress'
    BY <2>1, <2>2, <2>3 DEF Safe, HandlersProgress, ThisEdit, Numbered, Recorded, Answering
  <2>5. CommittedInLog'
    BY <2>1, <2>3 DEF Safe, CommittedInLog
  <2> QED
    BY <2>1, <2>4, <2>5 DEF Safe, IssuedBelowCounter, NumbersAreUnique, LogIsIssued,
       AnnouncedIsCommitted
<1> QED
  BY <1>1, <1>2

LEMMA SafePromoteRole ==
    ASSUME TypeOK, Safe, NEW c \in Conn, PromoteRole(c)
    PROVE  Safe'
<1>1. /\ pc[c] = "role" /\ pc' = [pc EXCEPT ![c] = "ack"]
      /\ UNCHANGED <<counter, log, local, issued, committed, acked, published>>
  BY DEF PromoteRole, GoTo, ledger
<1>2. pc'[c] = "ack" /\ \A d \in Conn \ {c} : pc'[d] = pc[d]
  BY <1>1 DEF TypeOK
<1>3. HandlersProgress'
  BY <1>1, <1>2 DEF Safe, HandlersProgress, ThisEdit, Numbered, Recorded, Answering
<1> QED
  BY <1>1, <1>3 DEF Safe, IssuedBelowCounter, NumbersAreUnique, LogIsIssued,
     CommittedInLog, AnnouncedIsCommitted

LEMMA SafeAck ==
    ASSUME TypeOK, Safe, NEW c \in Conn, Ack(c)
    PROVE  Safe'
<1>1. CASE Disconnect(c) /\ UNCHANGED acked
  BY <1>1, QuietEnd DEF Ack, ledger
<1>2. CASE /\ acked' = IF inRoom[c] THEN acked \cup {ThisEdit(c)} ELSE acked
           /\ GoTo(c, "publish") /\ UNCHANGED <<local, session>>
  <2>1. /\ pc[c] = "ack" /\ pc' = [pc EXCEPT ![c] = "publish"]
        /\ UNCHANGED <<counter, log, local, issued, committed, published>>
    BY <1>2 DEF Ack, GoTo, session
  <2>2. pc'[c] = "publish" /\ \A d \in Conn \ {c} : pc'[d] = pc[d]
    BY <2>1 DEF TypeOK
  <2>3. ThisEdit(c) \in committed
    BY <2>1 DEF Safe, HandlersProgress, Answering
  <2>4. HandlersProgress'
    BY <2>1, <2>2 DEF Safe, HandlersProgress, ThisEdit, Numbered, Recorded, Answering
  <2>5. AnnouncedIsCommitted'
    BY <1>2, <2>1, <2>3 DEF Safe, AnnouncedIsCommitted
  <2> QED
    BY <2>1, <2>4, <2>5 DEF Safe, IssuedBelowCounter, NumbersAreUnique, LogIsIssued,
       CommittedInLog
<1> QED
  BY <1>1, <1>2 DEF Ack

LEMMA SafePublishOperation ==
    ASSUME TypeOK, Safe, NEW c \in Conn, PublishOperation(c)
    PROVE  Safe'
<1>1. /\ pc[c] = "publish" /\ pc' = [pc EXCEPT ![c] = "idle"]
      /\ local' = [local EXCEPT ![c] = NoLocal]
      /\ published' \subseteq published \cup {ThisEdit(c)}
      /\ UNCHANGED <<counter, log, issued, committed, acked>>
  BY DEF PublishOperation, Finish, GoTo, session
<1>2. pc'[c] = "idle" /\ \A d \in Conn \ {c} : pc'[d] = pc[d] /\ local'[d] = local[d]
  BY <1>1 DEF TypeOK
<1>3. ThisEdit(c) \in committed
  BY <1>1 DEF Safe, HandlersProgress, Answering
<1>4. HandlersProgress'
  BY <1>1, <1>2 DEF Safe, HandlersProgress, ThisEdit, Numbered, Recorded, Answering
<1>5. AnnouncedIsCommitted'
  BY <1>1, <1>3 DEF Safe, AnnouncedIsCommitted
<1> QED
  BY <1>1, <1>4, <1>5 DEF Safe, IssuedBelowCounter, NumbersAreUnique, LogIsIssued,
     CommittedInLog

(* A lost reply leaves the call's effect behind and ends the handler.      *)
LEMMA SafeReplyLost ==
    ASSUME TypeOK, Safe, NEW c \in Conn, ReplyLost(c)
    PROVE  Safe'
<1>1. /\ pc' = [pc EXCEPT ![c] = "idle"]
      /\ local' = [local EXCEPT ![c] = NoLocal]
      /\ UNCHANGED <<issued, acked, published>>
  BY DEF ReplyLost, Fail, Finish, GoTo
<1>2. pc'[c] = "idle" /\ \A d \in Conn \ {c} : pc'[d] = pc[d] /\ local'[d] = local[d]
  BY <1>1 DEF TypeOK
<1>3. CASE pc[c] = "increment" /\ counter' = counter + 1 /\ UNCHANGED <<log, committed>>
  <2>1. \A i \in issued : i.seq \in Nat /\ counter \in Nat /\ i.seq <= counter
    BY DEF Safe, IssuedBelowCounter, TypeOK, Edit
  <2>2. IssuedBelowCounter'
    BY <1>1, <1>3, <2>1 DEF IssuedBelowCounter
  <2>3. HandlersProgress'
    BY <1>1, <1>2, <1>3 DEF Safe, HandlersProgress, Holds, ThisEdit, Numbered, Recorded, Answering
  <2> QED
    BY <1>1, <1>3, <2>2, <2>3 DEF Safe, NumbersAreUnique, LogIsIssued, CommittedInLog,
       Holds, AnnouncedIsCommitted
<1>4. CASE /\ pc[c] = "record" /\ log' = ZAdd(log, local[c].op, local[c].seq)
           /\ UNCHANGED <<counter, committed>>
  <2>1. (\A op : Holds(log, op) => Holds(log', op)) /\ LogIsIssued'
    BY <1>1, <1>4, LogWritten DEF Numbered
  <2>2. HandlersProgress'
    BY <1>1, <1>2, <1>4, <2>1 DEF Safe, HandlersProgress, ThisEdit, Numbered, Recorded, Answering
  <2>3. CommittedInLog'
    BY <1>4, <2>1 DEF Safe, CommittedInLog
  <2> QED
    BY <1>1, <1>4, <2>1, <2>2, <2>3 DEF Safe, IssuedBelowCounter, NumbersAreUnique,
       AnnouncedIsCommitted
<1>5. CASE /\ pc[c] = "commit" /\ committed' = committed \cup {ThisEdit(c)}
           /\ UNCHANGED <<counter, log>>
  <2>1. Holds(log, ThisEdit(c).op)
    BY <1>5 DEF Safe, HandlersProgress, Recorded, ThisEdit
  <2>2. HandlersProgress'
    BY <1>1, <1>2, <1>5 DEF Safe, HandlersProgress, Holds, ThisEdit, Numbered, Recorded, Answering
  <2>3. CommittedInLog'
    BY <1>5, <2>1 DEF Safe, CommittedInLog, Holds
  <2> QED
    BY <1>1, <1>5, <2>2, <2>3 DEF Safe, IssuedBelowCounter, NumbersAreUnique, LogIsIssued,
       AnnouncedIsCommitted
<1> QED
  BY <1>3, <1>4, <1>5 DEF ReplyLost

LEMMA SafeConnection ==
    ASSUME TypeOK, Safe, NEW c \in Conn,
           \/ RefuseMessage(c) \/ ClientDrops(c) \/ NoticeDisconnect(c)
           \/ Reap(c) \/ Connect(c) \/ Join(c) \/ CallFails(c)
    PROVE  Safe'
<1>1. CASE RefuseMessage(c) \/ NoticeDisconnect(c) \/ CallFails(c)
  BY <1>1, QuietEnd DEF RefuseMessage, NoticeDisconnect, CallFails, ledger
<1>2. CASE ClientDrops(c) \/ Reap(c) \/ Connect(c) \/ Join(c)
  <2>1. UNCHANGED <<counter, log, pc, local, ledger>>
    BY <1>2 DEF ClientDrops, Reap, Connect, Join, ledger
  <2> QED
    BY <2>1, QuietStep
<1> QED
  BY <1>1, <1>2

LEMMA SafeDelete == ASSUME TypeOK, Safe, DeleteDocument PROVE Safe'
<1>1. UNCHANGED <<counter, log, pc, local, ledger>>
  BY DEF DeleteDocument, ledger
<1> QED
  BY <1>1, QuietStep

LEMMA SafeStutter == ASSUME Safe, UNCHANGED vars PROVE Safe'
<1>1. UNCHANGED <<counter, log, pc, local, ledger>>
  BY DEF vars, ledger
<1> QED
  BY <1>1, QuietStep

LEMMA SafeNext == ASSUME TypeOK, Safe, [Next]_vars PROVE Safe'
<1>1. TypeOK'
  BY TypeNext
<1> QED
  BY <1>1, SafeReading, SafeSendReplayed, SafeIncrement, SafeRecord, SafeCommit,
     SafePromoteRole, SafeAck, SafePublishOperation, SafeReplyLost, SafeConnection,
     SafeDelete, SafeStutter DEF Next, Handler

THEOREM SafeAlways == Spec => [](TypeOK /\ Safe)
<1>1. Init => TypeOK /\ Safe
  BY TypeInit, SafeInit
<1>2. TypeOK /\ Safe /\ [Next]_vars => TypeOK' /\ Safe'
  BY TypeNext, SafeNext
<1> QED
  BY <1>1, <1>2, PTL DEF Spec

-----------------------------------------------------------------------------
(* The properties that the runs check.                                     *)

(* INCR gives every edit a number of its own, with any number of handlers, *)
(* retried calls and lost replies (process_operation_event).               *)
THEOREM NumbersUnique == Spec => []NumbersAreUnique
<1>1. TypeOK /\ Safe => NumbersAreUnique
  BY DEF Safe
<1> QED
  BY <1>1, SafeAlways, PTL

(* Nobody is told of an edit that was not committed: the acknowledgement   *)
(* and the publication come after the commit on every path.                *)
THEOREM AnnouncedCommitted == Spec => []AnnouncedIsCommitted
<1>1. TypeOK /\ Safe => AnnouncedIsCommitted
  BY DEF Safe
<1> QED
  BY <1>1, SafeAlways, PTL

(* A committed edit, or an identical one, is in the log under a number     *)
(* that was given to it, whatever handlers wrote to the log since.         *)
THEOREM CommittedLogged == Spec => []CommittedIsLogged
<1>1. TypeOK /\ Safe => CommittedIsLogged
  <2> SUFFICES ASSUME Safe, NEW i \in committed
               PROVE  \E e \in log : e.op = i.op /\
                         \E j \in issued : j.op = e.op /\ j.seq = e.score
    BY DEF CommittedIsLogged
  <2>1. PICK e \in log : e.op = i.op
    BY DEF Safe, CommittedInLog, Holds
  <2> QED
    BY <2>1 DEF Safe, LogIsIssued
<1> QED
  BY <1>1, SafeAlways, PTL

(* A replay reads every edit published before, up to the counter it read,  *)
(* that is the only one of its kind: by CommittedInLog and LogIsIssued the *)
(* log holds the edit at its own number, and the range covers the number.  *)
THEOREM ReplayComplete == Spec => ReplayReadsPublished
<1> DEFINE Reads == \A c \in Conn : ReadReplayLog(c) =>
              \A p \in published :
                  (/\ local[c].base < p.seq /\ p.seq <= local[c].curr
                   /\ \A i \in issued : i.op = p.op => i = p)
                  => [op |-> p.op, score |-> p.seq] \in local'[c].batch
<1>1. ASSUME TypeOK, Safe, NEW c \in Conn, ReadReplayLog(c), NEW p \in published,
             local[c].base < p.seq, p.seq <= local[c].curr,
             \A i \in issued : i.op = p.op => i = p
      PROVE  [op |-> p.op, score |-> p.seq] \in local'[c].batch
  <2>1. PICK e \in log : e.op = p.op
    BY <1>1 DEF Safe, AnnouncedIsCommitted, CommittedInLog, Holds
  <2>2. e.score = p.seq /\ e \in LogEntry
    BY <1>1, <2>1 DEF Safe, LogIsIssued, TypeOK
  <2>3. e = [op |-> p.op, score |-> p.seq]
    BY <2>1, <2>2 DEF LogEntry
  <2>4. local'[c].batch = ZRangeByScore(log, local[c].base + 1, local[c].curr)
    BY <1>1 DEF ReadReplayLog, TypeOK, Local
  <2>5. local[c].base \in Nat /\ p.seq \in Nat
    BY <1>1 DEF TypeOK, Local, Edit
  <2> QED
    BY <1>1, <2>1, <2>2, <2>3, <2>4, <2>5 DEF ZRangeByScore
<1>2. TypeOK /\ Safe /\ [Next]_vars => Reads
  BY <1>1
<1>3. TypeOK /\ Safe /\ [Next]_vars => [Reads]_vars
  BY <1>2
<1> QED
  BY <1>3, SafeAlways, PTL DEF Spec, ReplayReadsPublished

-----------------------------------------------------------------------------
(* The draft.                                                              *)

Drafted == {"increment", "record", "commit"}

LEMMA DraftKept ==
    ASSUME DraftIsOfEdit,
           \A d \in Conn : pc'[d] \in Drafted =>
               /\ pc[d] \in Drafted
               /\ local'[d].op = local[d].op
               /\ local'[d].snap = local[d].snap
               /\ local'[d].draft = local[d].draft
    PROVE  DraftIsOfEdit'
BY DEF DraftIsOfEdit, Drafted

(* A handler gets a draft when it has the sequence number or the log, and  *)
(* from then on neither the draft nor what it was made of changes.         *)
LEMMA DraftNext == ASSUME TypeOK, DraftIsOfEdit, [Next]_vars PROVE DraftIsOfEdit'
<1>1. ASSUME NEW c \in Conn, Finish(c)
      PROVE  DraftIsOfEdit'
  <2>1. pc'[c] = "idle" /\ \A d \in Conn \ {c} : pc'[d] = pc[d] /\ local'[d] = local[d]
    BY <1>1 DEF Finish, GoTo, TypeOK
  <2> QED
    BY <2>1, DraftKept DEF Drafted
<1>2. ASSUME NEW c \in Conn, NEW step \in PC \ Drafted, GoTo(c, step),
             \A d \in Conn \ {c} : local'[d] = local[d]
      PROVE  DraftIsOfEdit'
  <2>1. pc'[c] = step /\ \A d \in Conn \ {c} : pc'[d] = pc[d]
    BY <1>2 DEF GoTo, TypeOK
  <2> QED
    BY <1>2, <2>1, DraftKept
<1>3. ASSUME NEW c \in Conn, GoTo(c, "increment"),
             \A d \in Conn \ {c} : local'[d] = local[d],
             local'[c].draft = ApplyOperation(local'[c].snap, local'[c].op)
      PROVE  DraftIsOfEdit'
  <2>1. pc'[c] = "increment" /\ \A d \in Conn \ {c} : pc'[d] = pc[d]
    BY <1>3 DEF GoTo, TypeOK
  <2> QED
    BY <1>3, <2>1 DEF DraftIsOfEdit
<1>4. ASSUME UNCHANGED <<pc, local>> PROVE DraftIsOfEdit'
  BY <1>4, DraftKept
<1>5. ASSUME NEW c \in Conn, ReceiveOperation(c) \/ ReadDocument(c) PROVE DraftIsOfEdit'
  <2>1. {"document", "sequence"} \subseteq PC \ Drafted
    BY DEF PC, Editing, Drafted
  <2> QED
    BY <1>1, <1>2, <1>5, <2>1 DEF ReceiveOperation, ReadDocument, Fail, TypeOK
<1>6. ASSUME NEW c \in Conn, ReadSequence(c) PROVE DraftIsOfEdit'
  <2>1. CASE Fail(c)
    BY <1>1, <2>1 DEF Fail
  <2>2. CASE GoTo(c, "log") /\ local' = [local EXCEPT ![c].curr = counter]
    BY <1>2, <2>2 DEF TypeOK, PC, Editing, Drafted
  <2>3. CASE /\ GoTo(c, "increment")
             /\ local' = [local EXCEPT ![c].curr = counter,
                             ![c].draft = ApplyOperation(local[c].snap, local[c].op)]
    <3>1. local'[c].draft = ApplyOperation(local'[c].snap, local'[c].op)
      BY <2>3 DEF TypeOK, Local
    <3>2. \A d \in Conn \ {c} : local'[d] = local[d]
      BY <2>3 DEF TypeOK
    <3> QED
      BY <1>3, <2>3, <3>1, <3>2
  <2> QED
    BY <1>6, <2>1, <2>2, <2>3 DEF ReadSequence
<1>7. ASSUME NEW c \in Conn, ReadLog(c) PROVE DraftIsOfEdit'
  <2>1. CASE Fail(c) \/ Finish(c) \/ Disconnect(c)
    BY <1>1, <2>1 DEF Fail, Disconnect
  <2>2. ASSUME NEW op, GoTo(c, "increment"),
               local' = [local EXCEPT ![c].op = op,
                                      ![c].draft = ApplyOperation(local[c].snap, op)]
        PROVE  DraftIsOfEdit'
    <3>1. local'[c].draft = ApplyOperation(local'[c].snap, local'[c].op)
      BY <2>2 DEF TypeOK, Local
    <3>2. \A d \in Conn \ {c} : local'[d] = local[d]
      BY <2>2 DEF TypeOK
    <3> QED
      BY <1>3, <2>2, <3>1, <3>2
  <2> QED
    BY <1>7, <2>1, <2>2 DEF ReadLog
<1>8. ASSUME NEW c \in Conn, Increment(c) PROVE DraftIsOfEdit'
  <2>1. /\ pc[c] = "increment"
        /\ local' = [local EXCEPT ![c].seq = counter']
        /\ \A d \in Conn \ {c} : pc'[d] = pc[d]
    BY <1>8 DEF Increment, GoTo, TypeOK
  <2>2. \A d \in Conn : /\ local'[d].op = local[d].op
                        /\ local'[d].snap = local[d].snap
                        /\ local'[d].draft = local[d].draft
    BY <2>1 DEF TypeOK, Local
  <2> QED
    BY <2>1, <2>2, DraftKept DEF Drafted
<1>9. ASSUME NEW c \in Conn, Record(c) PROVE DraftIsOfEdit'
  <2>1. pc[c] = "record" /\ local' = local /\ \A d \in Conn \ {c} : pc'[d] = pc[d]
    BY <1>9 DEF Record, GoTo, TypeOK
  <2> QED
    BY <2>1, DraftKept DEF Drafted
<1>10. ASSUME NEW c \in Conn, Commit(c) \/ PromoteRole(c) \/ Ack(c) \/ PublishOperation(c)
       PROVE  DraftIsOfEdit'
  <2>1. {"role", "ack", "publish"} \subseteq PC \ Drafted
    BY DEF PC, Editing, Drafted
  <2> QED
    BY <1>1, <1>2, <1>10, <2>1 DEF Commit, PromoteRole, Ack, PublishOperation, Fail, Disconnect
<1>11. ASSUME NEW c \in Conn,
              ReceiveReplay(c) \/ ReadReplaySequence(c) \/ ReadReplayLog(c)
       PROVE  DraftIsOfEdit'
  <2>1. {"replay sequence", "replay log", "replay send"} \subseteq PC \ Drafted
    BY DEF PC, Replaying, Drafted
  <2> QED
    BY <1>2, <1>11, <2>1 DEF ReceiveReplay, ReadReplaySequence, ReadReplayLog, TypeOK
<1>12. ASSUME NEW c \in Conn, SendReplayed(c) PROVE DraftIsOfEdit'
  <2>1. CASE Finish(c) \/ Disconnect(c)
    BY <1>1, <2>1 DEF Disconnect
  <2>2. CASE \E e \in local[c].batch :
                local' = [local EXCEPT ![c].base = e.score] /\ UNCHANGED pc
    <3>1. pc[c] \notin Drafted
      BY <1>12 DEF SendReplayed, Drafted
    <3> QED
      BY <2>2, <3>1, DraftKept DEF TypeOK
  <2> QED
    BY <1>12, <2>1, <2>2 DEF SendReplayed
<1>13. ASSUME NEW c \in Conn,
              \/ CallFails(c) \/ ReplyLost(c) \/ RefuseMessage(c) \/ ClientDrops(c)
              \/ NoticeDisconnect(c) \/ Reap(c) \/ Connect(c) \/ Join(c)
       PROVE  DraftIsOfEdit'
  BY <1>1, <1>4, <1>13 DEF CallFails, ReplyLost, RefuseMessage, ClientDrops,
     NoticeDisconnect, Reap, Connect, Join, Fail, Disconnect
<1>14. ASSUME DeleteDocument \/ UNCHANGED vars PROVE DraftIsOfEdit'
  BY <1>4, <1>14 DEF DeleteDocument, vars
<1> QED
  BY <1>5, <1>6, <1>7, <1>8, <1>9, <1>10, <1>11, <1>12, <1>13, <1>14 DEF Next, Handler

(* The text a handler commits is the text it read with the very edit       *)
(* applied that it logs, acknowledges and publishes.                       *)
THEOREM DraftOfEdit == Spec => []DraftIsOfEdit
<1>1. Init => DraftIsOfEdit
  BY DEF Init, DraftIsOfEdit
<1>2. TypeOK /\ DraftIsOfEdit /\ [Next]_vars => DraftIsOfEdit'
  BY DraftNext
<1> QED
  BY <1>1, <1>2, TypeCorrect, PTL DEF Spec

-----------------------------------------------------------------------------
(* The handlers implement the ledger: a step gives a number, commits,      *)
(* drops or announces one edit, or changes nothing the ledger sees.        *)

Reserving == {"record", "commit"}

LEMMA ReservedKept ==
    ASSUME \A d \in Conn : (pc'[d] \in Reserving) <=> (pc[d] \in Reserving),
           \A d \in Conn : pc[d] \in Reserving => ThisEdit(d)' = ThisEdit(d)
    PROVE  Reserved' = Reserved
BY DEF Reserved, Reserving

(* A handler that leaves record or commit takes its edit, and no other,    *)
(* out of the reserved ones.                                               *)
LEMMA ReservedLess ==
    ASSUME NEW c \in Conn, pc[c] \in Reserving, pc'[c] \notin Reserving,
           \A d \in Conn \ {c} : pc'[d] = pc[d] /\ local'[d] = local[d]
    PROVE  ThisEdit(c) \in Reserved /\ Reserved' = Reserved \ {ThisEdit(c)}
<1>1. \A d \in Conn \ {c} : ThisEdit(d)' = ThisEdit(d) /\ ThisEdit(d) # ThisEdit(c)
  BY DEF ThisEdit
<1> QED
  BY <1>1 DEF Reserved, Reserving

LEMMA LedgerStutter ==
    ASSUME UNCHANGED <<counter, committed, acked, published>>, Reserved' = Reserved
    PROVE  UNCHANGED Ledger!vars
BY DEF Ledger!vars

(* The end of a handler drops its edit, if it had one to commit.           *)
LEMMA LedgerEnd ==
    ASSUME TypeOK, NEW c \in Conn, Finish(c),
           UNCHANGED <<counter, committed, acked, published>>
    PROVE  [Ledger!Next]_(Ledger!vars)
<1>1. pc'[c] = "idle" /\ \A d \in Conn \ {c} : pc'[d] = pc[d] /\ local'[d] = local[d]
  BY DEF Finish, GoTo, TypeOK
<1>2. CASE pc[c] \in Reserving
  BY <1>1, <1>2, ReservedLess DEF Reserving, Ledger!Next, Ledger!Drop
<1>3. CASE pc[c] \notin Reserving
  BY <1>1, <1>3, ReservedKept, LedgerStutter DEF Reserving, ThisEdit
<1> QED
  BY <1>2, <1>3

(* A step between two awaits at neither of which the edit is reserved.     *)
LEMMA LedgerMove ==
    ASSUME TypeOK, NEW c \in Conn, pc[c] \notin Reserving,
           NEW step \in PC \ Reserving, GoTo(c, step),
           \A d \in Conn \ {c} : local'[d] = local[d],
           UNCHANGED <<counter, committed, acked, published>>
    PROVE  UNCHANGED Ledger!vars
<1>1. pc'[c] = step /\ \A d \in Conn \ {c} : pc'[d] = pc[d]
  BY DEF GoTo, TypeOK
<1> QED
  BY <1>1, ReservedKept, LedgerStutter DEF ThisEdit

LEMMA LedgerReading ==
    ASSUME TypeOK, NEW c \in Conn,
           \/ ReceiveOperation(c) \/ ReadDocument(c) \/ ReadSequence(c) \/ ReadLog(c)
           \/ ReceiveReplay(c) \/ ReadReplaySequence(c) \/ ReadReplayLog(c)
    PROVE  [Ledger!Next]_(Ledger!vars)
<1>1. UNCHANGED <<counter, committed, acked, published>> /\ pc[c] \notin Reserving
  BY DEF ReceiveOperation, ReadDocument, ReadSequence, ReadLog, ReceiveReplay,
         ReadReplaySequence, ReadReplayLog, ledger, Reserving
<1>2. CASE Finish(c)
  BY <1>1, <1>2, LedgerEnd
<1>3. CASE /\ \E step \in PC \ Reserving : GoTo(c, step)
           /\ \A d \in Conn \ {c} : local'[d] = local[d]
  BY <1>1, <1>3, LedgerMove
<1>4. \/ Finish(c)
      \/ /\ \E step \in PC \ Reserving : GoTo(c, step)
         /\ \A d \in Conn \ {c} : local'[d] = local[d]
  <2>1. {"document", "sequence", "log", "increment", "replay sequence", "replay log",
         "replay send"} \subseteq PC \ Reserving
    BY DEF PC, Editing, Replaying, Reserving
  <2>2. CASE ReceiveOperation(c) \/ ReadDocument(c) \/ ReadSequence(c)
    BY <2>1, <2>2 DEF ReceiveOperation, ReadDocument, ReadSequence, Fail, TypeOK
  <2>3. CASE ReadLog(c)
    BY <2>1, <2>3 DEF ReadLog, Fail, Disconnect, TypeOK
  <2>4. CASE ReceiveReplay(c) \/ ReadReplaySequence(c) \/ ReadReplayLog(c)
    BY <2>1, <2>4 DEF ReceiveReplay, ReadReplaySequence, ReadReplayLog, TypeOK
  <2> QED
    BY <2>2, <2>3, <2>4
<1> QED
  BY <1>2, <1>3, <1>4

LEMMA LedgerIncrement ==
    ASSUME TypeOK, TypeOK', NEW c \in Conn, Increment(c)
    PROVE  Ledger!Number
<1> DEFINE edit == ThisEdit(c)'
<1>1. /\ counter' \in {counter + 1, counter + 2}
      /\ edit \in Edit /\ edit.seq = counter' /\ edit.conn = c
      /\ pc[c] = "increment" /\ pc'[c] = "record"
      /\ \A d \in Conn \ {c} : pc'[d] = pc[d] /\ ThisEdit(d)' = ThisEdit(d)
      /\ UNCHANGED <<committed, acked, published>>
  BY DEF TypeOK, Increment, GoTo, ThisEdit, Edit, Local
<1>2. Reserved' = Reserved \cup {edit}
  BY <1>1 DEF Reserved
<1>3. \A r \in Reserved : r.conn # c
  BY <1>1 DEF Reserved, ThisEdit
<1>4. edit \in Ledger!Edit
  BY <1>1 DEF Edit, Ledger!Edit
<1> QED
  BY <1>1, <1>2, <1>3, <1>4 DEF Ledger!Number

LEMMA LedgerRecord ==
    ASSUME TypeOK, NEW c \in Conn, Record(c)
    PROVE  UNCHANGED Ledger!vars
<1>1. /\ pc[c] = "record" /\ pc'[c] = "commit" /\ local' = local
      /\ \A d \in Conn \ {c} : pc'[d] = pc[d]
      /\ UNCHANGED <<counter, committed, acked, published>>
  BY DEF TypeOK, Record, GoTo, ledger
<1> QED
  BY <1>1, ReservedKept, LedgerStutter DEF Reserving, ThisEdit

(* A commit that took effect, whether or not its reply arrived.            *)
LEMMA LedgerCommit ==
    ASSUME TypeOK, NEW c \in Conn, pc[c] = "commit", pc'[c] \notin Reserving,
           \A d \in Conn \ {c} : pc'[d] = pc[d] /\ local'[d] = local[d],
           committed' = committed \cup {ThisEdit(c)},
           UNCHANGED <<counter, acked, published>>
    PROVE  Ledger!Commit
<1>1. ThisEdit(c) \in Reserved /\ Reserved' = Reserved \ {ThisEdit(c)}
  BY ReservedLess DEF Reserving
<1> QED
  BY <1>1 DEF Ledger!Commit

LEMMA LedgerCommits ==
    ASSUME TypeOK, NEW c \in Conn, Commit(c)
    PROVE  [Ledger!Next]_(Ledger!vars)
<1>1. CASE stored.exists
  <2>1. /\ pc[c] = "commit" /\ pc'[c] \in {"role", "ack"} /\ local' = local
        /\ \A d \in Conn \ {c} : pc'[d] = pc[d]
        /\ committed' = committed \cup {ThisEdit(c)}
        /\ UNCHANGED <<counter, acked, published>>
    BY <1>1 DEF TypeOK, Commit, GoTo
  <2> QED
    BY <2>1, LedgerCommit DEF Reserving, Ledger!Next
<1>2. CASE ~stored.exists
  BY <1>2, LedgerEnd DEF Commit, Fail
<1> QED
  BY <1>1, <1>2

LEMMA LedgerAnswering ==
    ASSUME TypeOK, Safe, NEW c \in Conn,
           PromoteRole(c) \/ Ack(c) \/ PublishOperation(c)
    PROVE  [Ledger!Next]_(Ledger!vars)
<1>1. pc[c] \in Answering /\ pc[c] \notin Reserving /\ UNCHANGED <<counter, committed>>
  BY DEF PromoteRole, Ack, PublishOperation, ledger, Answering, Reserving
<1>2. ThisEdit(c) \in committed
  BY <1>1 DEF Safe, HandlersProgress
<1>3. Reserved' = Reserved
  <2>1. pc'[c] \notin Reserving /\ \A d \in Conn \ {c} : pc'[d] = pc[d] /\ local'[d] = local[d]
    BY DEF TypeOK, PromoteRole, Ack, PublishOperation, Disconnect, Finish, GoTo, Reserving
  <2> QED
    BY <1>1, <2>1, ReservedKept DEF ThisEdit
<1>4. CASE UNCHANGED <<acked, published>>
  BY <1>1, <1>3, <1>4, LedgerStutter
<1>5. CASE (acked \cup published)' = (acked \cup published) \cup {ThisEdit(c)}
  BY <1>1, <1>2, <1>3, <1>5 DEF Ledger!Next, Ledger!Announce
<1> QED
  BY <1>4, <1>5 DEF PromoteRole, Ack, PublishOperation, ledger

LEMMA LedgerSendReplayed ==
    ASSUME TypeOK, NEW c \in Conn, SendReplayed(c)
    PROVE  [Ledger!Next]_(Ledger!vars)
<1>1. UNCHANGED <<counter, committed, acked, published>> /\ pc[c] \notin Reserving
  BY DEF SendReplayed, ledger, Reserving
<1>2. CASE Finish(c) \/ Disconnect(c)
  BY <1>1, <1>2, LedgerEnd DEF Disconnect
<1>3. CASE \E e \in local[c].batch :
              local' = [local EXCEPT ![c].base = e.score] /\ UNCHANGED pc
  <2>1. \A d \in Conn \ {c} : local'[d] = local[d]
    BY <1>3 DEF TypeOK
  <2> QED
    BY <1>1, <1>3, <2>1, ReservedKept, LedgerStutter DEF ThisEdit
<1> QED
  BY <1>2, <1>3 DEF SendReplayed

LEMMA LedgerFailure ==
    ASSUME TypeOK, NEW c \in Conn,
           CallFails(c) \/ ReplyLost(c) \/ RefuseMessage(c) \/ NoticeDisconnect(c)
    PROVE  [Ledger!Next]_(Ledger!vars)
<1>1. Finish(c) /\ UNCHANGED <<acked, published>>
  BY DEF CallFails, ReplyLost, RefuseMessage, NoticeDisconnect, Fail, Disconnect, ledger
<1>2. pc'[c] = "idle" /\ \A d \in Conn \ {c} : pc'[d] = pc[d] /\ local'[d] = local[d]
  BY <1>1 DEF Finish, GoTo, TypeOK
<1>3. CASE UNCHANGED <<counter, committed>>
  BY <1>1, <1>3, LedgerEnd
<1>4. CASE pc[c] = "increment" /\ counter' = counter + 1 /\ UNCHANGED committed
  <2>1. Reserved' = Reserved
    BY <1>2, <1>4, ReservedKept DEF Reserving, ThisEdit
  <2> QED
    BY <1>1, <1>4, <2>1 DEF Ledger!Next, Ledger!LoseNumber
<1>5. CASE /\ pc[c] = "commit" /\ committed' = committed \cup {ThisEdit(c)}
           /\ UNCHANGED counter
  BY <1>1, <1>2, <1>5, LedgerCommit DEF Reserving, Ledger!Next
<1> QED
  BY <1>3, <1>4, <1>5 DEF CallFails, ReplyLost, RefuseMessage, NoticeDisconnect, ledger

LEMMA LedgerIdle ==
    ASSUME \/ \E c \in Conn : ClientDrops(c) \/ Reap(c) \/ Connect(c) \/ Join(c)
           \/ DeleteDocument \/ UNCHANGED vars
    PROVE  UNCHANGED Ledger!vars
<1>1. UNCHANGED <<counter, committed, acked, published, pc, local>>
  BY DEF ClientDrops, Reap, Connect, Join, DeleteDocument, vars, ledger
<1> QED
  BY <1>1, ReservedKept, LedgerStutter DEF ThisEdit

LEMMA LedgerNext ==
    ASSUME TypeOK, Safe, [Next]_vars
    PROVE  [Ledger!Next]_(Ledger!vars)
<1>1. TypeOK'
  BY TypeNext
<1>2. ASSUME NEW c \in Conn, Increment(c) PROVE [Ledger!Next]_(Ledger!vars)
  BY <1>1, <1>2, LedgerIncrement DEF Ledger!Next
<1>3. ASSUME NEW c \in Conn, Record(c) PROVE [Ledger!Next]_(Ledger!vars)
  BY <1>3, LedgerRecord
<1> QED
  BY <1>2, <1>3, LedgerReading, LedgerCommits, LedgerAnswering, LedgerSendReplayed,
     LedgerFailure, LedgerIdle DEF Next, Handler

(* The handlers do what EditLedger promises.                               *)
THEOREM ImplementsLedger == Spec => RefinesLedger
<1>1. Init => Ledger!Init
  BY DEF Init, Ledger!Init, Reserved
<1>2. TypeOK /\ Safe /\ [Next]_vars => [Ledger!Next]_(Ledger!vars)
  BY LedgerNext
<1> QED
  BY <1>1, <1>2, SafeAlways, PTL DEF Spec, RefinesLedger, Ledger!Spec

-----------------------------------------------------------------------------
(* The numbers the log lacks.                                              *)

CallsAnswer == Faults \cap {"storage", "retry"} = {}

NumbersUsed ==
    \A n \in 2..counter : \E i \in issued :
        /\ i.seq = n
        /\ Holds(log, i.op) \/ (pc[i.conn] = "record" /\ ThisEdit(i.conn) = i)

LEMMA UsedKept ==
    ASSUME TypeOK, NumbersUsed, UNCHANGED <<counter, issued>>,
           \A op : Holds(log, op) => Holds(log', op),
           \A d \in Conn : pc[d] = "record" =>
               \/ pc'[d] = "record" /\ ThisEdit(d)' = ThisEdit(d)
               \/ Holds(log', local[d].op)
    PROVE  NumbersUsed'
<1>1. ASSUME NEW n \in 2..counter
      PROVE  \E i \in issued :
                /\ i.seq = n
                /\ \/ Holds(log', i.op)
                   \/ pc'[i.conn] = "record" /\ ThisEdit(i.conn)' = i
  <2>1. PICK i \in issued :
           /\ i.seq = n
           /\ Holds(log, i.op) \/ (pc[i.conn] = "record" /\ ThisEdit(i.conn) = i)
    BY DEF NumbersUsed
  <2>2. i.conn \in Conn
    BY DEF TypeOK, Edit
  <2>3. ThisEdit(i.conn) = i => i.op = local[i.conn].op
    BY DEF ThisEdit
  <2> QED
    BY <2>1, <2>2, <2>3
<1>2. \A n \in 2..counter : \E i \in issued :
         /\ i.seq = n
         /\ \/ \E e \in log' : e.op = i.op
            \/ pc'[i.conn] = "record" /\ ThisEdit(i.conn)' = i
  BY <1>1 DEF Holds
<1> QED
  BY <1>2 DEF NumbersUsed, Holds, ThisEdit

(* A step of any other kind leaves the log and the handlers at record as   *)
(* they are.                                                               *)
LEMMA UsedElsewhere ==
    ASSUME TypeOK, NumbersUsed, UNCHANGED <<counter, issued, log>>,
           \A d \in Conn : pc[d] = "record" => pc'[d] = pc[d] /\ local'[d] = local[d]
    PROVE  NumbersUsed'
<1>1. \A op : Holds(log, op) => Holds(log', op)
  BY DEF Holds
<1>2. \A d \in Conn : pc[d] = "record" => pc'[d] = "record" /\ ThisEdit(d)' = ThisEdit(d)
  BY DEF ThisEdit
<1> QED
  BY <1>1, <1>2, UsedKept

LEMMA UsedNext ==
    ASSUME CallsAnswer, TypeOK, TypeOK', NumbersUsed, [Next]_vars
    PROVE  NumbersUsed'
<1>1. ASSUME NEW c \in Conn, Increment(c) PROVE NumbersUsed'
  <2> DEFINE edit == ThisEdit(c)'
  <2>1. /\ counter \in Nat /\ counter' = counter + 1
        /\ pc[c] = "increment" /\ pc'[c] = "record" /\ log' = log
        /\ issued' = issued \cup {edit} /\ edit.seq = counter' /\ edit.conn = c
        /\ \A d \in Conn \ {c} : pc'[d] = pc[d] /\ ThisEdit(d)' = ThisEdit(d)
    BY <1>1 DEF CallsAnswer, TypeOK, Increment, GoTo, ThisEdit
  <2>2. ASSUME NEW n \in 2..counter'
        PROVE  \E i \in issued' :
                  /\ i.seq = n
                  /\ \/ \E e \in log' : e.op = i.op
                     \/ pc'[i.conn] = "record" /\ ThisEdit(i.conn)' = i
    <3>1. CASE n = counter'
      BY <2>1, <3>1
    <3>2. CASE n # counter'
      <4>1. n \in 2..counter
        BY <2>1, <3>2
      <4>2. PICK i \in issued :
               /\ i.seq = n
               /\ Holds(log, i.op) \/ (pc[i.conn] = "record" /\ ThisEdit(i.conn) = i)
        BY <4>1 DEF NumbersUsed
      <4>3. i.conn \in Conn
        BY DEF TypeOK, Edit
      <4> QED
        BY <2>1, <4>2, <4>3 DEF Holds
    <3> QED
      BY <3>1, <3>2
  <2> QED
    BY <2>2 DEF NumbersUsed, Holds, ThisEdit
<1>2. ASSUME NEW c \in Conn, Record(c) PROVE NumbersUsed'
  <2>1. /\ UNCHANGED <<counter, issued, local>> /\ pc'[c] = "commit"
        /\ log' = ZAdd(log, local[c].op, local[c].seq)
        /\ \A d \in Conn \ {c} : pc'[d] = pc[d]
    BY <1>2 DEF TypeOK, Record, GoTo, ledger
  <2>2. Holds(log', local[c].op) /\ \A op : Holds(log, op) => Holds(log', op)
    <3> DEFINE entry == [op |-> local[c].op, score |-> local[c].seq]
    <3>1. entry \in log' /\ entry.op = local[c].op
      BY <2>1 DEF ZAdd
    <3>2. Holds(log', local[c].op)
      BY <3>1 DEF Holds
    <3>3. ASSUME NEW op, Holds(log, op) PROVE Holds(log', op)
      BY <2>1, <3>2, <3>3 DEF ZAdd, Holds
    <3> QED
      BY <3>2, <3>3
  <2> QED
    BY <2>1, <2>2, UsedKept DEF ThisEdit
<1>3. ASSUME NEW c \in Conn, pc[c] # "record",
             UNCHANGED <<counter, issued, log>>,
             \A d \in Conn \ {c} : pc'[d] = pc[d] /\ local'[d] = local[d]
      PROVE  NumbersUsed'
  BY <1>3, UsedElsewhere
<1>4. ASSUME NEW c \in Conn,
             \/ ReceiveOperation(c) \/ ReadDocument(c) \/ ReadSequence(c) \/ ReadLog(c)
             \/ Commit(c) \/ PromoteRole(c) \/ Ack(c) \/ PublishOperation(c)
             \/ ReceiveReplay(c) \/ ReadReplaySequence(c) \/ ReadReplayLog(c)
             \/ SendReplayed(c) \/ RefuseMessage(c) \/ NoticeDisconnect(c)
      PROVE  NumbersUsed'
  <2>1. CASE ReceiveOperation(c) \/ ReadDocument(c) \/ ReadSequence(c)
    BY <1>3, <2>1 DEF TypeOK, ReceiveOperation, ReadDocument, ReadSequence, Fail, Finish,
       GoTo, ledger
  <2>2. CASE ReadLog(c) \/ Commit(c) \/ PromoteRole(c)
    BY <1>3, <2>2 DEF TypeOK, ReadLog, Commit, PromoteRole, Fail, Disconnect, Finish,
       GoTo, ledger
  <2>3. CASE Ack(c) \/ PublishOperation(c)
    BY <1>3, <2>3 DEF TypeOK, Ack, PublishOperation, Disconnect, Finish, GoTo
  <2>4. CASE ReceiveReplay(c) \/ ReadReplaySequence(c) \/ ReadReplayLog(c) \/ SendReplayed(c)
    BY <1>3, <2>4 DEF TypeOK, ReceiveReplay, ReadReplaySequence, ReadReplayLog, SendReplayed,
       Disconnect, Finish, GoTo, ledger
  <2>5. CASE RefuseMessage(c) \/ NoticeDisconnect(c)
    BY <1>3, <2>5 DEF TypeOK, RefuseMessage, NoticeDisconnect, Fail, Disconnect, Finish,
       GoTo, ledger
  <2> QED
    BY <1>4, <2>1, <2>2, <2>3, <2>4, <2>5
<1>5. ASSUME \/ \E c \in Conn : ClientDrops(c) \/ Reap(c) \/ Connect(c) \/ Join(c)
             \/ DeleteDocument \/ UNCHANGED vars
      PROVE  NumbersUsed'
  <2>1. UNCHANGED <<counter, issued, log, pc, local>>
    BY <1>5 DEF ClientDrops, Reap, Connect, Join, DeleteDocument, vars, ledger
  <2> QED
    BY <2>1, UsedElsewhere
<1>6. \A c \in Conn : ~CallFails(c) /\ ~ReplyLost(c)
  BY DEF CallsAnswer, CallFails, ReplyLost
<1> QED
  BY <1>1, <1>2, <1>4, <1>5, <1>6 DEF Next, Handler

(* Where every call is answered, the log lacks only the numbers that       *)
(* handlers are about to record, or those of repeated edits.               *)
THEOREM GapsPending == Spec => []GapsArePending
<1> DEFINE Inv == TypeOK /\ Safe /\ (CallsAnswer => NumbersUsed)
<1>1. Init => Inv
  BY TypeInit, SafeInit DEF Init, NumbersUsed
<1>2. Inv /\ [Next]_vars => Inv'
  <2> SUFFICES ASSUME Inv, [Next]_vars PROVE Inv'
    OBVIOUS
  <2>1. TypeOK' /\ Safe'
    BY TypeNext, SafeNext
  <2>2. CallsAnswer => NumbersUsed'
    BY <2>1, UsedNext
  <2> QED
    BY <2>1, <2>2 DEF CallsAnswer
<1>3. Inv => GapsArePending
  <2> SUFFICES ASSUME Inv, CallsAnswer, \A i, j \in issued : i.op = j.op => i = j,
                      NEW n \in 2..counter
               PROVE  \/ \E e \in log : e.score = n
                      \/ \E c \in Conn : pc[c] = "record" /\ local[c].seq = n
    BY DEF GapsArePending, CallsAnswer
  <2>1. PICK i \in issued :
           /\ i.seq = n
           /\ Holds(log, i.op) \/ (pc[i.conn] = "record" /\ ThisEdit(i.conn) = i)
    BY DEF NumbersUsed
  <2>2. CASE Holds(log, i.op)
    <3>1. PICK e \in log : e.op = i.op
      BY <2>2 DEF Holds
    <3>2. PICK j \in issued : j.op = e.op /\ j.seq = e.score
      BY DEF Safe, LogIsIssued
    <3> QED
      BY <2>1, <3>1, <3>2
  <2>3. CASE pc[i.conn] = "record" /\ ThisEdit(i.conn) = i
    BY <2>1, <2>3 DEF TypeOK, Edit, ThisEdit
  <2> QED
    BY <2>1, <2>2, <2>3
<1> QED
  BY <1>1, <1>2, <1>3, PTL DEF Spec

-----------------------------------------------------------------------------
(* Functions defined by recursion over the naturals.                       *)

(* Every set of naturals that is not empty has a least element.            *)
LEMMA LeastNatural ==
    ASSUME NEW T, T \subseteq Nat, T # {}
    PROVE  \E x \in T : \A y \in T : x <= y
<1> DEFINE R == {ss \in Nat \X Nat : ss[1] < ss[2]}
<1>1. R = OpToRel(<, Nat)
  BY Zenon DEF OpToRel
<1>2. IsWellFoundedOn(R, Nat)
  BY ONLY <1>1, NatLessThanWellFounded, Zenon
<1>3. \E x \in T : \A y \in T : ~(<<y, x>> \in R)
  <2> HIDE DEF R
  <2> QED BY <1>2, WFMin, Zenon
<1>4. PICK x \in T : \A y \in T : ~(<<y, x>> \in R)
  BY <1>3
<1>5. \A y \in T : x <= y
  <2> SUFFICES ASSUME NEW y \in T PROVE x <= y
    OBVIOUS
  <2>1. x \in Nat /\ y \in Nat
    OBVIOUS
  <2>2. ~(<<y, x>> \in R)
    BY <1>4
  <2>3. y < x => <<y, x>> \in R
    BY <2>1
  <2> QED BY <2>1, <2>2, <2>3
<1> QED BY <1>5

(* A set of naturals that has 0, and the successor of each of its members, *)
(* has them all.                                                           *)
LEMMA AllNaturals ==
    ASSUME NEW T, 0 \in T, \A n \in Nat : n \in T => n + 1 \in T
    PROVE  \A n \in Nat : n \in T
<1> DEFINE M == Nat \ T
<1> SUFFICES ASSUME M # {} PROVE FALSE
  OBVIOUS
<1>1. M \subseteq Nat
  OBVIOUS
<1>2. PICK x \in M : \A y \in M : x <= y
  <2> HIDE DEF M
  <2> QED BY <1>1, LeastNatural
<1>3. x \in Nat /\ x # 0
  OBVIOUS
<1>4. x - 1 \in Nat /\ x - 1 + 1 = x
  BY <1>3
<1>5. x - 1 \in T
  BY <1>2, <1>4
<1> QED
  BY <1>4, <1>5

\* The functions with a given first value, each other value made of the one
\* before.
Recursion(S, first, step) ==
    {f \in [Nat -> S] : f[0] = first /\ \A n \in Nat : f[n + 1] = step[n][f[n]]}

(* A definition by recursion over the naturals defines a function.         *)
LEMMA RecursionExists ==
    ASSUME NEW S, NEW first \in S, NEW step \in [Nat -> [S -> S]]
    PROVE  Recursion(S, first, step) # {}
<1> DEFINE Follows(f, n) == f[0] = first /\ \A k \in 0..n - 1 : f[k + 1] = step[k][f[k]]
           Start(n) == {f \in [0..n -> S] : Follows(f, n)}
           Some == {n \in Nat : Start(n) # {}}
           One == {n \in Nat : \A f, g \in Start(n) : f[n] = g[n]}
<1>1. 0 \in Some
  <2>1. [k \in 0..0 |-> first] \in Start(0)
    OBVIOUS
  <2> QED BY <2>1
<1>2. \A n \in Nat : n \in Some => n + 1 \in Some
  <2> SUFFICES ASSUME NEW n \in Nat, n \in Some PROVE n + 1 \in Some
    OBVIOUS
  <2>1. PICK f \in [0..n -> S] : Follows(f, n)
    OBVIOUS
  <2> DEFINE g == [k \in 0..n + 1 |-> IF k = n + 1 THEN step[n][f[n]] ELSE f[k]]
  <2>2. g \in [0..n + 1 -> S]
    OBVIOUS
  <2>3. g[0] = first
    BY <2>1
  <2>4. \A k \in 0..n : g[k + 1] = step[k][g[k]]
    <3> SUFFICES ASSUME NEW k \in 0..n PROVE g[k + 1] = step[k][g[k]]
      OBVIOUS
    <3>1. CASE k = n
      <4>1. n \in 0..n + 1 /\ n + 1 \in 0..n + 1 /\ n # n + 1
        OBVIOUS
      <4>2. g[n + 1] = step[n][f[n]] /\ g[n] = f[n]
        BY <4>1
      <4> QED BY <3>1, <4>2
    <3>2. CASE k # n
      <4>1. k \in 0..n - 1 /\ k # n + 1 /\ k + 1 # n + 1
        BY <3>2
      <4>2. g[k + 1] = f[k + 1] /\ g[k] = f[k]
        BY <4>1
      <4> QED BY <2>1, <4>1, <4>2
    <3> QED BY <3>1, <3>2
  <2>5. Follows(g, n + 1)
    <3>1. 0..(n + 1) - 1 = 0..n
      OBVIOUS
    <3> HIDE DEF g
    <3> QED BY <2>3, <2>4, <3>1
  <2>6. g \in Start(n + 1)
    <3> HIDE DEF g, Follows
    <3> QED BY <2>2, <2>5
  <2> QED
    <3> HIDE DEF g, Start
    <3> QED BY <2>6
<1>3. 0 \in One
  OBVIOUS
<1>4. \A n \in Nat : \A f \in Start(n + 1) : [k \in 0..n |-> f[k]] \in Start(n)
  <2> SUFFICES ASSUME NEW n \in Nat, NEW f \in Start(n + 1)
               PROVE  [k \in 0..n |-> f[k]] \in Start(n)
    OBVIOUS
  <2>1. f \in [0..n + 1 -> S] /\ Follows(f, n + 1)
    OBVIOUS
  <2>2. [k \in 0..n |-> f[k]] \in [0..n -> S]
    BY <2>1
  <2>3. Follows([k \in 0..n |-> f[k]], n)
    BY <2>1
  <2> QED BY <2>2, <2>3
<1>5. \A n \in Nat : n \in One => n + 1 \in One
  <2> SUFFICES ASSUME NEW n \in Nat, n \in One,
                      NEW f \in Start(n + 1), NEW g \in Start(n + 1)
               PROVE  f[n + 1] = g[n + 1]
    <3> HIDE DEF Start
    <3> QED OBVIOUS
  <2>1. [k \in 0..n |-> f[k]][n] = [k \in 0..n |-> g[k]][n]
    <3> HIDE DEF Start
    <3> QED BY <1>4
  <2>2. f[n] = g[n]
    BY <2>1
  <2>3. f[n + 1] = step[n][f[n]] /\ g[n + 1] = step[n][g[n]]
    OBVIOUS
  <2> QED BY <2>2, <2>3
<1>6. \A n \in Nat : n \in Some
  <2> HIDE DEF Some
  <2> QED BY <1>1, <1>2, AllNaturals
<1>7. \A n \in Nat : n \in One
  <2> HIDE DEF One
  <2> QED BY <1>3, <1>5, AllNaturals
<1> DEFINE At(n) == CHOOSE f \in Start(n) : TRUE
           F == [n \in Nat |-> At(n)[n]]
<1>8. \A n \in Nat : At(n) \in Start(n)
  <2> HIDE DEF Start
  <2> QED BY <1>6
<1>9. F \in [Nat -> S]
  <2> HIDE DEF At
  <2>1. \A n \in Nat : At(n)[n] \in S
    BY <1>8
  <2> QED BY <2>1
<1>10. F[0] = first
  <2> HIDE DEF At
  <2> QED BY <1>8
<1>11. \A n \in Nat : F[n + 1] = step[n][F[n]]
  <2> SUFFICES ASSUME NEW n \in Nat PROVE F[n + 1] = step[n][F[n]]
    OBVIOUS
  <2> HIDE DEF At
  <2>1. At(n + 1) \in Start(n + 1) /\ At(n) \in Start(n)
    BY <1>8
  <2>2. At(n + 1)[n] = At(n)[n]
    <3>1. [k \in 0..n |-> At(n + 1)[k]] \in Start(n)
      BY <2>1, <1>4
    <3>2. [k \in 0..n |-> At(n + 1)[k]][n] = At(n)[n]
      <4> HIDE DEF Start
      <4> QED BY <3>1, <2>1, <1>7
    <3> QED BY <3>2
  <2>3. At(n + 1)[n + 1] = step[n][At(n + 1)[n]]
    BY <2>1
  <2> QED BY <2>2, <2>3
<1> QED
  <2> HIDE DEF F
  <2> QED BY <1>9, <1>10, <1>11 DEF Recursion

-----------------------------------------------------------------------------
(* The replay of a set of numbered edits.                                  *)

(* The text after the edit with number n, if there is one, when doc is the *)
(* text before it.                                                         *)
Applied(edits, n, doc) ==
    IF n <= 1 THEN InitialContent
    ELSE IF \E i \in edits : i.seq = n
         THEN ApplyOperation(doc, (CHOOSE i \in edits : i.seq = n).op)
         ELSE doc

IsReplay(edits, text) == text = [n \in Nat |-> Applied(edits, n, text[n - 1])]

Unique(edits) == \A i, j \in edits : i.seq = j.seq => i = j

(* One edit makes a document of a document.                                *)
LEMMA AppliedType ==
    ASSUME NEW edits, edits \subseteq Edit, NEW n \in Nat, NEW doc \in Document
    PROVE  Applied(edits, n, doc) \in Document
<1>1. CASE \E i \in edits : i.seq = n
  <2> DEFINE i == CHOOSE i \in edits : i.seq = n
  <2>1. i \in edits
    BY <1>1
  <2>2. i.op \in Operation
    BY <2>1 DEF Edit
  <2> HIDE DEF i
  <2>3. ApplyOperation(doc, i.op) \in Document
    BY <2>2, ApplyType
  <2> QED
    BY <2>3, OperationsAssumption DEF Applied, i
<1>2. CASE ~\E i \in edits : i.seq = n
  BY <1>2, OperationsAssumption DEF Applied
<1> QED
  BY <1>1, <1>2

(* Every set of edits has a replay.                                        *)
LEMMA ReplayExists ==
    ASSUME NEW edits, edits \subseteq Edit
    PROVE  \E text \in [Nat -> Document] : IsReplay(edits, text)
<1> DEFINE step == [n \in Nat |-> [doc \in Document |-> Applied(edits, n + 1, doc)]]
<1>1. step \in [Nat -> [Document -> Document]]
  <2>1. \A n \in Nat, doc \in Document : Applied(edits, n + 1, doc) \in Document
    BY AppliedType
  <2> QED
    BY <2>1
<1>2. InitialContent \in Document
  BY OperationsAssumption
<1>3. PICK text \in [Nat -> Document] :
         text[0] = InitialContent /\ \A n \in Nat : text[n + 1] = step[n][text[n]]
  <2> HIDE DEF step
  <2>1. Recursion(Document, InitialContent, step) # {}
    BY <1>1, <1>2, RecursionExists
  <2> QED
    BY <2>1 DEF Recursion
<1>4. \A n \in Nat : text[n + 1] = Applied(edits, n + 1, text[n])
  BY <1>3
<1>5. \A n \in Nat : text[n] = Applied(edits, n, text[n - 1])
  <2> SUFFICES ASSUME NEW n \in Nat PROVE text[n] = Applied(edits, n, text[n - 1])
    OBVIOUS
  <2>1. CASE n = 0
    BY <1>3, <2>1 DEF Applied
  <2>2. CASE n # 0
    <3>1. n - 1 \in Nat /\ n - 1 + 1 = n
      BY <2>2
    <3> QED
      BY <1>4, <3>1
  <2> QED
    BY <2>1, <2>2
<1>6. text = [n \in Nat |-> Applied(edits, n, text[n - 1])]
  BY <1>3, <1>5
<1> QED
  BY <1>6 DEF IsReplay

(* The text that ContentIsReplay speaks of is the replay of the committed  *)
(* edits, before and after a step.                                         *)
LEMMA ReplayedIsReplay ==
    /\ committed \subseteq Edit => IsReplay(committed, Replayed)
    /\ committed' \subseteq Edit => IsReplay(committed', Replayed')
<1>1. Replayed = CHOOSE text : IsReplay(committed, text)
  BY DEF Replayed, IsReplay, Applied
<1>2. Replayed' = CHOOSE text : IsReplay(committed', text)
  BY DEF Replayed, IsReplay, Applied
<1> QED
  BY <1>1, <1>2, ReplayExists

(* A replay goes from one text to the next by at most one edit.            *)
LEMMA ReplayStep ==
    ASSUME NEW edits, edits \subseteq Edit, Unique(edits),
           NEW text, IsReplay(edits, text), NEW n \in Nat
    PROVE  /\ n <= 1 => text[n] = InitialContent
           /\ \A i \in edits :
                 n > 1 /\ i.seq = n => text[n] = ApplyOperation(text[n - 1], i.op)
           /\ n > 1 /\ (\A i \in edits : i.seq # n) => text[n] = text[n - 1]
<1>1. text[n] = Applied(edits, n, text[n - 1])
  BY DEF IsReplay
<1>2. ASSUME NEW i \in edits, n > 1, i.seq = n
      PROVE  text[n] = ApplyOperation(text[n - 1], i.op)
  <2>1. (CHOOSE j \in edits : j.seq = n) = i
    BY <1>2 DEF Unique
  <2>2. ~(n <= 1) /\ \E j \in edits : j.seq = n
    BY <1>2
  <2>3. Applied(edits, n, text[n - 1])
           = ApplyOperation(text[n - 1], (CHOOSE j \in edits : j.seq = n).op)
    BY <2>2, Zenon DEF Applied
  <2> QED
    BY <1>1, <2>1, <2>3
<1> QED
  BY <1>1, <1>2 DEF Applied

(* Above the last number, the replay does not change.                      *)
LEMMA ReplayEnds ==
    ASSUME NEW edits, edits \subseteq Edit, Unique(edits),
           NEW text, IsReplay(edits, text),
           NEW m \in Nat, m >= 1, \A i \in edits : i.seq <= m
    PROVE  \A n \in Nat : n >= m => text[n] = text[m]
<1> DEFINE T == {n \in Nat : n >= m => text[n] = text[m]}
<1>1. 0 \in T
  OBVIOUS
<1>2. ASSUME NEW n \in Nat, n \in T PROVE n + 1 \in T
  <2>1. CASE n >= m
    <3>1. \A i \in edits : i.seq # n + 1
      BY <2>1 DEF Edit
    <3>2. n + 1 > 1 /\ n + 1 \in Nat /\ n + 1 - 1 = n
      BY <2>1
    <3>3. text[n + 1] = text[n]
      BY <3>1, <3>2, ReplayStep
    <3> QED
      BY <1>2, <2>1, <3>3
  <2>2. CASE n < m
    BY <2>2
  <2> QED
    BY <2>1, <2>2
<1>3. \A n \in Nat : n \in T
  <2> HIDE DEF T
  <2> QED
    BY <1>1, <1>2, AllNaturals
<1> QED
  BY <1>3

(* Two sets of edits that agree up to a number have the same replay up to  *)
(* that number.                                                            *)
LEMMA ReplaysAgree ==
    ASSUME NEW edits, edits \subseteq Edit, Unique(edits),
           NEW others, others \subseteq Edit, Unique(others),
           NEW text, IsReplay(edits, text), NEW other, IsReplay(others, other),
           NEW m \in Nat,
           \A i \in Edit : i.seq <= m => (i \in edits <=> i \in others)
    PROVE  \A n \in 0..m : text[n] = other[n]
<1> DEFINE T == {n \in Nat : n <= m => text[n] = other[n]}
<1>1. 0 \in T
  BY ReplayStep
<1>2. ASSUME NEW n \in Nat, n \in T PROVE n + 1 \in T
  <2> SUFFICES ASSUME n + 1 <= m PROVE text[n + 1] = other[n + 1]
    OBVIOUS
  <2>1. n + 1 \in Nat /\ n + 1 - 1 = n /\ text[n] = other[n]
    BY <1>2
  <2>2. CASE n + 1 <= 1
    BY <2>1, <2>2, ReplayStep
  <2>3. CASE n + 1 > 1 /\ \E i \in edits : i.seq = n + 1
    <3>1. PICK i \in edits : i.seq = n + 1
      BY <2>3
    <3>2. i \in others
      BY <3>1
    <3>3. text[n + 1] = ApplyOperation(text[n], i.op)
      BY <2>1, <2>3, <3>1, ReplayStep
    <3>4. other[n + 1] = ApplyOperation(other[n], i.op)
      BY <2>1, <2>3, <3>1, <3>2, ReplayStep
    <3> QED
      BY <2>1, <3>3, <3>4
  <2>4. CASE n + 1 > 1 /\ ~\E i \in edits : i.seq = n + 1
    <3>1. \A i \in others : i.seq # n + 1
      BY <2>4
    <3>2. text[n + 1] = text[n]
      BY <2>1, <2>4, ReplayStep
    <3>3. other[n + 1] = other[n]
      BY <2>1, <2>4, <3>1, ReplayStep
    <3> QED
      BY <2>1, <3>2, <3>3
  <2> QED
    BY <2>1, <2>2, <2>3, <2>4
<1>3. \A n \in Nat : n \in T
  <2> HIDE DEF T
  <2> QED
    BY <1>1, <1>2, AllNaturals
<1> QED
  BY <1>3

(* An edit with a number above all others is the last one of the replay.   *)
LEMMA ReplayGrows ==
    ASSUME NEW edits, edits \subseteq Edit, Unique(edits), NEW e \in Edit,
           NEW text, IsReplay(edits, text),
           NEW longer, IsReplay(edits \cup {e}, longer),
           NEW m \in Nat, m >= e.seq, e.seq > 1, \A i \in edits : i.seq < e.seq
    PROVE  longer[m] = ApplyOperation(text[m], e.op)
<1> DEFINE grown == edits \cup {e}
<1>1. grown \subseteq Edit /\ Unique(grown) /\ e.seq \in Nat
  BY DEF Edit, Unique
<1>2. \A i \in grown : i \in Edit /\ i.seq \in Nat /\ i.seq <= e.seq
  BY DEF Edit
<1>3. e.seq - 1 \in Nat /\ e.seq - 1 >= 1
  BY <1>1
<1>4. \A i \in edits : i.seq <= e.seq - 1
  BY <1>2
<1>5. longer[m] = longer[e.seq]
  <2> HIDE DEF grown
  <2>1. IsReplay(grown, longer)
    BY DEF grown
  <2> QED
    BY <1>1, <1>2, <2>1, ReplayEnds
<1>6. longer[e.seq] = ApplyOperation(longer[e.seq - 1], e.op)
  <2>1. e \in grown /\ IsReplay(grown, longer)
    OBVIOUS
  <2> HIDE DEF grown
  <2> QED
    BY <1>1, <2>1, ReplayStep
<1>7. longer[e.seq - 1] = text[e.seq - 1]
  <2>1. \A i \in Edit : i.seq <= e.seq - 1 => (i \in edits <=> i \in grown)
    BY <1>1 DEF Edit
  <2>2. IsReplay(grown, longer)
    OBVIOUS
  <2>3. e.seq - 1 \in 0..e.seq - 1
    BY <1>3
  <2> HIDE DEF grown
  <2> QED
    BY <1>1, <1>3, <2>1, <2>2, <2>3, ReplaysAgree
<1>8. text[e.seq - 1] = text[m]
  <2>1. m >= e.seq - 1
    BY <1>1
  <2> QED
    BY <1>3, <1>4, <2>1, ReplayEnds
<1> QED
  BY <1>5, <1>6, <1>7, <1>8

-----------------------------------------------------------------------------
(* One edit at a time.                                                     *)

\* The awaits of process_operation_event between the read of the document and
\* the return of its commit.
Drafting == {"sequence", "log", "increment", "record", "commit"}

OneAtATime == \A c, d \in Conn : pc[c] \in Drafting /\ pc[d] \in Drafting => c = d

(* What a handler read is still what is stored, the number it was given is *)
(* above those of the committed edits, and the text is their replay.       *)
Serial ==
    /\ counter >= 1
    /\ committed \subseteq issued
    /\ \A c \in Conn : pc[c] \in Drafting => local[c].snap = stored.content
    /\ \A c \in Conn : pc[c] \in Reserving =>
          local[c].seq > 1 /\ \A i \in committed : i.seq < local[c].seq
    /\ ContentIsReplay

(* Where no edit is committed, the replay up to a later number is the same *)
(* text.                                                                   *)
LEMMA ReplayKept ==
    ASSUME TypeOK, TypeOK', Safe, Serial,
           committed' = committed, counter' >= counter, stored'.content = stored.content
    PROVE  ContentIsReplay'
<1>1. counter \in Nat /\ counter' \in Nat /\ committed \subseteq Edit
  BY DEF TypeOK
<1>2. Replayed' = Replayed
  BY DEF Replayed
<1>3. IsReplay(committed, Replayed)
  BY <1>1, ReplayedIsReplay
<1>4. Unique(committed) /\ \A i \in committed : i.seq <= counter
  BY DEF Safe, Serial, NumbersAreUnique, IssuedBelowCounter, Unique
<1>5. Replayed[counter'] = Replayed[counter]
  BY <1>1, <1>3, <1>4, ReplayEnds DEF Serial
<1> QED
  BY <1>2, <1>5 DEF Serial, ContentIsReplay

(* A step that commits nothing, when a handler that begins to draft has    *)
(* just read the text, and one that is given a number has the last one.    *)
LEMMA SerialKept ==
    ASSUME TypeOK, TypeOK', Safe, Serial,
           committed' = committed, issued \subseteq issued',
           counter' >= counter, stored'.content = stored.content,
           \A d \in Conn : pc'[d] \in Drafting =>
               \/ pc[d] \in Drafting /\ local'[d].snap = local[d].snap
               \/ local'[d].snap = stored.content,
           \A d \in Conn : pc'[d] \in Reserving =>
               \/ pc[d] \in Reserving /\ local'[d].seq = local[d].seq
               \/ local'[d].seq > counter
    PROVE  Serial'
<1>1. counter \in Nat /\ counter' \in Nat /\ committed \subseteq Edit
  BY DEF TypeOK
<1>2. counter' >= 1 /\ committed' \subseteq issued'
  BY <1>1 DEF Serial
<1>3. \A d \in Conn : pc'[d] \in Drafting => local'[d].snap = stored'.content
  BY DEF Serial
<1>4. ASSUME NEW d \in Conn, pc'[d] \in Reserving
      PROVE  local'[d].seq > 1 /\ \A i \in committed : i.seq < local'[d].seq
  <2>1. CASE pc[d] \in Reserving /\ local'[d].seq = local[d].seq
    BY <2>1 DEF Serial
  <2>2. CASE local'[d].seq > counter
    <3>1. local'[d].seq \in Nat /\ \A i \in committed : i.seq \in Nat /\ i.seq <= counter
      BY DEF TypeOK, Local, Edit, Safe, Serial, IssuedBelowCounter
    <3> QED
      BY <1>1, <2>2, <3>1 DEF Serial
  <2> QED
    BY <1>4, <2>1, <2>2
<1>5. ContentIsReplay'
  BY ReplayKept
<1> QED
  BY <1>2, <1>3, <1>4, <1>5 DEF Serial

(* One handler's step that reads or ends, and commits nothing.             *)
LEMMA SerialMove ==
    ASSUME TypeOK, TypeOK', Safe, Serial, NEW c \in Conn, NEW step \in PC,
           GoTo(c, step), \A d \in Conn \ {c} : local'[d] = local[d],
           committed' = committed, issued' = issued,
           counter' >= counter, stored'.content = stored.content,
           \/ step \notin Drafting
           \/ /\ step \notin Reserving /\ pc[c] \in Drafting
              /\ local'[c].snap = local[c].snap
           \/ step \notin Reserving /\ local'[c].snap = stored.content
    PROVE  Serial'
<1>1. pc'[c] = step /\ \A d \in Conn \ {c} : pc'[d] = pc[d]
  BY DEF GoTo, TypeOK
<1>2. Reserving \subseteq Drafting
  BY DEF Reserving, Drafting
<1>3. \A d \in Conn : pc'[d] \in Drafting =>
         \/ pc[d] \in Drafting /\ local'[d].snap = local[d].snap
         \/ local'[d].snap = stored.content
  BY <1>1
<1>4. \A d \in Conn : pc'[d] \in Reserving =>
         pc[d] \in Reserving /\ local'[d].seq = local[d].seq
  BY <1>1, <1>2
<1> QED
  BY <1>3, <1>4, SerialKept

(* The handler that was alone in drafting commits: its edit is the last    *)
(* one of the replay.                                                      *)
LEMMA SerialCommits ==
    ASSUME TypeOK, TypeOK', Safe, DraftIsOfEdit, Serial, OneAtATime,
           NEW c \in Conn, pc[c] = "commit",
           stored' = RowWith(local[c]),
           committed' = committed \cup {ThisEdit(c)},
           UNCHANGED <<counter, issued>>,
           pc'[c] \notin Drafting,
           \A d \in Conn \ {c} : pc'[d] = pc[d]
    PROVE  Serial'
<1>1. /\ counter \in Nat /\ committed \subseteq Edit /\ committed' \subseteq Edit
      /\ ThisEdit(c) \in Edit /\ ThisEdit(c) \in issued
      /\ ThisEdit(c).seq = local[c].seq /\ ThisEdit(c).op = local[c].op
  BY ThisEditType DEF TypeOK, Safe, HandlersProgress, Numbered, ThisEdit
<1>2. \A d \in Conn : pc'[d] \notin Drafting
  BY DEF OneAtATime, Drafting
<1>3. Reserving \subseteq Drafting
  BY DEF Reserving, Drafting
<1>4. Unique(committed) /\ ThisEdit(c).seq <= counter
  BY <1>1 DEF Safe, Serial, NumbersAreUnique, IssuedBelowCounter, Unique
<1>5. ThisEdit(c).seq > 1 /\ \A i \in committed : i.seq < ThisEdit(c).seq
  BY <1>1 DEF Serial, Reserving
<1>6. stored'.content = ApplyOperation(stored.content, ThisEdit(c).op)
  <2>1. /\ local[c].snap = stored.content
        /\ local[c].draft = ApplyOperation(local[c].snap, local[c].op)
    BY DEF Serial, Drafting, DraftIsOfEdit
  <2>2. stored'.content = IF local[c].draft = local[c].snap THEN stored.content
                          ELSE local[c].draft
    BY DEF RowWith
  <2> QED
    BY <1>1, <2>1, <2>2
<1>7. Replayed'[counter] = ApplyOperation(Replayed[counter], ThisEdit(c).op)
  <2>1. IsReplay(committed, Replayed) /\ IsReplay(committed \cup {ThisEdit(c)}, Replayed')
    BY <1>1, ReplayedIsReplay
  <2>2. counter >= ThisEdit(c).seq
    BY <1>1, <1>4 DEF Edit
  <2>3. ASSUME NEW e \in Edit, NEW text, NEW longer, NEW m \in Nat,
               IsReplay(committed, text), IsReplay(committed \cup {e}, longer),
               m >= e.seq, e.seq > 1, \A i \in committed : i.seq < e.seq
        PROVE  longer[m] = ApplyOperation(text[m], e.op)
    BY <1>1, <1>4, <2>3, ReplayGrows, SMTT(40)
  <2> QED
    BY <1>1, <1>5, <2>1, <2>2, <2>3
<1>8. ContentIsReplay'
  BY <1>6, <1>7 DEF Serial, ContentIsReplay
<1> QED
  BY <1>1, <1>2, <1>3, <1>8 DEF Serial

(* A handler ends and commits nothing.                                     *)
LEMMA SerialFinish ==
    ASSUME TypeOK, TypeOK', Safe, Serial, NEW c \in Conn, Finish(c),
           committed' = committed, issued' = issued,
           counter' >= counter, stored'.content = stored.content
    PROVE  Serial'
<1>1. GoTo(c, "idle") /\ \A d \in Conn \ {c} : local'[d] = local[d]
  BY DEF Finish, TypeOK
<1>2. "idle" \in PC /\ "idle" \notin Drafting
  BY DEF PC, Drafting
<1> QED
  BY <1>1, <1>2, SerialMove

(* Up to the number: the text is read from the row, and kept.              *)
LEMMA SerialReading ==
    ASSUME TypeOK, TypeOK', Safe, Serial, NEW c \in Conn,
           \/ ReceiveOperation(c) \/ ReadDocument(c) \/ ReadSequence(c) \/ ReadLog(c)
    PROVE  Serial'
<1>1. /\ committed' = committed /\ issued' = issued
      /\ counter \in Nat /\ counter' >= counter /\ stored'.content = stored.content
  <2>1. UNCHANGED <<counter, stored, ledger>>
    BY DEF ReceiveOperation, ReadDocument, ReadSequence, ReadLog
  <2> QED
    BY <2>1 DEF ledger, TypeOK
<1>2. {"document", "sequence", "log", "increment"} \subseteq PC \ Reserving
  BY DEF PC, Editing, Reserving
<1>3. CASE Finish(c)
  BY <1>1, <1>3, SerialFinish
<1>4. CASE ReceiveOperation(c)
  <2>1. GoTo(c, "document") /\ \A d \in Conn \ {c} : local'[d] = local[d]
    BY <1>4 DEF ReceiveOperation, TypeOK
  <2>2. "document" \notin Drafting
    BY DEF Drafting
  <2> QED
    BY <1>1, <1>2, <2>1, <2>2, SerialMove
<1>5. CASE ReadDocument(c) /\ ~Fail(c)
  <2>1. /\ GoTo(c, "sequence") /\ local' = [local EXCEPT ![c].snap = stored.content]
    BY <1>5 DEF ReadDocument
  <2>2. /\ \A d \in Conn \ {c} : local'[d] = local[d]
        /\ local'[c].snap = stored.content
    BY <2>1 DEF TypeOK, Local
  <2> QED
    BY <1>1, <1>2, <2>1, <2>2, SerialMove
<1>6. CASE /\ GoTo(c, "log") \/ GoTo(c, "increment")
           /\ pc[c] \in {"sequence", "log"}
           /\ \A d \in Conn \ {c} : local'[d] = local[d]
           /\ local'[c].snap = local[c].snap
  <2>1. pc[c] \in Drafting
    BY <1>6 DEF Drafting
  <2>2. CASE GoTo(c, "log")
    BY <1>1, <1>2, <1>6, <2>1, <2>2, SerialMove
  <2>3. CASE GoTo(c, "increment")
    BY <1>1, <1>2, <1>6, <2>1, <2>3, SerialMove
  <2> QED
    BY <1>6, <2>2, <2>3
<1>7. CASE ReadSequence(c) /\ ~Fail(c)
  <2>1. pc[c] = "sequence"
    BY <1>7 DEF ReadSequence
  <2>2. CASE GoTo(c, "log") /\ local' = [local EXCEPT ![c].curr = counter]
    BY <1>6, <2>1, <2>2 DEF TypeOK, Local
  <2>3. CASE /\ GoTo(c, "increment")
             /\ local' = [local EXCEPT ![c].curr = counter,
                             ![c].draft = ApplyOperation(local[c].snap, local[c].op)]
    BY <1>6, <2>1, <2>3 DEF TypeOK, Local
  <2> QED
    BY <1>7, <2>2, <2>3 DEF ReadSequence
<1>8. CASE ReadLog(c) /\ ~Finish(c)
  <2>1. pc[c] = "log"
    BY <1>8 DEF ReadLog
  <2>2. PICK op : /\ GoTo(c, "increment")
                  /\ local' = [local EXCEPT ![c].op = op,
                                  ![c].draft = ApplyOperation(local[c].snap, op)]
    BY <1>8 DEF ReadLog, Fail, Disconnect
  <2> QED
    BY <1>6, <2>1, <2>2 DEF TypeOK, Local
<1> QED
  BY <1>3, <1>4, <1>5, <1>7, <1>8 DEF Fail

(* INCR: the new number is above all others.                               *)
LEMMA SerialIncrement ==
    ASSUME TypeOK, TypeOK', Safe, Serial, NEW c \in Conn, Increment(c)
    PROVE  Serial'
<1>1. /\ committed' = committed /\ issued \subseteq issued'
      /\ stored'.content = stored.content
      /\ counter \in Nat /\ counter' > counter /\ counter' >= counter
  BY DEF Increment, TypeOK
<1>2. pc[c] = "increment" /\ \A d \in Conn \ {c} : pc'[d] = pc[d]
  BY DEF Increment, GoTo, TypeOK
<1>3. /\ local' = [local EXCEPT ![c].seq = counter']
      /\ \A d \in Conn : local'[d].snap = local[d].snap
      /\ \A d \in Conn \ {c} : local'[d] = local[d]
  BY DEF Increment, TypeOK, Local
<1>4. local'[c].seq > counter
  BY <1>1, <1>3 DEF TypeOK, Local
<1>5. \A d \in Conn : pc'[d] \in Drafting =>
         pc[d] \in Drafting /\ local'[d].snap = local[d].snap
  BY <1>2, <1>3 DEF Drafting
<1>6. \A d \in Conn : pc'[d] \in Reserving =>
         \/ pc[d] \in Reserving /\ local'[d].seq = local[d].seq
         \/ local'[d].seq > counter
  BY <1>2, <1>3, <1>4
<1> QED
  BY <1>1, <1>5, <1>6, SerialKept

(* ZADD changes nothing that the replay is made of.                        *)
LEMMA SerialRecord ==
    ASSUME TypeOK, TypeOK', Safe, Serial, NEW c \in Conn, Record(c)
    PROVE  Serial'
<1>1. /\ committed' = committed /\ issued' = issued /\ stored' = stored
      /\ counter \in Nat /\ counter' = counter /\ local' = local
  BY DEF Record, ledger, TypeOK
<1>2. pc[c] = "record" /\ \A d \in Conn \ {c} : pc'[d] = pc[d]
  BY DEF Record, GoTo, TypeOK
<1>3. \A d \in Conn :
         /\ pc'[d] \in Drafting => pc[d] \in Drafting /\ local'[d].snap = local[d].snap
         /\ pc'[d] \in Reserving => pc[d] \in Reserving /\ local'[d].seq = local[d].seq
  BY <1>1, <1>2 DEF Drafting, Reserving
<1> QED
  BY <1>1, <1>3, SerialKept

(* The commit, or a row that is gone.                                      *)
LEMMA SerialCommit ==
    ASSUME TypeOK, TypeOK', Safe, DraftIsOfEdit, Serial, OneAtATime,
           NEW c \in Conn, Commit(c)
    PROVE  Serial'
<1>1. CASE Fail(c) /\ UNCHANGED <<stored, committed>>
  <2>1. Finish(c) /\ counter' = counter /\ issued' = issued /\ counter \in Nat
    BY <1>1 DEF Commit, Fail, TypeOK
  <2> QED
    BY <1>1, <2>1, SerialFinish
<1>2. CASE /\ stored' = RowWith(local[c])
           /\ committed' = committed \cup {ThisEdit(c)}
           /\ GoTo(c, IF c \in Author THEN "ack" ELSE "role")
  <2>1. pc'[c] \in {"ack", "role"} /\ \A d \in Conn \ {c} : pc'[d] = pc[d]
    BY <1>2 DEF GoTo, TypeOK
  <2>2. pc[c] = "commit" /\ UNCHANGED <<counter, issued>>
    BY DEF Commit
  <2> QED
    BY <1>2, <2>1, <2>2, SerialCommits DEF Drafting
<1> QED
  BY <1>1, <1>2 DEF Commit

(* After the commit.                                                       *)
LEMMA SerialAnswering ==
    ASSUME TypeOK, TypeOK', Safe, Serial, NEW c \in Conn,
           PromoteRole(c) \/ Ack(c) \/ PublishOperation(c)
    PROVE  Serial'
<1>1. /\ committed' = committed /\ issued' = issued /\ stored' = stored
      /\ counter \in Nat /\ counter' >= counter
  BY DEF PromoteRole, Ack, PublishOperation, ledger, TypeOK
<1>2. CASE Finish(c)
  BY <1>1, <1>2, SerialFinish
<1>3. CASE GoTo(c, "ack") /\ local' = local
  <2>1. "ack" \in PC \ Drafting
    BY DEF PC, Editing, Drafting
  <2> QED
    BY <1>1, <1>3, <2>1, SerialMove
<1>4. CASE GoTo(c, "publish") /\ local' = local
  <2>1. "publish" \in PC \ Drafting
    BY DEF PC, Editing, Drafting
  <2> QED
    BY <1>1, <1>4, <2>1, SerialMove
<1> QED
  BY <1>2, <1>3, <1>4 DEF PromoteRole, Ack, PublishOperation, Disconnect

(* A replay reads.                                                         *)
LEMMA SerialReplaying ==
    ASSUME TypeOK, TypeOK', Safe, Serial, NEW c \in Conn,
           \/ ReceiveReplay(c) \/ ReadReplaySequence(c)
           \/ ReadReplayLog(c) \/ SendReplayed(c)
    PROVE  Serial'
<1>1. /\ committed' = committed /\ issued' = issued /\ stored' = stored
      /\ counter \in Nat /\ counter' >= counter
  <2>1. UNCHANGED <<counter, stored, ledger>>
    BY DEF ReceiveReplay, ReadReplaySequence, ReadReplayLog, SendReplayed
  <2> QED
    BY <2>1 DEF ledger, TypeOK
<1>2. CASE Finish(c)
  BY <1>1, <1>2, SerialFinish
<1>3. ASSUME NEW step \in {"replay sequence", "replay log", "replay send"},
             GoTo(c, step), \A d \in Conn \ {c} : local'[d] = local[d]
      PROVE  Serial'
  <2>1. step \in PC \ Drafting
    BY DEF PC, Replaying, Drafting
  <2> QED
    BY <1>1, <1>3, <2>1, SerialMove
<1>4. CASE ReceiveReplay(c) \/ ReadReplaySequence(c) \/ ReadReplayLog(c)
  BY <1>3, <1>4 DEF ReceiveReplay, ReadReplaySequence, ReadReplayLog, TypeOK
<1>5. CASE SendReplayed(c) /\ pc' = pc
  <2>1. pc[c] \notin Drafting /\ pc[c] \notin Reserving
    BY <1>5 DEF SendReplayed, Drafting, Reserving
  <2>2. CASE \A d \in Conn \ {c} : local'[d] = local[d]
    BY <1>1, <1>5, <2>1, <2>2, SerialKept
  <2>3. CASE Finish(c)
    BY <1>2, <2>3
  <2> QED
    BY <1>5, <2>2, <2>3 DEF SendReplayed, TypeOK, Disconnect
<1> QED
  BY <1>2, <1>4, <1>5 DEF SendReplayed, Disconnect

(* A call that fails, or one that took effect before its reply was lost.   *)
LEMMA SerialFailure ==
    ASSUME TypeOK, TypeOK', Safe, DraftIsOfEdit, Serial, OneAtATime, NEW c \in Conn,
           CallFails(c) \/ ReplyLost(c)
    PROVE  Serial'
<1>1. Finish(c) /\ issued' = issued /\ counter \in Nat /\ counter' >= counter
  <2>1. Finish(c) /\ issued' = issued /\ (counter' = counter \/ counter' = counter + 1)
    BY DEF CallFails, ReplyLost, Fail, ledger
  <2> QED
    BY <2>1 DEF TypeOK
<1>2. CASE committed' = committed /\ stored' = stored
  BY <1>1, <1>2, SerialFinish
<1>3. CASE /\ pc[c] = "commit" /\ counter' = counter
           /\ stored' = RowWith(local[c])
           /\ committed' = committed \cup {ThisEdit(c)}
  <2>1. pc'[c] = "idle" /\ \A d \in Conn \ {c} : pc'[d] = pc[d]
    BY <1>1 DEF Finish, GoTo, TypeOK
  <2> QED
    BY <1>1, <1>3, <2>1, SerialCommits DEF Drafting
<1> QED
  BY <1>2, <1>3 DEF CallFails, ReplyLost, ledger

(* Connections come and go, and the document may be deleted.               *)
LEMMA SerialElsewhere ==
    ASSUME TypeOK, TypeOK', Safe, Serial,
           \/ \E c \in Conn : \/ RefuseMessage(c) \/ ClientDrops(c) \/ NoticeDisconnect(c)
                              \/ Reap(c) \/ Connect(c) \/ Join(c)
           \/ DeleteDocument \/ UNCHANGED vars
    PROVE  Serial'
<1>1. /\ committed' = committed /\ issued' = issued
      /\ counter \in Nat /\ counter' >= counter /\ stored'.content = stored.content
  BY DEF RefuseMessage, ClientDrops, NoticeDisconnect, Reap, Connect, Join,
     DeleteDocument, ledger, vars, TypeOK, Row
<1>2. CASE UNCHANGED <<pc, local>>
  BY <1>1, <1>2, SerialKept
<1>3. CASE \E c \in Conn : Finish(c)
  BY <1>1, <1>3, SerialFinish
<1> QED
  BY <1>2, <1>3 DEF RefuseMessage, ClientDrops, NoticeDisconnect, Reap, Connect, Join,
     DeleteDocument, vars, Fail, Disconnect

LEMMA SerialNext ==
    ASSUME TypeOK, Safe, DraftIsOfEdit, Serial, OneAtATime, [Next]_vars
    PROVE  Serial'
<1>1. TypeOK'
  BY TypeNext
<1> QED
  BY <1>1, SerialReading, SerialIncrement, SerialRecord, SerialCommit, SerialAnswering,
     SerialReplaying, SerialFailure, SerialElsewhere DEF Next, Handler

(* At first nothing is committed and the text is the initial one.          *)
LEMMA SerialInit == ASSUME Init PROVE Serial
<1>1. committed \subseteq Edit /\ Unique(committed) /\ counter = 1
  BY DEF Init, Unique
<1>2. IsReplay(committed, Replayed)
  BY <1>1, ReplayedIsReplay
<1>3. Replayed[1] = InitialContent
  BY <1>1, <1>2, ReplayStep
<1> QED
  BY <1>1, <1>3 DEF Init, Serial, ContentIsReplay, Drafting, Reserving

(* With any number of users, and whatever calls fail, are repeated or take *)
(* effect unnoticed: as long as no two handlers are between their read of  *)
(* the document and their commit, the document's text is the replay of the *)
(* committed edits.                                                        *)
THEOREM ContentReplayed == Spec /\ []OneAtATime => []ContentIsReplay
<1>1. Init => Serial
  BY SerialInit
<1>2. TypeOK /\ Safe /\ DraftIsOfEdit /\ Serial /\ OneAtATime /\ [Next]_vars => Serial'
  BY SerialNext
<1>3. Serial => ContentIsReplay
  BY DEF Serial
<1> QED
  BY <1>1, <1>2, <1>3, SafeAlways, DraftOfEdit, PTL DEF Spec

(* One connection's handlers never overlap: it handles one message after   *)
(* the other.                                                              *)
THEOREM OneEditorReplayed ==
    ASSUME \A c, d \in Conn : c = d
    PROVE  Spec => []ContentIsReplay
<1>1. OneAtATime
  BY DEF OneAtATime
<1> QED
  BY <1>1, ContentReplayed, PTL

=============================================================================
