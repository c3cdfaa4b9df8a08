--------------------------- MODULE DocumentsProofs ---------------------------
(***************************************************************************)
(* Theorems about Documents.tla for any number of users, connections and   *)
(* documents, and any bound on the edits.                                  *)
(***************************************************************************)
EXTENDS Documents, TLAPS

-----------------------------------------------------------------------------
(* Type correctness.  A request that is under way has a document, and so   *)
(* has a handler.                                                          *)

Local == [doc : Doc \cup {None}, row : Role \cup {None}, author : BOOLEAN, seq : Nat]

DocsAreSet ==
    /\ \A u \in User : request[u].step # "none" => request[u].doc \in Doc
    /\ \A c \in Conn : pc[c] \notin {"idle", "closed"} => local[c].doc \in Doc

TypeInv == TypeOK /\ DocsAreSet

LEMMA RequestType ==
    ASSUME TypeInv, NEW u \in User, NEW r \in [step : Creating, doc : Doc \cup {None}],
           r.step # "none" => r.doc \in Doc,
           request' = [request EXCEPT ![u] = r]
    PROVE  /\ request' \in [User -> [step : Creating, doc : Doc \cup {None}]]
           /\ \A v \in User : request'[v].step # "none" => request'[v].doc \in Doc
BY DEF TypeInv, TypeOK, DocsAreSet

LEMMA AnswerType ==
    ASSUME TypeInv, NEW u \in User, Answer(u)
    PROVE  /\ request' \in [User -> [step : Creating, doc : Doc \cup {None}]]
           /\ \A v \in User : request'[v].step # "none" => request'[v].doc \in Doc
<1> DEFINE r == [step |-> "none", doc |-> None]
<1>1. r \in [step : Creating, doc : Doc \cup {None}] /\ r.step = "none"
  BY DEF Creating
<1>2. request' = [request EXCEPT ![u] = r]
  BY DEF Answer
<1> HIDE DEF r
<1> QED
  BY <1>1, <1>2, RequestType

LEMMA StepType ==
    ASSUME TypeInv, NEW u \in User, request[u].step # "none",
           NEW step \in Creating, Step(u, step)
    PROVE  /\ request' \in [User -> [step : Creating, doc : Doc \cup {None}]]
           /\ \A v \in User : request'[v].step # "none" => request'[v].doc \in Doc
<1> DEFINE r == [request[u] EXCEPT !.step = step]
<1>1. r \in [step : Creating, doc : Doc \cup {None}] /\ r.doc \in Doc
  BY DEF TypeInv, TypeOK, DocsAreSet
<1>2. request' = [request EXCEPT ![u] = r]
  BY DEF Step, TypeInv, TypeOK
<1> HIDE DEF r
<1> QED
  BY <1>1, <1>2, RequestType

LEMMA MoveType ==
    ASSUME TypeInv, NEW c \in Conn, NEW step \in Handling, GoTo(c, step),
           NEW l \in Local, local' = [local EXCEPT ![c] = l],
           step \notin {"idle", "closed"} => l.doc \in Doc
    PROVE  /\ pc' \in [Conn -> Handling] /\ local' \in [Conn -> Local]
           /\ \A d \in Conn : pc'[d] \notin {"idle", "closed"} => local'[d].doc \in Doc
BY DEF TypeInv, TypeOK, DocsAreSet, GoTo, Local

LEMMA DoneType ==
    ASSUME TypeInv, NEW c \in Conn, Done(c) \/ Close(c)
    PROVE  /\ pc' \in [Conn -> Handling] /\ local' \in [Conn -> Local]
           /\ \A d \in Conn : pc'[d] \notin {"idle", "closed"} => local'[d].doc \in Doc
<1>1. NoLocal \in Local
  BY DEF NoLocal, Local
<1> QED
  BY <1>1, MoveType DEF Done, Close, Handling

LEMMA StayType ==
    ASSUME TypeInv, NEW c \in Conn, pc[c] \notin {"idle", "closed"},
           NEW step \in Handling, GoTo(c, step), UNCHANGED local
    PROVE  /\ pc' \in [Conn -> Handling] /\ local' \in [Conn -> Local]
           /\ \A d \in Conn : pc'[d] \notin {"idle", "closed"} => local'[d].doc \in Doc
BY DEF TypeInv, TypeOK, DocsAreSet, GoTo, Local

LEMMA ReceiveType ==
    ASSUME TypeInv, NEW c \in Conn, NEW d \in Doc,
           NEW step \in Handling, Receive(c, d, step)
    PROVE  /\ pc' \in [Conn -> Handling] /\ local' \in [Conn -> Local]
           /\ \A e \in Conn : pc'[e] \notin {"idle", "closed"} => local'[e].doc \in Doc
<1> DEFINE l == [NoLocal EXCEPT !.doc = d]
<1>1. l \in Local /\ l.doc = d
  BY DEF NoLocal, Local
<1>2. local' = [local EXCEPT ![c] = l] /\ GoTo(c, step)
  BY DEF Receive
<1> HIDE DEF l
<1> QED
  BY <1>1, <1>2, MoveType

\* A handler keeps its document when it notes what it read.
LEMMA NoteType ==
    ASSUME TypeInv, NEW c \in Conn, pc[c] \notin {"idle", "closed"},
           NEW step \in Handling, GoTo(c, step),
           \/ \E row \in Role \cup {None} : local' = [local EXCEPT ![c].row = row]
           \/ \E b \in BOOLEAN : local' = [local EXCEPT ![c].author = b]
           \/ \E n \in Nat : local' = [local EXCEPT ![c].seq = n]
    PROVE  /\ pc' \in [Conn -> Handling] /\ local' \in [Conn -> Local]
           /\ \A e \in Conn : pc'[e] \notin {"idle", "closed"} => local'[e].doc \in Doc
<1>1. local[c] \in Local
  BY DEF TypeInv, TypeOK, Local
<1>2. PICK l \in Local : l.doc = local[c].doc /\ local' = [local EXCEPT ![c] = l]
  <2>1. ASSUME NEW row \in Role \cup {None}, local' = [local EXCEPT ![c].row = row]
        PROVE  \E l \in Local : l.doc = local[c].doc /\ local' = [local EXCEPT ![c] = l]
    <3>1. [local[c] EXCEPT !.row = row] \in Local /\ [local[c] EXCEPT !.row = row].doc = local[c].doc
      BY <1>1 DEF Local
    <3>2. local' = [local EXCEPT ![c] = [local[c] EXCEPT !.row = row]]
      BY <2>1 DEF TypeInv, TypeOK
    <3> QED
      BY <3>1, <3>2
  <2>2. ASSUME NEW b \in BOOLEAN, local' = [local EXCEPT ![c].author = b]
        PROVE  \E l \in Local : l.doc = local[c].doc /\ local' = [local EXCEPT ![c] = l]
    <3>1. [local[c] EXCEPT !.author = b] \in Local /\ [local[c] EXCEPT !.author = b].doc = local[c].doc
      BY <1>1 DEF Local
    <3>2. local' = [local EXCEPT ![c] = [local[c] EXCEPT !.author = b]]
      BY <2>2 DEF TypeInv, TypeOK
    <3> QED
      BY <3>1, <3>2
  <2>3. ASSUME NEW n \in Nat, local' = [local EXCEPT ![c].seq = n]
        PROVE  \E l \in Local : l.doc = local[c].doc /\ local' = [local EXCEPT ![c] = l]
    <3>1. [local[c] EXCEPT !.seq = n] \in Local /\ [local[c] EXCEPT !.seq = n].doc = local[c].doc
      BY <1>1 DEF Local
    <3>2. local' = [local EXCEPT ![c] = [local[c] EXCEPT !.seq = n]]
      BY <2>3 DEF TypeInv, TypeOK
    <3> QED
      BY <3>1, <3>2
  <2> QED
    BY <2>1, <2>2, <2>3
<1>3. l.doc \in Doc
  BY <1>2 DEF TypeInv, DocsAreSet
<1> QED
  BY <1>2, <1>3, MoveType

LEMMA TypeInit == Init => TypeInv
BY DEF Init, TypeInv, TypeOK, DocsAreSet, NoLocal, Creating, Handling

LEMMA CreationType ==
    ASSUME TypeInv, NEW u \in User,
           Create(u) \/ Insert(u) \/ Reread(u) \/ Count(u) \/ CreationFails(u)
    PROVE  TypeInv'
<1> DEFINE Requests == /\ request' \in [User -> [step : Creating, doc : Doc \cup {None}]]
                       /\ \A v \in User : request'[v].step # "none" => request'[v].doc \in Doc
<1> USE DEF Creating
<1>1. ASSUME Requests, UNCHANGED <<account, member, room, pc, local>>,
             creator' \in [Doc -> User \cup {None}], sequence' \in [Doc -> Nat],
             counter' \in [Doc -> Nat], answered' \subseteq Doc, edited' = edited
      PROVE  TypeInv'
  BY <1>1 DEF TypeInv, TypeOK, DocsAreSet
<1>2. request[u].step # "none" => request[u].doc \in Doc
  BY DEF TypeInv, DocsAreSet
<1>3. ASSUME NEW d \in Doc
      PROVE  /\ [creator EXCEPT ![d] = u] \in [Doc -> User \cup {None}]
             /\ [sequence EXCEPT ![d] = 1] \in [Doc -> Nat]
             /\ Incremented(d) => counter' \in [Doc -> Nat]
             /\ answered \cup {d} \subseteq Doc
  BY SMTT(30), <1>3 DEF TypeInv, TypeOK, Incremented
<1>4. /\ creator \in [Doc -> User \cup {None}] /\ sequence \in [Doc -> Nat]
      /\ counter \in [Doc -> Nat] /\ answered \subseteq Doc
  BY DEF TypeInv, TypeOK
<1>5. CASE Create(u)
  <2>1. Requests
    <3>1. PICK d \in Doc : request' = [request EXCEPT ![u] = [step |-> "insert", doc |-> d]]
      BY <1>5 DEF Create
    <3> DEFINE r == [step |-> "insert", doc |-> d]
    <3>2. r \in [step : Creating, doc : Doc \cup {None}] /\ r.doc \in Doc
      OBVIOUS
    <3>3. request' = [request EXCEPT ![u] = r]
      BY <3>1
    <3> HIDE DEF r
    <3> QED
      BY <3>2, <3>3, RequestType
  <2> QED
    BY <1>1, <1>4, <1>5, <2>1 DEF Create, rows
<1>6. CASE Insert(u)
  BY <1>1, <1>2, <1>3, <1>4, <1>6, AnswerType, StepType DEF Insert
<1>7. CASE Reread(u)
  BY <1>1, <1>4, <1>7, AnswerType, StepType DEF Reread, rows
<1>8. CASE Count(u)
  BY <1>1, <1>2, <1>3, <1>4, <1>8, AnswerType DEF Count
<1>9. CASE CreationFails(u)
  BY <1>1, <1>2, <1>3, <1>4, <1>9, AnswerType DEF CreationFails
<1> QED
  BY <1>5, <1>6, <1>7, <1>8, <1>9

\* Where a handler goes.
Moved == /\ pc' \in [Conn -> Handling] /\ local' \in [Conn -> Local]
         /\ \A c \in Conn : pc'[c] \notin {"idle", "closed"} => local'[c].doc \in Doc

LEMMA HandlerType ==
    ASSUME TypeInv, Moved, UNCHANGED <<account, creator, request, answered>>,
           sequence' \in [Doc -> Nat], counter' \in [Doc -> Nat],
           member' \in [Doc -> [User -> Role \cup {None}]],
           room' \in [Conn -> SUBSET Doc], edited' \subseteq Doc \X User
    PROVE  TypeInv'
BY DEF TypeInv, TypeOK, DocsAreSet, Moved, Local

LEMMA WriteRowType ==
    ASSUME TypeInv, NEW c \in Conn, local[c].doc \in Doc,
           NEW role \in Role \cup {None}, WriteRow(c, role)
    PROVE  member' \in [Doc -> [User -> Role \cup {None}]]
BY DocumentsAssumption DEF WriteRow, TypeInv, TypeOK

LEMMA JoinType ==
    ASSUME TypeInv, NEW c \in Conn,
           \/ \E d \in Doc : ReceiveJoin(c, d)
           \/ JoinReadDocument(c) \/ JoinReadMember(c) \/ SaveMember(c) \/ CreateMember(c)
    PROVE  TypeInv'
<1> USE DEF Handling
<1>1. /\ sequence \in [Doc -> Nat] /\ counter \in [Doc -> Nat]
      /\ member \in [Doc -> [User -> Role \cup {None}]]
      /\ room \in [Conn -> SUBSET Doc] /\ edited \subseteq Doc \X User
  BY DEF TypeInv, TypeOK
<1>2. pc[c] \notin {"idle", "closed"} => local[c].doc \in Doc
  BY DEF TypeInv, DocsAreSet
<1>3. ASSUME NEW d \in Doc, ReceiveJoin(c, d) PROVE TypeInv'
  <2>1. Moved
    BY <1>3, ReceiveType DEF ReceiveJoin, Moved
  <2> QED
    BY <1>1, <1>3, <2>1, HandlerType DEF ReceiveJoin, rows
<1>4. CASE JoinReadDocument(c)
  <2>1. Moved
    <3>1. CASE Close(c)
      BY <3>1, DoneType DEF Moved
    <3>2. CASE GoTo(c, "join member") /\
               local' = [local EXCEPT ![c].author = creator[local[c].doc] = Owner[c]]
      <4>1. (creator[local[c].doc] = Owner[c]) \in BOOLEAN
        OBVIOUS
      <4> QED
        BY <1>4, <3>2, <4>1, NoteType DEF Moved, JoinReadDocument
    <3> QED
      BY <1>4, <3>1, <3>2 DEF JoinReadDocument
  <2> QED
    BY <1>1, <1>4, <2>1, HandlerType DEF JoinReadDocument, rows
<1>5. CASE JoinReadMember(c)
  <2>1. RowOf(c) \in Role \cup {None}
    <3>1. local[c].doc \in Doc
      BY <1>2, <1>5 DEF JoinReadMember
    <3> QED
      BY <1>1, <3>1, DocumentsAssumption DEF RowOf
  <2>2. Moved
    BY <1>5, <2>1, NoteType DEF JoinReadMember, Moved
  <2> QED
    BY <1>1, <1>5, <2>2, HandlerType DEF JoinReadMember, rows
<1>6. CASE SaveMember(c)
  <2>1. Moved
    BY <1>6, DoneType DEF SaveMember, Moved
  <2> QED
    BY <1>1, <1>6, <2>1, HandlerType DEF SaveMember, rows
<1>7. CASE CreateMember(c)
  <2>1. Moved
    BY <1>7, DoneType DEF CreateMember, Moved
  <2>2. NewRole(c) \in Role
    BY DEF NewRole, Role
  <2>3. member' \in [Doc -> [User -> Role \cup {None}]]
    BY <1>1, <1>2, <1>7, <2>2, WriteRowType DEF CreateMember
  <2> QED
    BY <1>1, <1>7, <2>1, <2>3, HandlerType DEF CreateMember
<1> QED
  BY <1>3, <1>4, <1>5, <1>6, <1>7

LEMMA LeaveType ==
    ASSUME TypeInv, NEW c \in Conn,
           \/ \E d \in Doc : ReceiveLeave(c, d) \/ CleanUp(c, d)
           \/ LeaveReadMember(c) \/ DeleteMember(c) \/ CallFails(c) \/ Connect(c)
    PROVE  TypeInv'
<1> USE DEF Handling
<1>1. /\ sequence \in [Doc -> Nat] /\ counter \in [Doc -> Nat]
      /\ member \in [Doc -> [User -> Role \cup {None}]]
      /\ room \in [Conn -> SUBSET Doc] /\ edited \subseteq Doc \X User
  BY DEF TypeInv, TypeOK
<1>2. pc[c] \notin {"idle", "closed"} => local[c].doc \in Doc
  BY DEF TypeInv, DocsAreSet
<1>3. ASSUME NEW d \in Doc, ReceiveLeave(c, d) PROVE TypeInv'
  <2>1. Moved
    BY <1>3, ReceiveType DEF ReceiveLeave, Moved
  <2>2. room' \in [Conn -> SUBSET Doc]
    BY <1>1, <1>3 DEF ReceiveLeave
  <2> QED
    BY <1>1, <1>3, <2>1, <2>2, HandlerType DEF ReceiveLeave, rows
<1>4. ASSUME NEW d \in Doc, CleanUp(c, d) PROVE TypeInv'
  <2>1. Moved
    BY <1>4 DEF CleanUp, Moved, TypeInv, TypeOK, DocsAreSet, Local
  <2>2. room' \in [Conn -> SUBSET Doc] /\ member' \in [Doc -> [User -> Role \cup {None}]]
    BY <1>1, <1>4, DocumentsAssumption DEF CleanUp
  <2> QED
    BY <1>1, <1>4, <2>1, <2>2, HandlerType DEF CleanUp
<1>5. CASE LeaveReadMember(c)
  <2>1. Moved
    BY <1>5, DoneType, StayType DEF LeaveReadMember, Moved
  <2> QED
    BY <1>1, <1>5, <2>1, HandlerType DEF LeaveReadMember, rows
<1>6. CASE DeleteMember(c)
  <2>1. Moved
    BY <1>6, DoneType DEF DeleteMember, Moved
  <2>2. member' \in [Doc -> [User -> Role \cup {None}]]
    BY <1>2, <1>6, WriteRowType DEF DeleteMember
  <2> QED
    BY <1>1, <1>6, <2>1, <2>2, HandlerType DEF DeleteMember
<1>7. CASE CallFails(c)
  <2>1. Moved
    BY <1>7, DoneType DEF CallFails, Moved
  <2> QED
    BY <1>1, <1>7, <2>1, HandlerType DEF CallFails, rows
<1>8. CASE Connect(c)
  <2>1. Moved
    BY <1>8 DEF Connect, GoTo, Moved, TypeInv, TypeOK, DocsAreSet, Local
  <2> QED
    BY <1>1, <1>8, <2>1, HandlerType DEF Connect, rows
<1> QED
  BY <1>3, <1>4, <1>5, <1>6, <1>7, <1>8

LEMMA OperationType ==
    ASSUME TypeInv, NEW c \in Conn,
           \/ \E d \in Doc : ReceiveOperation(c, d)
           \/ ReadDocument(c) \/ Increment(c) \/ Commit(c) \/ PromoteRole(c)
    PROVE  TypeInv'
<1> USE DEF Handling
<1>1. /\ sequence \in [Doc -> Nat] /\ counter \in [Doc -> Nat]
      /\ member \in [Doc -> [User -> Role \cup {None}]]
      /\ room \in [Conn -> SUBSET Doc] /\ edited \subseteq Doc \X User
  BY DEF TypeInv, TypeOK
<1>2. pc[c] \notin {"idle", "closed"} => local[c].doc \in Doc
  BY DEF TypeInv, DocsAreSet
<1>3. ASSUME NEW d \in Doc, ReceiveOperation(c, d) PROVE TypeInv'
  <2>1. Moved
    BY <1>3, ReceiveType DEF ReceiveOperation, Moved
  <2> QED
    BY <1>1, <1>3, <2>1, HandlerType DEF ReceiveOperation, rows
<1>4. CASE ReadDocument(c)
  <2>1. Moved
    <3>1. CASE Close(c) \/ Done(c)
      BY <3>1, DoneType DEF Moved
    <3>2. CASE GoTo(c, "increment") /\
               local' = [local EXCEPT ![c].author = creator[local[c].doc] = Owner[c]]
      <4>1. (creator[local[c].doc] = Owner[c]) \in BOOLEAN
        OBVIOUS
      <4> QED
        BY <1>4, <3>2, <4>1, NoteType DEF Moved, ReadDocument
    <3> QED
      BY <1>4, <3>1, <3>2 DEF ReadDocument
  <2> QED
    BY <1>1, <1>4, <2>1, HandlerType DEF ReadDocument, rows
<1>5. CASE Increment(c)
  <2>1. counter' \in [Doc -> Nat]
    BY <1>1, <1>2, <1>5 DEF Increment
  <2>2. counter'[local[c].doc] \in Nat
    BY <1>2, <1>5, <2>1 DEF Increment
  <2>3. Moved
    BY <1>5, <2>2, NoteType DEF Increment, Moved
  <2> QED
    BY <1>1, <1>5, <2>1, <2>3, HandlerType DEF Increment
<1>6. CASE Commit(c)
  <2>1. Moved
    BY <1>6, DoneType, StayType DEF Commit, Moved
  <2>2. sequence' \in [Doc -> Nat]
    BY ZenonT(40), <1>1, <1>6 DEF Commit, TypeInv, TypeOK
  <2>3. edited' \subseteq Doc \X User
    BY <1>1, <1>2, <1>6, DocumentsAssumption DEF Commit
  <2> QED
    BY <1>1, <1>6, <2>1, <2>2, <2>3, HandlerType DEF Commit
<1>7. CASE PromoteRole(c)
  <2>1. Moved
    BY <1>7, DoneType DEF PromoteRole, Moved
  <2>2. member' \in [Doc -> [User -> Role \cup {None}]]
    BY ZenonT(40), <1>1, <1>7 DEF PromoteRole, Role
  <2> QED
    BY <1>1, <1>7, <2>1, <2>2, HandlerType DEF PromoteRole
<1> QED
  BY <1>3, <1>4, <1>5, <1>6, <1>7

LEMMA TypeNext == TypeInv /\ [Next]_vars => TypeInv'
<1> SUFFICES ASSUME TypeInv, [Next]_vars PROVE TypeInv'
  OBVIOUS
<1>1. ASSUME NEW u \in User, DeleteAccount(u) PROVE TypeInv'
  BY <1>1 DEF DeleteAccount, TypeInv, TypeOK, DocsAreSet
<1>2. CASE UNCHANGED vars
  BY <1>2 DEF vars, rows, TypeInv, TypeOK, DocsAreSet
<1> QED
  BY <1>1, <1>2, CreationType, JoinType, LeaveType, OperationType DEF Next

(* Rows, counters, requests and handlers keep their types, whatever        *)
(* creations, joins, edits, leaves and deletions run at the same time.     *)
THEOREM DocumentsTypeCorrect == Spec => []TypeOK
<1>1. Init => TypeInv
  BY TypeInit
<1>2. TypeInv /\ [Next]_vars => TypeInv'
  BY TypeNext
<1>3. TypeInv => TypeOK
  BY DEF TypeInv
<1> QED
  BY <1>1, <1>2, <1>3, PTL DEF Spec

-----------------------------------------------------------------------------
(* Numbers and roles.  Handlers run on documents whose creation was        *)
(* answered, and requests create others, each its own.                     *)

Active(c) == pc[c] \notin {"idle", "closed"}
KnowsAuthor == {"join member", "join save", "increment", "commit"}

NewDocs == \A u \in User : request[u].step # "none" => request[u].doc \in Doc \ answered
OneCreator ==
    \A u, v \in User : u # v /\ request[u].step # "none" /\ request[v].step # "none"
        => request[u].doc # request[v].doc
RowIsNew ==
    \A u \in User : request[u].step \in {"reread", "count"} => sequence[request[u].doc] = 1
Numbered == \A d \in answered : sequence[d] \in 1 .. counter[d]

CreationInv == NewDocs /\ OneCreator /\ RowIsNew /\ Numbered

RoomsAreAnswered ==
    \A c \in Conn : room[c] \subseteq answered /\ (Active(c) => local[c].doc \in answered)
SeqWasIssued == \A c \in Conn : pc[c] = "commit" => local[c].seq \in 1 .. counter[local[c].doc]
AuthorIsCreator ==
    \A c \in Conn : pc[c] \in KnowsAuthor /\ creator[local[c].doc] # None =>
        (local[c].author <=> creator[local[c].doc] = Owner[c])
PromotedEdited == \A c \in Conn : pc[c] = "promote" => <<local[c].doc, Owner[c]>> \in edited

HandlersInv == RoomsAreAnswered /\ SeqWasIssued /\ AuthorIsCreator /\ PromotedEdited

Inv == TypeInv /\ CreationInv /\ HandlersInv

LEMMA InvInit == Init => CreationInv /\ HandlersInv
BY DEF Init, CreationInv, NewDocs, OneCreator, RowIsNew, Numbered, HandlersInv,
   RoomsAreAnswered, SeqWasIssued, AuthorIsCreator, PromotedEdited, Active, KnowsAuthor

\* Handlers keep what they know while requests write rows that they do not use.
LEMMA CreationKeepsHandlers ==
    ASSUME Inv, UNCHANGED <<room, pc, local, edited>>, answered \subseteq answered',
           \A d \in answered : creator'[d] = creator[d] /\ counter'[d] = counter[d]
    PROVE  HandlersInv'
<1>1. RoomsAreAnswered'
  BY DEF Inv, HandlersInv, RoomsAreAnswered, Active
<1>2. SeqWasIssued'
  BY DEF Inv, HandlersInv, SeqWasIssued, RoomsAreAnswered, Active
<1>3. AuthorIsCreator'
  BY DEF Inv, HandlersInv, AuthorIsCreator, RoomsAreAnswered, Active, KnowsAuthor
<1>4. PromotedEdited'
  BY DEF Inv, HandlersInv, PromotedEdited
<1> QED
  BY <1>1, <1>2, <1>3, <1>4 DEF HandlersInv

\* A request that ends, or takes a step, on a document of its own.
LEMMA CreationKeeps ==
    ASSUME Inv, NEW u \in User, NEW d \in Doc \ answered, UNCHANGED <<room, pc, local, edited>>,
           \A v \in User \ {u} : request'[v] = request[v],
           \A v \in User \ {u} : request[v].step # "none" => request[v].doc # d,
           request'[u].step # "none" => request'[u].doc = d /\ answered' = answered,
           request'[u].step \in {"reread", "count"} => sequence'[d] = 1,
           \A e \in Doc \ {d} : /\ creator'[e] = creator[e] /\ counter'[e] = counter[e]
                               /\ sequence'[e] = sequence[e],
           \/ answered' = answered
           \/ answered' = answered \cup {d} /\ sequence'[d] \in 1 .. counter'[d]
    PROVE  CreationInv' /\ HandlersInv'
<1>1. answered \subseteq Doc
  BY DEF Inv, TypeInv, TypeOK
<1>2. NewDocs'
  <2> SUFFICES ASSUME NEW v \in User, request'[v].step # "none"
               PROVE  request'[v].doc \in Doc \ answered'
    BY DEF NewDocs
  <2>1. CASE v = u
    BY <2>1
  <2>2. CASE v # u
    <3>1. request'[v] = request[v]
      BY <2>2
    <3>2. request[v].step # "none"
      BY <3>1
    <3>3. request[v].doc # d
      BY <2>2, <3>2
    <3>4. request[v].doc \in Doc \ answered
      BY <3>2 DEF Inv, CreationInv, NewDocs
    <3> QED
      BY <3>1, <3>3, <3>4
  <2> QED
    BY <2>1, <2>2
<1>3. OneCreator'
  <2> SUFFICES ASSUME NEW v \in User, NEW w \in User, v # w,
                      request'[v].step # "none", request'[w].step # "none"
               PROVE  request'[v].doc # request'[w].doc
    BY DEF OneCreator
  <2>1. ASSUME NEW x \in User, x # u, request'[x].step # "none"
        PROVE  /\ request'[x] = request[x] /\ request[x].step # "none"
               /\ request[x].doc # d
    <3>1. request'[x] = request[x]
      BY <2>1
    <3>2. request[x].step # "none"
      BY <2>1, <3>1
    <3> QED
      BY <2>1, <3>1, <3>2
  <2>2. CASE v = u
    <3>1. request'[w].doc # d /\ request'[v].doc = d
      BY <2>1, <2>2
    <3> QED
      BY <3>1
  <2>3. CASE w = u
    <3>1. request'[v].doc # d /\ request'[w].doc = d
      BY <2>1, <2>3
    <3> QED
      BY <3>1
  <2>4. CASE v # u /\ w # u
    <3>1. /\ request'[v] = request[v] /\ request[v].step # "none"
          /\ request'[w] = request[w] /\ request[w].step # "none"
      BY <2>1, <2>4
    <3>2. request[v].doc # request[w].doc
      BY <3>1 DEF Inv, CreationInv, OneCreator
    <3> QED
      BY <3>1, <3>2
  <2> QED
    BY <2>2, <2>3, <2>4
<1>4. RowIsNew'
  <2> SUFFICES ASSUME NEW v \in User, request'[v].step \in {"reread", "count"}
               PROVE  sequence'[request'[v].doc] = 1
    BY DEF RowIsNew
  <2>1. CASE v = u
    BY <2>1
  <2>2. CASE v # u
    <3>1. request'[v] = request[v]
      BY <2>2
    <3>2. request[v].step \in {"reread", "count"}
      BY <3>1
    <3>3. request[v].doc # d
      BY <2>2, <3>2
    <3>4. request[v].doc \in Doc /\ sequence[request[v].doc] = 1
      BY <3>2 DEF Inv, CreationInv, NewDocs, RowIsNew
    <3> QED
      BY <3>1, <3>3, <3>4
  <2> QED
    BY <2>1, <2>2
<1>5. Numbered'
  BY <1>1 DEF Inv, CreationInv, Numbered
<1>6. HandlersInv'
  BY <1>1, CreationKeepsHandlers
<1> QED
  BY <1>2, <1>3, <1>4, <1>5, <1>6 DEF CreationInv

LEMMA CreationNext ==
    ASSUME Inv, NEW u \in User,
           Create(u) \/ Insert(u) \/ Reread(u) \/ Count(u) \/ CreationFails(u)
    PROVE  CreationInv' /\ HandlersInv'
<1>1. request \in [User -> [step : Creating, doc : Doc \cup {None}]]
      /\ sequence \in [Doc -> Nat] /\ counter \in [Doc -> Nat]
      /\ creator \in [Doc -> User \cup {None}]
  BY DEF Inv, TypeInv, TypeOK
<1>2. CASE Create(u)
  <2>1. PICK d \in Doc : /\ sequence[d] = 0 /\ \A v \in User : request[v].doc # d
                         /\ request' = [request EXCEPT ![u] = [step |-> "insert", doc |-> d]]
    BY <1>2 DEF Create
  <2>2. d \notin answered
    BY <1>1, <2>1 DEF Inv, CreationInv, Numbered
  <2>3. /\ request'[u].step = "insert" /\ request'[u].doc = d
        /\ \A v \in User \ {u} : request'[v] = request[v]
    BY <1>1, <2>1
  <2> QED
    BY <1>2, <2>1, <2>2, <2>3, CreationKeeps DEF Create, rows
<1>3. CASE ~Create(u)
  <2> DEFINE d == request[u].doc
  <2>1. request[u].step # "none"
    BY <1>3 DEF Insert, Reread, Count, CreationFails
  <2>2. /\ d \in Doc \ answered
        /\ \A v \in User \ {u} : request[v].step # "none" => request[v].doc # d
    BY <2>1 DEF Inv, CreationInv, NewDocs, OneCreator
  <2>3. Answer(u) => /\ request'[u].step = "none"
                     /\ \A v \in User \ {u} : request'[v] = request[v]
    BY <1>1 DEF Answer
  <2>4. \A step : Step(u, step) => /\ request'[u].step = step /\ request'[u].doc = d
                                   /\ \A v \in User \ {u} : request'[v] = request[v]
    BY <1>1 DEF Step
  <2>5. Incremented(d) => counter'[d] \in Nat \ {0}
                          /\ \A e \in Doc \ {d} : counter'[e] = counter[e]
    BY <1>1, <2>2 DEF Incremented
  <2>6. request[u].step = "count" => sequence[d] = 1
    BY DEF Inv, CreationInv, RowIsNew
  <2> HIDE DEF d
  <2>7. CASE Insert(u)
    <3>1. \/ Answer(u) /\ UNCHANGED <<creator, sequence>>
          \/ /\ Step(u, "reread") /\ creator' = [creator EXCEPT ![d] = u]
             /\ sequence' = [sequence EXCEPT ![d] = 1]
      BY <2>7 DEF Insert, d
    <3>2. UNCHANGED <<counter, room, pc, local, edited, answered>>
      BY <2>7 DEF Insert
    <3> QED
      BY <1>1, <2>2, <2>3, <2>4, <3>1, <3>2, CreationKeeps
  <2>8. CASE Reread(u)
    <3>1. request[u].step = "reread" /\ (Answer(u) \/ Step(u, "count"))
      BY <2>8 DEF Reread
    <3>2. sequence[d] = 1
      BY <3>1 DEF Inv, CreationInv, RowIsNew, d
    <3>3. UNCHANGED <<creator, sequence, counter, room, pc, local, edited, answered>>
      BY <2>8 DEF Reread, rows
    <3> QED
      BY <1>1, <2>2, <2>3, <2>4, <3>1, <3>2, <3>3, CreationKeeps
  <2>9. CASE Count(u)
    <3>1. /\ Incremented(d) /\ Answer(u) /\ answered' = answered \cup {d}
          /\ UNCHANGED <<creator, sequence, room, pc, local, edited>> /\ sequence[d] = 1
      BY <2>6, <2>9 DEF Count, d
    <3>2. sequence'[d] \in 1 .. counter'[d]
      BY <2>5, <3>1
    <3> QED
      BY <1>1, <2>2, <2>3, <2>5, <3>1, <3>2, CreationKeeps
  <2>10. CASE CreationFails(u)
    <3>1. Answer(u) /\ UNCHANGED <<room, pc, local, edited, answered>>
      BY <2>10 DEF CreationFails
    <3>2. \A e \in Doc \ {d} : /\ creator'[e] = creator[e] /\ counter'[e] = counter[e]
                              /\ sequence'[e] = sequence[e]
      <4>1. CASE UNCHANGED <<creator, sequence, counter>>
        BY <4>1
      <4>2. CASE /\ creator' = [creator EXCEPT ![d] = u] /\ sequence' = [sequence EXCEPT ![d] = 1]
                 /\ UNCHANGED counter
        BY <1>1, <2>2, <4>2
      <4>3. CASE Incremented(d) /\ UNCHANGED <<creator, sequence>>
        BY <2>5, <4>3
      <4> QED
        BY <2>10, <4>1, <4>2, <4>3 DEF CreationFails, d
    <3> QED
      BY <2>2, <2>3, <3>1, <3>2, CreationKeeps
  <2> QED
    BY <1>3, <2>7, <2>8, <2>9, <2>10
<1> QED
  BY <1>2, <1>3

\* A handler's step that writes at most member rows.
LEMMA HandlerKeeps ==
    ASSUME Inv, NEW c \in Conn,
           UNCHANGED <<creator, sequence, counter, request, edited, answered>>,
           \A d \in Conn \ {c} : pc'[d] = pc[d] /\ local'[d] = local[d],
           \A d \in Conn : room'[d] \subseteq answered,
           Active(c)' => local'[c].doc \in answered,
           pc'[c] \notin {"commit", "promote"},
           pc'[c] \in KnowsAuthor /\ creator[local'[c].doc] # None =>
               (local'[c].author <=> creator[local'[c].doc] = Owner[c])
    PROVE  CreationInv' /\ HandlersInv'
<1>1. CreationInv'
  BY DEF Inv, CreationInv, NewDocs, OneCreator, RowIsNew, Numbered
<1>2. RoomsAreAnswered'
  BY DEF Inv, HandlersInv, RoomsAreAnswered, Active
<1>3. SeqWasIssued' /\ PromotedEdited'
  BY DEF Inv, HandlersInv, SeqWasIssued, PromotedEdited
<1>4. AuthorIsCreator'
  BY DEF Inv, HandlersInv, AuthorIsCreator
<1> QED
  BY <1>1, <1>2, <1>3, <1>4 DEF HandlersInv

LEMMA EndKeeps ==
    ASSUME Inv, NEW c \in Conn, Done(c) \/ Close(c), UNCHANGED room,
           UNCHANGED <<creator, sequence, counter, request, edited, answered>>
    PROVE  CreationInv' /\ HandlersInv'
<1>1. pc'[c] \in {"idle", "closed"} /\ \A d \in Conn \ {c} : pc'[d] = pc[d] /\ local'[d] = local[d]
  BY DEF Done, Close, GoTo, Inv, TypeInv, TypeOK
<1> QED
  BY <1>1, HandlerKeeps DEF Inv, HandlersInv, RoomsAreAnswered, Active, KnowsAuthor

LEMMA ReceiveKeeps ==
    ASSUME Inv, NEW c \in Conn, NEW d \in answered,
           NEW step \in {"join document", "leave member", "document"}, Receive(c, d, step),
           \A e \in Conn : room'[e] \subseteq answered,
           UNCHANGED <<creator, sequence, counter, request, edited, answered>>
    PROVE  CreationInv' /\ HandlersInv'
<1>1. /\ pc'[c] = step /\ local'[c].doc = d
      /\ \A e \in Conn \ {c} : pc'[e] = pc[e] /\ local'[e] = local[e]
  BY DEF Receive, GoTo, NoLocal, Inv, TypeInv, TypeOK
<1> QED
  BY <1>1, HandlerKeeps DEF KnowsAuthor

LEMMA JoinKeeps ==
    ASSUME Inv, NEW c \in Conn,
           \/ \E d \in Doc : ReceiveJoin(c, d)
           \/ JoinReadDocument(c) \/ JoinReadMember(c) \/ SaveMember(c) \/ CreateMember(c)
    PROVE  CreationInv' /\ HandlersInv'
<1>1. /\ pc \in [Conn -> Handling] /\ local[c] \in Local /\ local \in [Conn -> Local]
      /\ room \in [Conn -> SUBSET Doc]
  BY DEF Inv, TypeInv, TypeOK, Local
<1>2. Active(c) => local[c].doc \in answered
  BY DEF Inv, HandlersInv, RoomsAreAnswered
<1>3. \A e \in Conn : room[e] \subseteq answered
  BY DEF Inv, HandlersInv, RoomsAreAnswered
<1>4. ASSUME NEW d \in Doc, ReceiveJoin(c, d) PROVE CreationInv' /\ HandlersInv'
  <2>1. \A e \in Conn : room'[e] \subseteq answered
    BY <1>1, <1>3, <1>4 DEF ReceiveJoin
  <2> QED
    BY <1>4, <2>1, ReceiveKeeps DEF ReceiveJoin, rows
<1>5. CASE JoinReadDocument(c)
  <2>1. CASE Close(c)
    BY <1>5, <2>1, EndKeeps DEF JoinReadDocument, rows
  <2>2. CASE /\ GoTo(c, "join member")
             /\ local' = [local EXCEPT ![c].author = creator[local[c].doc] = Owner[c]]
    <3>1. /\ pc'[c] = "join member" /\ local'[c].doc = local[c].doc
          /\ local'[c].author <=> creator[local[c].doc] = Owner[c]
          /\ \A e \in Conn \ {c} : pc'[e] = pc[e] /\ local'[e] = local[e]
      BY <1>1, <2>2 DEF GoTo, Local
    <3>2. UNCHANGED <<creator, sequence, counter, request, room, edited, answered>> /\ Active(c)
      BY <1>5 DEF JoinReadDocument, rows, Active
    <3> QED
      BY <1>2, <1>3, <3>1, <3>2, HandlerKeeps
  <2> QED
    BY <1>5, <2>1, <2>2 DEF JoinReadDocument
<1>6. CASE JoinReadMember(c)
  <2>1. /\ pc'[c] = "join save" /\ local'[c].doc = local[c].doc
        /\ local'[c].author = local[c].author
        /\ \A e \in Conn \ {c} : pc'[e] = pc[e] /\ local'[e] = local[e]
    BY <1>1, <1>6 DEF JoinReadMember, GoTo, Local
  <2>2. /\ UNCHANGED <<creator, sequence, counter, request, room, edited, answered>>
        /\ Active(c) /\ pc[c] \in KnowsAuthor
    BY <1>6 DEF JoinReadMember, rows, Active, KnowsAuthor
  <2>3. creator[local[c].doc] # None => (local[c].author <=> creator[local[c].doc] = Owner[c])
    BY <2>2 DEF Inv, HandlersInv, AuthorIsCreator
  <2> QED
    BY <1>2, <1>3, <2>1, <2>2, <2>3, HandlerKeeps
<1>7. CASE SaveMember(c)
  BY <1>7, EndKeeps DEF SaveMember, rows
<1>8. CASE CreateMember(c)
  BY <1>8, EndKeeps DEF CreateMember
<1> QED
  BY <1>4, <1>5, <1>6, <1>7, <1>8

LEMMA LeaveKeeps ==
    ASSUME Inv, NEW c \in Conn,
           \/ \E d \in Doc : ReceiveLeave(c, d) \/ CleanUp(c, d)
           \/ LeaveReadMember(c) \/ DeleteMember(c) \/ CallFails(c) \/ Connect(c)
    PROVE  CreationInv' /\ HandlersInv'
<1>1. /\ pc \in [Conn -> Handling] /\ local \in [Conn -> Local]
      /\ room \in [Conn -> SUBSET Doc]
  BY DEF Inv, TypeInv, TypeOK, Local
<1>2. Active(c) => local[c].doc \in answered
  BY DEF Inv, HandlersInv, RoomsAreAnswered
<1>3. \A e \in Conn : room[e] \subseteq answered
  BY DEF Inv, HandlersInv, RoomsAreAnswered
<1>4. ASSUME NEW d \in Doc, ReceiveLeave(c, d) PROVE CreationInv' /\ HandlersInv'
  <2>1. \A e \in Conn : room'[e] \subseteq answered
    BY <1>1, <1>3, <1>4 DEF ReceiveLeave
  <2>2. d \in answered
    BY <1>3, <1>4 DEF ReceiveLeave
  <2> QED
    BY <1>4, <2>1, <2>2, ReceiveKeeps DEF ReceiveLeave, rows
<1>5. ASSUME NEW d \in Doc, CleanUp(c, d) PROVE CreationInv' /\ HandlersInv'
  <2>1. \A e \in Conn : room'[e] \subseteq answered
    BY <1>1, <1>3, <1>5 DEF CleanUp
  <2>2. UNCHANGED <<creator, sequence, counter, request, pc, local, edited, answered>> /\ ~Active(c)
    BY <1>5 DEF CleanUp, Active
  <2> QED
    BY <2>1, <2>2, HandlerKeeps DEF Active, KnowsAuthor
<1>6. CASE LeaveReadMember(c)
  <2>1. CASE Close(c)
    BY <1>6, <2>1, EndKeeps DEF LeaveReadMember, rows
  <2>2. CASE GoTo(c, "leave delete") /\ UNCHANGED local
    <3>1. pc'[c] = "leave delete" /\ \A e \in Conn \ {c} : pc'[e] = pc[e] /\ local'[e] = local[e]
      BY <1>1, <2>2 DEF GoTo
    <3>2. UNCHANGED <<creator, sequence, counter, request, room, edited, answered>> /\ Active(c)
      BY <1>6 DEF LeaveReadMember, rows, Active
    <3> QED
      BY <1>2, <1>3, <2>2, <3>1, <3>2, HandlerKeeps DEF KnowsAuthor
  <2> QED
    BY <1>6, <2>1, <2>2 DEF LeaveReadMember
<1>7. CASE DeleteMember(c)
  BY <1>7, EndKeeps DEF DeleteMember
<1>8. CASE CallFails(c)
  BY <1>8, EndKeeps DEF CallFails, rows
<1>9. CASE Connect(c)
  <2>1. pc'[c] = "idle" /\ \A e \in Conn \ {c} : pc'[e] = pc[e] /\ local'[e] = local[e]
    BY <1>1, <1>9 DEF Connect, GoTo
  <2> QED
    BY <1>3, <1>9, <2>1, HandlerKeeps DEF Connect, rows, Active, KnowsAuthor
<1> QED
  BY <1>4, <1>5, <1>6, <1>7, <1>8, <1>9

\* A handler's step after which some numbers and some edits are there that were
\* not, and at most numbers of answered documents changed.
LEMMA OperationKeeps ==
    ASSUME Inv, NEW c \in Conn,
           \/ \E d \in Doc : ReceiveOperation(c, d)
           \/ ReadDocument(c) \/ Increment(c) \/ Commit(c) \/ PromoteRole(c)
    PROVE  CreationInv' /\ HandlersInv'
<1>1. /\ pc \in [Conn -> Handling] /\ local[c] \in Local /\ local \in [Conn -> Local]
      /\ sequence \in [Doc -> Nat] /\ counter \in [Doc -> Nat] /\ answered \subseteq Doc
  BY DEF Inv, TypeInv, TypeOK, Local
<1>2. Active(c) => local[c].doc \in answered
  BY DEF Inv, HandlersInv, RoomsAreAnswered
<1>3. \A e \in Conn : room[e] \subseteq answered
  BY DEF Inv, HandlersInv, RoomsAreAnswered
<1>4. ASSUME NEW d \in Doc, ReceiveOperation(c, d) PROVE CreationInv' /\ HandlersInv'
  <2>1. d \in answered
    BY <1>3, <1>4 DEF ReceiveOperation
  <2> QED
    BY <1>3, <1>4, <2>1, ReceiveKeeps DEF ReceiveOperation, rows
<1>5. CASE ReadDocument(c)
  <2>1. CASE Close(c) \/ Done(c)
    BY <1>5, <2>1, EndKeeps DEF ReadDocument, rows
  <2>2. CASE /\ GoTo(c, "increment")
             /\ local' = [local EXCEPT ![c].author = creator[local[c].doc] = Owner[c]]
    <3>1. /\ pc'[c] = "increment" /\ local'[c].doc = local[c].doc
          /\ local'[c].author <=> creator[local[c].doc] = Owner[c]
          /\ \A e \in Conn \ {c} : pc'[e] = pc[e] /\ local'[e] = local[e]
      BY <1>1, <2>2 DEF GoTo, Local
    <3>2. UNCHANGED <<creator, sequence, counter, request, room, edited, answered>> /\ Active(c)
      BY <1>5 DEF ReadDocument, rows, Active
    <3> QED
      BY <1>2, <1>3, <3>1, <3>2, HandlerKeeps
  <2> QED
    BY <1>5, <2>1, <2>2 DEF ReadDocument
<1>6. CASE Increment(c)
  <2> DEFINE d == local[c].doc
  <2>1. d \in answered /\ d \in Doc
    BY <1>1, <1>2, <1>6 DEF Increment, Active
  <2>2. /\ pc'[c] = "commit" /\ local'[c].doc = d /\ local'[c].seq = counter'[d]
        /\ local'[c].author = local[c].author
        /\ \A e \in Conn \ {c} : pc'[e] = pc[e] /\ local'[e] = local[e]
        /\ counter'[d] = counter[d] + 1
        /\ \A e \in Doc \ {d} : counter'[e] = counter[e]
    BY <1>1, <1>6, <2>1 DEF Increment, GoTo, Local
  <2>3. UNCHANGED <<creator, sequence, request, room, edited, answered>>
        /\ pc[c] = "increment"
    BY <1>6 DEF Increment
  <2> HIDE DEF d
  <2>4. \A e \in Doc : counter[e] <= counter'[e] /\ counter'[e] \in Nat
    BY <1>1, <2>1, <2>2
  <2>5. CreationInv'
    <3>1. Numbered'
      BY <1>1, <2>3, <2>4 DEF Inv, CreationInv, Numbered
    <3> QED
      BY <2>3, <3>1 DEF Inv, CreationInv, NewDocs, OneCreator, RowIsNew
  <2>6. RoomsAreAnswered'
    BY <2>1, <2>2, <2>3 DEF Inv, HandlersInv, RoomsAreAnswered, Active
  <2>7. SeqWasIssued'
    <3> SUFFICES ASSUME NEW e \in Conn, pc'[e] = "commit"
                 PROVE  local'[e].seq \in 1 .. counter'[local'[e].doc]
      BY DEF SeqWasIssued
    <3>1. CASE e = c
      BY <1>1, <2>1, <2>2, <3>1
    <3>2. CASE e # c
      <4>1. pc[e] = "commit" /\ local'[e] = local[e]
        BY <2>2, <3>2
      <4>2. local[e].doc \in Doc /\ local[e].seq \in 1 .. counter[local[e].doc]
        BY <1>1, <4>1 DEF Inv, HandlersInv, SeqWasIssued, RoomsAreAnswered, Active
      <4> QED
        BY <1>1, <2>4, <4>1, <4>2
    <3> QED
      BY <3>1, <3>2
  <2>8. AuthorIsCreator'
    <3> SUFFICES ASSUME NEW e \in Conn, pc'[e] \in KnowsAuthor,
                        creator[local'[e].doc] # None
                 PROVE  local'[e].author <=> creator[local'[e].doc] = Owner[e]
      BY <2>3 DEF AuthorIsCreator, KnowsAuthor
    <3>1. /\ pc[e] \in KnowsAuthor /\ local'[e].doc = local[e].doc
          /\ local'[e].author = local[e].author
      BY <2>2, <2>3 DEF KnowsAuthor, d
    <3> QED
      BY <3>1 DEF Inv, HandlersInv, AuthorIsCreator
  <2>9. PromotedEdited'
    BY <2>2, <2>3 DEF Inv, HandlersInv, PromotedEdited
  <2> QED
    BY <2>5, <2>6, <2>7, <2>8, <2>9 DEF HandlersInv
<1>7. CASE Commit(c)
  <2> DEFINE d == local[c].doc
  <2>1. CASE Close(c) /\ UNCHANGED <<sequence, edited>>
    BY <1>7, <2>1, EndKeeps DEF Commit
  <2>2. CASE /\ sequence' = [sequence EXCEPT ![d] = local[c].seq]
             /\ edited' = edited \cup {<<d, Owner[c]>>}
             /\ Done(c) \/ (GoTo(c, "promote") /\ UNCHANGED local)
    <3>1. /\ d \in answered /\ d \in Doc /\ local[c].seq \in 1 .. counter[d]
          /\ UNCHANGED <<creator, counter, request, room, answered>>
      BY <1>1, <1>2, <1>7 DEF Commit, Active, Inv, HandlersInv, SeqWasIssued
    <3>2. /\ \/ pc'[c] = "idle"
             \/ pc'[c] = "promote" /\ local'[c] = local[c]
          /\ \A e \in Conn \ {c} : pc'[e] = pc[e] /\ local'[e] = local[e]
      BY <1>1, <2>2 DEF Done, GoTo
    <3>3. /\ sequence'[d] \in 1 .. counter'[d]
          /\ \A e \in Doc \ {d} : sequence'[e] = sequence[e]
      BY <1>1, <2>2, <3>1
    <3>4. edited \subseteq edited' /\ <<d, Owner[c]>> \in edited'
      BY <2>2
    <3> HIDE DEF d
    <3>5. RowIsNew'
      <4> SUFFICES ASSUME NEW u \in User, request[u].step \in {"reread", "count"}
                   PROVE  sequence'[request[u].doc] = 1
        BY <3>1 DEF RowIsNew
      <4>1. request[u].doc \in Doc \ answered
        BY DEF Inv, CreationInv, NewDocs
      <4>2. request[u].doc \in Doc \ {d}
        BY <3>1, <4>1
      <4> QED
        BY <3>3, <4>2 DEF Inv, CreationInv, RowIsNew
    <3>6. Numbered'
      BY <1>1, <3>1, <3>3 DEF Inv, CreationInv, Numbered
    <3>7. NewDocs' /\ OneCreator'
      BY <3>1 DEF Inv, CreationInv, NewDocs, OneCreator
    <3>8. RoomsAreAnswered'
      BY <3>1, <3>2 DEF Inv, HandlersInv, RoomsAreAnswered, Active, d
    <3>9. SeqWasIssued' /\ AuthorIsCreator'
      BY <3>1, <3>2 DEF Inv, HandlersInv, SeqWasIssued, AuthorIsCreator, KnowsAuthor
    <3>10. PromotedEdited'
      BY <3>2, <3>4 DEF Inv, HandlersInv, PromotedEdited, d
    <3> QED
      BY <3>5, <3>6, <3>7, <3>8, <3>9, <3>10 DEF CreationInv, HandlersInv
  <2> QED
    BY <1>7, <2>1, <2>2 DEF Commit
<1>8. CASE PromoteRole(c)
  BY <1>8, EndKeeps DEF PromoteRole
<1> QED
  BY <1>4, <1>5, <1>6, <1>7, <1>8

\* A deleted account leaves no creator behind, but numbers stay.
LEMMA DeletionKeeps ==
    ASSUME Inv, NEW u \in User, DeleteAccount(u)
    PROVE  CreationInv' /\ HandlersInv'
<1>1. /\ UNCHANGED <<sequence, counter, request, room, pc, local, answered, edited>>
      /\ \A d \in Doc : creator'[d] \in {None, creator[d]}
  BY DEF DeleteAccount
<1>2. CreationInv'
  BY <1>1 DEF Inv, CreationInv, NewDocs, OneCreator, RowIsNew, Numbered
<1>3. RoomsAreAnswered' /\ SeqWasIssued' /\ PromotedEdited'
  BY <1>1 DEF Inv, HandlersInv, RoomsAreAnswered, SeqWasIssued, PromotedEdited, Active
<1>4. AuthorIsCreator'
  <2> SUFFICES ASSUME NEW c \in Conn, pc[c] \in KnowsAuthor,
                      creator'[local[c].doc] # None
               PROVE  local[c].author <=> creator'[local[c].doc] = Owner[c]
    BY <1>1 DEF AuthorIsCreator, KnowsAuthor
  <2>1. local[c].doc \in Doc
    BY DEF Inv, TypeInv, DocsAreSet, KnowsAuthor
  <2>2. creator'[local[c].doc] = creator[local[c].doc]
    BY <1>1, <2>1
  <2> QED
    BY <2>2 DEF Inv, HandlersInv, AuthorIsCreator
<1> QED
  BY <1>2, <1>3, <1>4 DEF HandlersInv

LEMMA InvNext == Inv /\ [Next]_vars => Inv'
<1> SUFFICES ASSUME Inv, [Next]_vars PROVE CreationInv' /\ HandlersInv'
  BY TypeNext DEF Inv
<1>1. CASE UNCHANGED vars
  BY <1>1 DEF vars, rows, Inv, CreationInv, NewDocs, OneCreator, RowIsNew, Numbered,
     HandlersInv, RoomsAreAnswered, SeqWasIssued, AuthorIsCreator, PromotedEdited, Active
<1>2. CASE Next
  <2>1. CASE \E u \in User :
                \/ Create(u) \/ Insert(u) \/ Reread(u) \/ Count(u) \/ CreationFails(u)
                \/ DeleteAccount(u)
    BY <2>1, CreationNext, DeletionKeeps
  <2>2. ASSUME NEW c \in Conn,
               \/ \E d \in Doc : ReceiveJoin(c, d) \/ ReceiveLeave(c, d) \/ CleanUp(c, d)
               \/ JoinReadDocument(c) \/ JoinReadMember(c) \/ SaveMember(c)
               \/ CreateMember(c) \/ LeaveReadMember(c) \/ DeleteMember(c)
               \/ \E d \in Doc : ReceiveOperation(c, d)
               \/ ReadDocument(c) \/ Increment(c) \/ Commit(c) \/ PromoteRole(c)
               \/ CallFails(c) \/ Connect(c)
        PROVE  CreationInv' /\ HandlersInv'
    BY <2>2, JoinKeeps, LeaveKeeps, OperationKeeps
  <2> QED
    BY <1>2, <2>1, <2>2 DEF Next
<1> QED
  BY <1>1, <1>2

(* Whatever creations, edits, failures and deletions run at the same time, *)
(* a document whose creation was answered has its counter, and the number  *)
(* of its row was issued by it (create_document, _update_document).        *)
THEOREM NumbersAreThere == Spec => []AnsweredIsNumbered
<1>1. Init => Inv
  BY TypeInit, InvInit DEF Inv
<1>2. Inv /\ [Next]_vars => Inv'
  BY InvNext
<1>3. Inv => AnsweredIsNumbered
  BY DEF Inv, CreationInv, Numbered, AnsweredIsNumbered
<1> QED
  BY <1>1, <1>2, <1>3, PTL DEF Spec

-----------------------------------------------------------------------------
\* A handler writes the row of its own user in its own document.
LEMMA WriteRowWrites ==
    ASSUME Inv, NEW c \in Conn, NEW role \in Role \cup {None}, WriteRow(c, role),
           Active(c)
    PROVE  /\ member'[local[c].doc][Owner[c]] = role
           /\ \A d \in Doc, u \in User :
                 <<d, u>> # <<local[c].doc, Owner[c]>> => member'[d][u] = member[d][u]
<1>1. member \in [Doc -> [User -> Role \cup {None}]] /\ local[c].doc \in Doc /\ Owner[c] \in User
  BY DocumentsAssumption DEF Inv, TypeInv, TypeOK, DocsAreSet, Active
<1> QED
  BY <1>1 DEF WriteRow

LEMMA RoleStep ==
    ASSUME Inv, [Next]_vars, NEW d \in Doc, NEW u \in User
    PROVE  RoleChange(d, u)
<1>1. /\ member \in [Doc -> [User -> Role \cup {None}]] /\ room \in [Conn -> SUBSET Doc]
      /\ Owner \in [Conn -> User]
  BY DocumentsAssumption DEF Inv, TypeInv, TypeOK
<1>2. ASSUME NEW c \in Conn, CreateMember(c) PROVE RoleChange(d, u)
  <2>1. CASE UNCHANGED member
    BY <2>1 DEF RoleChange
  <2>2. CASE RowOf(c) = None /\ creator[local[c].doc] # None /\ WriteRow(c, NewRole(c))
    <3>1. Active(c) /\ pc[c] \in KnowsAuthor
      BY <1>2 DEF CreateMember, Active, KnowsAuthor
    <3>2. /\ member'[local[c].doc][Owner[c]] = NewRole(c)
          /\ \A e \in Doc, v \in User :
                <<e, v>> # <<local[c].doc, Owner[c]>> => member'[e][v] = member[e][v]
      BY <2>2, <3>1, WriteRowWrites DEF NewRole, Role
    <3>3. local[c].author <=> creator[local[c].doc] = Owner[c]
      BY <2>2, <3>1 DEF Inv, HandlersInv, AuthorIsCreator
    <3>4. CASE <<d, u>> = <<local[c].doc, Owner[c]>>
      <4>1. d = local[c].doc /\ u = Owner[c]
        BY <3>4
      <4> QED
        BY <2>2, <3>2, <3>3, <4>1 DEF RoleChange, NewRole, RowOf
    <3>5. CASE <<d, u>> # <<local[c].doc, Owner[c]>>
      BY <3>2, <3>5 DEF RoleChange
    <3> QED
      BY <3>4, <3>5
  <2> QED
    BY <1>2, <2>1, <2>2 DEF CreateMember
<1>3. ASSUME NEW c \in Conn, PromoteRole(c) PROVE RoleChange(d, u)
  <2>1. <<local[c].doc, Owner[c]>> \in edited' /\ local[c].doc \in Doc
    BY <1>3 DEF PromoteRole, Inv, TypeInv, DocsAreSet, HandlersInv, PromotedEdited
  <2>2. member'[d][u] = IF u = Owner[c] /\ member[d][u] = "viewer" THEN "editor" ELSE member[d][u]
    BY <1>1, <1>3 DEF PromoteRole, Matches
  <2> QED
    BY <2>1, <2>2 DEF RoleChange
<1>4. ASSUME NEW c \in Conn, DeleteMember(c) PROVE RoleChange(d, u)
  <2>1. member'[d][u] \in {member[d][u], None}
    BY ZenonT(40), <1>1, <1>4, WriteRowWrites DEF DeleteMember, Active
  <2> QED
    BY <2>1 DEF RoleChange
<1>5. ASSUME NEW c \in Conn, NEW e \in Doc, CleanUp(c, e) PROVE RoleChange(d, u)
  <2>1. member'[d][u] \in {member[d][u], None}
    BY <1>1, <1>5 DEF CleanUp
  <2> QED
    BY <2>1 DEF RoleChange
<1>6. ASSUME NEW v \in User, DeleteAccount(v) PROVE RoleChange(d, u)
  <2>1. member'[d][u] \in {member[d][u], None}
    BY <1>1, <1>6 DEF DeleteAccount
  <2> QED
    BY <2>1 DEF RoleChange
<1>7. UNCHANGED member => RoleChange(d, u)
  BY DEF RoleChange
<1>8. CASE UNCHANGED vars
  BY <1>7, <1>8 DEF vars, rows
<1>9. CASE Next
  <2>1. ASSUME NEW v \in User,
               Create(v) \/ Insert(v) \/ Reread(v) \/ Count(v) \/ CreationFails(v)
        PROVE  RoleChange(d, u)
    BY <1>7, <2>1 DEF Create, Insert, Reread, Count, CreationFails, rows
  <2>2. ASSUME NEW c \in Conn,
               \/ \E e \in Doc : ReceiveJoin(c, e) \/ ReceiveLeave(c, e) \/ ReceiveOperation(c, e)
               \/ JoinReadDocument(c) \/ JoinReadMember(c) \/ SaveMember(c)
               \/ LeaveReadMember(c) \/ ReadDocument(c) \/ Increment(c) \/ Commit(c)
               \/ CallFails(c) \/ Connect(c)
        PROVE  RoleChange(d, u)
    BY <1>7, <2>2 DEF ReceiveJoin, ReceiveLeave, ReceiveOperation, JoinReadDocument,
       JoinReadMember, SaveMember, LeaveReadMember, ReadDocument, Increment, Commit,
       CallFails, Connect, rows
  <2> QED
    BY <1>2, <1>3, <1>4, <1>5, <1>6, <1>9, <2>1, <2>2 DEF Next
<1> QED
  BY <1>8, <1>9

(* Roles are earned for any number of users, connections and documents: a  *)
(* joiner is the author or a viewer, and a viewer becomes an editor only   *)
(* after an edit of theirs was committed.                                  *)
THEOREM RolesEarned == Spec => RolesAreEarned
<1>1. Init => Inv
  BY TypeInit, InvInit DEF Inv
<1>2. Inv /\ [Next]_vars => Inv'
  BY InvNext
<1>3. Inv /\ [Next]_vars => [\A d \in Doc, u \in User : RoleChange(d, u)]_vars
  BY RoleStep
<1> QED
  BY <1>1, <1>2, <1>3, PTL DEF Spec, RolesAreEarned

=============================================================================
