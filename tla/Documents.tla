------------------------------ MODULE Documents ------------------------------
(***************************************************************************)
(* Documents and their members: DocumentService of                         *)
(* app/api/services/document.py, with the rows of documents and            *)
(* document_members and each document's counter in Redis, as requests to   *)
(* create a document or to delete an account and the websocket handlers    *)
(* use them.  A user may have several connections, and these may be in     *)
(* several documents: a role belongs to a user and a document.             *)
(*                                                                         *)
(* Of the handlers there is what reads or writes these rows and counters:  *)
(* Room.tla and Operations.tla have them in full, for one document.        *)
(***************************************************************************)
EXTENDS Naturals, FiniteSets

CONSTANTS
    User,
    Conn,
    Owner,   \* the user of a connection
    Doc,     \* the ids that uuid7 gives
    None,
    Faults,  \* what may go wrong in this run
    MaxSeq   \* bound: no edit starts at a counter that has reached it

ASSUME DocumentsAssumption ==
    /\ Owner \in [Conn -> User]
    /\ None \notin User \cup {"author", "editor", "viewer"}
    /\ Faults \subseteq {"storage", "retry", "account"}
    /\ MaxSeq \in Nat

VARIABLES
    account,   \* table users
    creator,   \* table documents: created_by, None if there is no row
    sequence,  \* table documents: sequence, 0 before there was a row
    counter,   \* Redis doc:{id}:seq, 0 if there is no key
    member,    \* table document_members: the role of a user, None if there is no row
    request,   \* the request of a user to create a document
    room,      \* registry.active_connections
    pc,        \* the call a connection's handler is at
    local,     \* its locals
    \* history, which the program does not keep:
    answered,  \* documents whose creation was answered
    edited     \* who committed an edit

rows == <<account, creator, sequence, counter, member>>
vars == <<account, creator, sequence, counter, member, request, room, pc, local,
          answered, edited>>

-----------------------------------------------------------------------------
Role == {"author", "editor", "viewer"}
Creating == {"none", "insert", "reread", "count"}
Handling == {"idle", "join document", "join member", "join save", "leave member",
             "leave delete", "document", "increment", "commit", "promote", "closed"}
NoLocal == [doc |-> None, row |-> None, author |-> FALSE, seq |-> 0]

Init ==
    /\ account = User
    /\ creator = [d \in Doc |-> None]
    /\ sequence = [d \in Doc |-> 0] /\ counter = [d \in Doc |-> 0]
    /\ member = [d \in Doc |-> [u \in User |-> None]]
    /\ request = [u \in User |-> [step |-> "none", doc |-> None]]
    /\ room = [c \in Conn |-> {}]
    /\ pc = [c \in Conn |-> "idle"]
    /\ local = [c \in Conn |-> NoLocal]
    /\ answered = {} /\ edited = {}

-----------------------------------------------------------------------------
(* POST /documents                                                         *)

Step(u, step) == request' = [request EXCEPT ![u].step = step]
Answer(u) == request' = [request EXCEPT ![u] = [step |-> "none", doc |-> None]]

Create(u) ==
    /\ u \in account /\ request[u].step = "none"
    /\ \E d \in Doc :
          /\ sequence[d] = 0 /\ \A v \in User : request[v].doc # d
          /\ request' = [request EXCEPT ![u] = [step |-> "insert", doc |-> d]]
    /\ UNCHANGED <<rows, room, pc, local, answered, edited>>

\* created_by is a foreign key.
Insert(u) ==
    /\ request[u].step = "insert"
    /\ IF u \in account
       THEN /\ creator' = [creator EXCEPT ![request[u].doc] = u]
            /\ sequence' = [sequence EXCEPT ![request[u].doc] = 1]
            /\ Step(u, "reread")
       ELSE Answer(u) /\ UNCHANGED <<creator, sequence>>
    /\ UNCHANGED <<account, counter, member, room, pc, local, answered, edited>>

\* Mutant: the row is enough for an answer, the counter comes after it.
RereadAndAnswer(u) ==
    /\ request[u].step = "reread"
    /\ IF creator[request[u].doc] = None
       THEN Answer(u) /\ UNCHANGED answered
       ELSE Step(u, "count") /\ answered' = answered \cup {request[u].doc}
    /\ UNCHANGED <<rows, room, pc, local, edited>>

\* A row that is gone again is None, and None has no id.
Reread(u) ==
    /\ request[u].step = "reread"
    /\ IF creator[request[u].doc] = None THEN Answer(u) ELSE Step(u, "count")
    /\ UNCHANGED <<rows, room, pc, local, answered, edited>>

\* INCR, which the client library may repeat.
Incremented(d) ==
    \/ counter' = [counter EXCEPT ![d] = @ + 1]
    \/ "retry" \in Faults /\ counter' = [counter EXCEPT ![d] = @ + 2]

Count(u) ==
    /\ request[u].step = "count"
    /\ Incremented(request[u].doc)
    /\ Answer(u)
    /\ answered' = answered \cup {request[u].doc}
    /\ UNCHANGED <<account, creator, sequence, member, room, pc, local, edited>>

\* A call raises, before or after it took effect: the answer is an error, and
\* the rollback, which is not awaited, does nothing.
CreationFails(u) ==
    /\ "storage" \in Faults
    /\ request[u].step # "none"
    /\ Answer(u)
    /\ \/ UNCHANGED <<creator, sequence, counter>>
       \/ /\ request[u].step = "insert" /\ u \in account
          /\ creator' = [creator EXCEPT ![request[u].doc] = u]
          /\ sequence' = [sequence EXCEPT ![request[u].doc] = 1]
          /\ UNCHANGED counter
       \/ /\ request[u].step = "count"
          /\ Incremented(request[u].doc)
          /\ UNCHANGED <<creator, sequence>>
    /\ UNCHANGED <<account, member, room, pc, local, answered, edited>>

\* delete_user: the foreign keys cascade.  The Redis keys stay, and so do the
\* user's connections.
DeleteAccount(u) ==
    /\ "account" \in Faults /\ u \in account
    /\ account' = account \ {u}
    /\ creator' = [d \in Doc |-> IF creator[d] = u THEN None ELSE creator[d]]
    /\ member' = [d \in Doc |-> [v \in User |->
           IF u \in {v, creator[d]} THEN None ELSE member[d][v]]]
    /\ UNCHANGED <<sequence, counter, request, room, pc, local, answered, edited>>

-----------------------------------------------------------------------------
(* Steps that the handlers share.                                          *)

GoTo(c, step) == pc' = [pc EXCEPT ![c] = step]
Done(c) == GoTo(c, "idle") /\ local' = [local EXCEPT ![c] = NoLocal]

\* A WebSocketException ends the endpoint, without a clean-up.
Close(c) == GoTo(c, "closed") /\ local' = [local EXCEPT ![c] = NoLocal]

Receive(c, d, step) ==
    /\ pc[c] = "idle"
    /\ local' = [local EXCEPT ![c] = [NoLocal EXCEPT !.doc = d]]
    /\ GoTo(c, step)

\* The row of the connection's user in the document of its message.
RowOf(c) == member[local[c].doc][Owner[c]]
WriteRow(c, role) == member' = [member EXCEPT ![local[c].doc][Owner[c]] = role]

\* A read or a write of the handler raises before it took effect.
CallFails(c) ==
    /\ "storage" \in Faults
    /\ pc[c] \notin {"idle", "closed"}
    /\ Close(c)
    /\ UNCHANGED <<rows, request, room, answered, edited>>

-----------------------------------------------------------------------------
(* process_join_event                                                      *)

\* Only who was told of a document knows its id.
ReceiveJoin(c, d) ==
    /\ d \in answered
    /\ Receive(c, d, "join document")
    /\ room' = [room EXCEPT ![c] = @ \cup {d}]
    /\ UNCHANGED <<rows, request, answered, edited>>

JoinReadDocument(c) ==
    /\ pc[c] = "join document"
    /\ IF creator[local[c].doc] = None
       THEN Close(c)
       ELSE /\ local' = [local EXCEPT ![c].author = creator[local[c].doc] = Owner[c]]
            /\ GoTo(c, "join member")
    /\ UNCHANGED <<rows, request, room, answered, edited>>

JoinReadMember(c) ==
    /\ pc[c] = "join member"
    /\ local' = [local EXCEPT ![c].row = RowOf(c)]
    /\ GoTo(c, "join save")
    /\ UNCHANGED <<rows, request, room, answered, edited>>

\* Mutant: the whole row is written, as it was read.
SaveAllColumns(c) ==
    /\ pc[c] = "join save" /\ local[c].row # None
    /\ IF RowOf(c) = None
       THEN Close(c) /\ UNCHANGED member
       ELSE WriteRow(c, local[c].row) /\ Done(c)
    /\ UNCHANGED <<account, creator, sequence, counter, request, room, answered, edited>>

\* A row that is there gets a new joined_at; the columns that were not assigned
\* are not written.  A row that is gone meanwhile raises.
SaveMember(c) ==
    /\ pc[c] = "join save" /\ local[c].row # None
    /\ IF RowOf(c) = None THEN Close(c) ELSE Done(c)
    /\ UNCHANGED <<rows, request, room, answered, edited>>

\* Mutant: a role the column does not have.
RoleOfCreator(c) == IF local[c].author THEN "creator" ELSE "viewer"

NewRole(c) == IF local[c].author THEN "author" ELSE "viewer"

\* The primary key and the foreign keys of document_members may refuse the row.
CreateMember(c) ==
    /\ pc[c] = "join save" /\ local[c].row = None
    /\ IF RowOf(c) = None /\ creator[local[c].doc] # None /\ Owner[c] \in account
       THEN WriteRow(c, NewRole(c)) /\ Done(c)
       ELSE Close(c) /\ UNCHANGED member
    /\ UNCHANGED <<account, creator, sequence, counter, request, room, answered, edited>>

-----------------------------------------------------------------------------
(* process_leave_event and cleanup_connection                              *)

ReceiveLeave(c, d) ==
    /\ d \in room[c]
    /\ Receive(c, d, "leave member")
    /\ room' = [room EXCEPT ![c] = @ \ {d}]
    /\ UNCHANGED <<rows, request, answered, edited>>

LeaveReadMember(c) ==
    /\ pc[c] = "leave member"
    /\ IF RowOf(c) = None THEN Close(c) ELSE GoTo(c, "leave delete") /\ UNCHANGED local
    /\ UNCHANGED <<rows, request, room, answered, edited>>

\* A row that is gone meanwhile is no error.
DeleteMember(c) ==
    /\ pc[c] = "leave delete"
    /\ WriteRow(c, None)
    /\ Done(c)
    /\ UNCHANGED <<account, creator, sequence, counter, request, room, answered, edited>>

\* The presence key of a connection that ended expires; Room.tla has the steps.
CleanUp(c, d) ==
    /\ pc[c] = "closed" /\ d \in room[c]
    /\ room' = [room EXCEPT ![c] = @ \ {d}]
    /\ member' = [member EXCEPT ![d][Owner[c]] = None]
    /\ UNCHANGED <<account, creator, sequence, counter, request, pc, local, answered, edited>>

\* The client opens a new socket, once nothing is left of the old one.
Connect(c) ==
    /\ pc[c] = "closed" /\ room[c] = {} /\ Owner[c] \in account
    /\ GoTo(c, "idle")
    /\ UNCHANGED <<rows, request, room, local, answered, edited>>

-----------------------------------------------------------------------------
(* process_operation_event                                                 *)

ReceiveOperation(c, d) ==
    /\ d \in room[c] /\ counter[d] < MaxSeq
    /\ Receive(c, d, "document")
    /\ UNCHANGED <<rows, request, room, answered, edited>>

\* Without a row, or without a counter (int(None)), the endpoint ends.  It also
\* ends when the client's number is not acceptable, and an edit may be discarded.
ReadDocument(c) ==
    /\ pc[c] = "document"
    /\ \/ Close(c)
       \/ Done(c)
       \/ /\ creator[local[c].doc] # None /\ counter[local[c].doc] > 0
          /\ local' = [local EXCEPT ![c].author = creator[local[c].doc] = Owner[c]]
          /\ GoTo(c, "increment")
    /\ UNCHANGED <<rows, request, room, answered, edited>>

\* (Operations.tla has the repeated INCR of an edit.)
Increment(c) ==
    /\ pc[c] = "increment"
    /\ counter' = [counter EXCEPT ![local[c].doc] = @ + 1]
    /\ local' = [local EXCEPT ![c].seq = counter'[local[c].doc]]
    /\ GoTo(c, "commit")
    /\ UNCHANGED <<account, creator, sequence, member, request, room, answered, edited>>

\* _update_document.
Commit(c) ==
    /\ pc[c] = "commit"
    /\ IF creator[local[c].doc] = None
       THEN Close(c) /\ UNCHANGED <<sequence, edited>>
       ELSE /\ sequence' = [sequence EXCEPT ![local[c].doc] = local[c].seq]
            /\ edited' = edited \cup {<<local[c].doc, Owner[c]>>}
            /\ IF local[c].author THEN Done(c) ELSE GoTo(c, "promote") /\ UNCHANGED local
    /\ UNCHANGED <<account, creator, counter, member, request, room, answered>>

\* Mutant: the filter "role" is not passed.
MatchesUser(role) == role # None

\* _get_filters knows document_id, user_id and role, and _update_member_role
\* passes doc_id: the rows of all documents match.
Matches(role) == role = "viewer"

\* _update_member_role.
PromoteRole(c) ==
    /\ pc[c] = "promote"
    /\ member' = [d \in Doc |-> [member[d] EXCEPT
           ![Owner[c]] = IF Matches(@) THEN "editor" ELSE @]]
    /\ Done(c)
    /\ UNCHANGED <<account, creator, sequence, counter, request, room, answered, edited>>

-----------------------------------------------------------------------------
Next ==
    \/ \E u \in User :
          \/ Create(u) \/ Insert(u) \/ Reread(u) \/ Count(u) \/ CreationFails(u)
          \/ DeleteAccount(u)
    \/ \E c \in Conn :
          \/ \E d \in Doc : ReceiveJoin(c, d) \/ ReceiveLeave(c, d) \/ CleanUp(c, d)
          \/ JoinReadDocument(c) \/ JoinReadMember(c) \/ SaveMember(c) \/ CreateMember(c)
          \/ LeaveReadMember(c) \/ DeleteMember(c)
          \/ \E d \in Doc : ReceiveOperation(c, d)
          \/ ReadDocument(c) \/ Increment(c) \/ Commit(c) \/ PromoteRole(c)
          \/ CallFails(c) \/ Connect(c)

Spec == Init /\ [][Next]_vars

-----------------------------------------------------------------------------
TypeOK ==
    /\ account \subseteq User
    /\ creator \in [Doc -> User \cup {None}]
    /\ sequence \in [Doc -> Nat] /\ counter \in [Doc -> Nat]
    /\ member \in [Doc -> [User -> Role \cup {None}]]
    /\ request \in [User -> [step : Creating, doc : Doc \cup {None}]]
    /\ room \in [Conn -> SUBSET Doc]
    /\ pc \in [Conn -> Handling]
    /\ local \in [Conn -> [doc : Doc \cup {None}, row : Role \cup {None},
                           author : BOOLEAN, seq : Nat]]
    /\ answered \subseteq Doc /\ edited \subseteq Doc \X User

(* A document that its creator was told of has its counter, and its row    *)
(* has a number that was issued.  (create_document commits the row before  *)
(* it increments the counter.)                                             *)
AnsweredIsNumbered ==
    \A d \in answered : creator[d] # None => sequence[d] \in 1 .. counter[d]

(* The role of a row that stays changes in one way, from viewer to editor, *)
(* for a user who committed an edit, if only to another document           *)
(* (_update_member_role), whatever joins, leaves and deletions run at the  *)
(* same time; and the author's row is the creator's.                       *)
RoleChange(d, u) ==
    \/ member[d][u] = "viewer" /\ member'[d][u] = "editor"
       /\ \E e \in Doc : <<e, u>> \in edited'
    \/ member[d][u] = None
       /\ member'[d][u] = IF creator[d] = u THEN "author" ELSE "viewer"
    \/ member'[d][u] \in {member[d][u], None}

RolesAreEarned == [][\A d \in Doc, u \in User : RoleChange(d, u)]_vars

=============================================================================
