----------------------------- MODULE Operations -----------------------------
(***************************************************************************)
(* The edits of one document: process_operation_event and                  *)
(* process_replay_event of app/api/services/websocket.py, with the Redis   *)
(* and Postgres state they share.                                          *)
(*                                                                         *)
(* Every websocket connection is a coroutine (possibly in another server   *)
(* process) that handles one message at a time.  A handler gives way at    *)
(* each await, so it is a sequence of actions here, one per call to Redis, *)
(* to Postgres or to the socket, and the handlers of other connections run *)
(* between any two of them.  What a handler carries from one await to the  *)
(* next is in local[c].                                                    *)
(*                                                                         *)
(* Joining and leaving are single steps here, whose interleavings Room.tla *)
(* has.  No handler here reads a row of document_members: the rows are     *)
(* Room.tla's and, with their roles, Documents.tla's.                      *)
(***************************************************************************)
EXTENDS Transformation, FiniteSets

CONSTANTS
    Conn,           \* connections, each of a different user
    Author,         \* those of the user who created the document
    Requests,       \* the edits clients send
    Bases,          \* the base_seq and replay.seq values clients send
    InitialContent, \* the content the document was created with
    Faults,         \* what may go wrong in this run
    MaxSeq          \* bound: no edit is received when MaxSeq could be passed

FaultKinds == {"storage", "retry", "publish", "socket", "message",
               "expiry", "delete"}

ASSUME OperationsAssumption ==
    /\ IsFiniteSet(Conn)
    /\ Author \subseteq Conn
    /\ Requests \subseteq Operation
    /\ Bases \subseteq Nat
    /\ InitialContent \in Document
    /\ Faults \subseteq FaultKinds
    /\ MaxSeq \in Nat

VARIABLES
    counter,    \* Redis doc:{id}:seq
    log,        \* Redis doc:{id}:ops, a sorted set: members with a score each
    stored,     \* the document's row in Postgres
    inRoom,     \* the connection is in registry.active_connections
    open,       \* the endpoint's receive loop runs
    up,         \* the client's end of the socket is alive
    pc,         \* the await the connection's handler is at
    local,      \* the locals of that handler
    \* history, which the program does not keep:
    issued,     \* the edits that were given a number
    committed,  \* the edits whose document update was committed
    acked,      \* the edits acknowledged to their author
    published   \* the edits published to the room

ledger == <<issued, committed, acked, published>>
session == <<inRoom, open, up>>
vars == <<counter, log, stored, inRoom, open, up, pc, local,
          issued, committed, acked, published>>

-----------------------------------------------------------------------------
LogEntry == [op : Operation, score : Nat]
Edit     == [seq : Nat, op : Operation, conn : Conn]    \* a numbered edit
Row      == [exists : BOOLEAN, content : Document, sequence : Nat]

\* The awaits of process_operation_event and of process_replay_event.
Editing   == {"document", "sequence", "log", "increment", "record", "commit",
              "role", "ack", "publish"}
Replaying == {"replay sequence", "replay log", "replay send"}
PC        == {"idle"} \cup Editing \cup Replaying

Numbered == {"record", "commit", "role", "ack", "publish"}   \* new_seq is known
Busy     == {c \in Conn : pc[c] # "idle"}

Local == [ op    : Operation,   \* op2, as the client sent it until it is rebased
           base  : Nat,         \* base_seq, or replay.seq and what was sent since
           curr  : Nat,         \* curr_seq
           snap  : Document,    \* document.content as it was read
           draft : Document,    \* updated_doc
           seq   : Nat,         \* new_seq
           batch : SUBSET LogEntry ]    \* op_log of a replay

NoOp == [kind |-> "insert", pos |-> 0, text |-> <<>>]
NoLocal == [op |-> NoOp, base |-> 0, curr |-> 0, snap |-> <<>>, draft |-> <<>>,
            seq |-> 0, batch |-> {}]

\* create_document: the row has sequence 1, and the counter was incremented once.
Init ==
    /\ counter = 1
    /\ log = {}
    /\ stored = [exists |-> TRUE, content |-> InitialContent, sequence |-> 1]
    /\ inRoom = [c \in Conn |-> TRUE]
    /\ open = [c \in Conn |-> TRUE]
    /\ up = [c \in Conn |-> TRUE]
    /\ pc = [c \in Conn |-> "idle"]
    /\ local = [c \in Conn |-> NoLocal]
    /\ issued = {} /\ committed = {} /\ acked = {} /\ published = {}

-----------------------------------------------------------------------------
(* What Redis and Postgres do (external).                                  *)

\* ZADD: a member is in the set once, with the score it was last added with.
ZAdd(set, op, score) == {e \in set : e.op # op} \cup {[op |-> op, score |-> score]}

ZRangeByScore(set, low, high) == {e \in set : low <= e.score /\ e.score <= high}

\* op_log[-1]: the range is read in score order.
IsLast(e, range) == e \in range /\ \A f \in range : f.score <= e.score

\* Mutant: the text is not assigned.
RowWithoutText(h) == [exists |-> TRUE, content |-> stored.content, sequence |-> h.seq]

\* UPDATE documents: SQLAlchemy writes the columns whose value is not the one
\* that was read.  The sequence always is another.
RowWith(h) ==
    [ exists |-> TRUE,
      content |-> IF h.draft = h.snap THEN stored.content ELSE h.draft,
      sequence |-> h.seq ]

-----------------------------------------------------------------------------
(* Steps that several handlers share.                                      *)

GoTo(c, step) == pc' = [pc EXCEPT ![c] = step]
Finish(c) == GoTo(c, "idle") /\ local' = [local EXCEPT ![c] = NoLocal]

\* An exception other than WebSocketDisconnect leaves the receive loop: the
\* endpoint ends, and nothing is cleaned up.
Fail(c) ==
    /\ Finish(c)
    /\ open' = [open EXCEPT ![c] = FALSE]
    /\ UNCHANGED <<inRoom, up>>

\* WebSocketDisconnect: the endpoint runs cleanup_connection before it ends.
Disconnect(c) ==
    /\ Finish(c)
    /\ open' = [open EXCEPT ![c] = FALSE]
    /\ inRoom' = [inRoom EXCEPT ![c] = FALSE]
    /\ UNCHANGED up

\* ConnectionRegistry.broadcast to the own connection does nothing once the
\* connection has left the room; when the client is gone, it raises, or the
\* socket's buffer takes the message.
SendMayRaise(c) == inRoom[c] /\ ~up[c]

ThisEdit(c) == [seq |-> local[c].seq, op |-> local[c].op, conn |-> c]

-----------------------------------------------------------------------------
(* process_operation_event                                                 *)

ReceiveOperation(c) ==
    /\ open[c] /\ inRoom[c] /\ pc[c] = "idle"
    /\ counter + Cardinality(Busy) < MaxSeq
    /\ \E op \in Requests, base \in Bases :
          local' = [local EXCEPT ![c] = [NoLocal EXCEPT !.op = op, !.base = base]]
    /\ GoTo(c, "document")
    /\ UNCHANGED <<counter, log, stored, session, ledger>>

\* Mutant: a document that is not there is not noticed.
ReadDocumentUnchecked(c) ==
    /\ pc[c] = "document"
    /\ local' = [local EXCEPT ![c].snap = IF stored.exists THEN stored.content
                                                          ELSE <<"None">>]
    /\ GoTo(c, "sequence")
    /\ UNCHANGED <<session, counter, log, stored, ledger>>

ReadDocument(c) ==
    /\ pc[c] = "document"
    /\ IF stored.exists
       THEN /\ local' = [local EXCEPT ![c].snap = stored.content]
            /\ GoTo(c, "sequence")
            /\ UNCHANGED session
       ELSE Fail(c)
    /\ UNCHANGED <<counter, log, stored, ledger>>

ReadSequence(c) ==
    LET h == local[c]
    IN  /\ pc[c] = "sequence"
        /\ \/ /\ h.base < counter
              /\ local' = [local EXCEPT ![c].curr = counter]
              /\ GoTo(c, "log")
              /\ UNCHANGED session
           \/ /\ h.base = counter
              /\ local' = [local EXCEPT ![c].curr = counter,
                                        ![c].draft = ApplyOperation(h.snap, h.op)]
              /\ GoTo(c, "increment")
              /\ UNCHANGED session
           \/ /\ h.base > counter
              /\ Fail(c)
        /\ UNCHANGED <<counter, log, stored, ledger>>

\* Mutant: the draft is made with the rebased edit, the edit that goes on to be
\* logged and published is the one the client sent.
ReadLogKeepingEdit(c) ==
    LET h     == local[c]
        range == ZRangeByScore(log, h.base + 1, h.curr)
    IN  /\ pc[c] = "log"
        /\ \E last \in range :
              /\ IsLast(last, range)
              /\ local' = [local EXCEPT ![c].draft =
                              ApplyOperation(h.snap, Rebase(last.op, h.op))]
        /\ GoTo(c, "increment")
        /\ UNCHANGED <<session, counter, log, stored, ledger>>

\* The discarded reply goes to the author alone.  An empty range leaves op1
\* unbound, and the handler dies of it.
ReadLog(c) ==
    LET h     == local[c]
        range == ZRangeByScore(log, h.base + 1, h.curr)
    IN  /\ pc[c] = "log"
        /\ \/ range = {} /\ Fail(c)
           \/ \E last \in range :
                 /\ IsLast(last, range) /\ Cancels(last.op, h.op)
                 /\ \/ Finish(c) /\ UNCHANGED session
                    \/ SendMayRaise(c) /\ Disconnect(c)
           \/ \E last \in range :
                 /\ IsLast(last, range) /\ ~Cancels(last.op, h.op)
                 /\ local' = [local EXCEPT
                                 ![c].op = Rebase(last.op, h.op),
                                 ![c].draft = ApplyOperation(h.snap, Rebase(last.op, h.op))]
                 /\ GoTo(c, "increment")
                 /\ UNCHANGED session
        /\ UNCHANGED <<counter, log, stored, ledger>>

\* Mutant: the number is computed from the one that was read.
IncrementNotAtomic(c) ==
    /\ pc[c] = "increment"
    /\ counter' = local[c].curr + 1
    /\ local' = [local EXCEPT ![c].seq = counter']
    /\ issued' = issued \cup {ThisEdit(c)'}
    /\ GoTo(c, "record")
    /\ UNCHANGED <<log, stored, session, committed, acked, published>>

\* Mutant: the edit is not logged.
IncrementOnly(c) ==
    /\ pc[c] = "increment"
    /\ counter' = counter + 1
    /\ local' = [local EXCEPT ![c].seq = counter']
    /\ issued' = issued \cup {ThisEdit(c)'}
    /\ GoTo(c, "commit")
    /\ UNCHANGED <<log, stored, session, committed, acked, published>>

\* INCR is applied twice when the client library retries a call whose first
\* reply was lost: the first number is never used.
Increment(c) ==
    /\ pc[c] = "increment"
    /\ \/ counter' = counter + 1
       \/ "retry" \in Faults /\ counter + 2 <= MaxSeq /\ counter' = counter + 2
    /\ local' = [local EXCEPT ![c].seq = counter']
    /\ issued' = issued \cup {ThisEdit(c)'}
    /\ GoTo(c, "record")
    /\ UNCHANGED <<log, stored, session, committed, acked, published>>

\* Mutant: the score is computed from the number that was read.
RecordAtNext(c) ==
    /\ pc[c] = "record"
    /\ log' = ZAdd(log, local[c].op, local[c].curr + 1)
    /\ GoTo(c, "commit")
    /\ UNCHANGED <<counter, stored, local, session, ledger>>

\* Mutant: the author is answered before the document is written.
RecordAndAck(c) ==
    /\ pc[c] = "record"
    /\ log' = ZAdd(log, local[c].op, local[c].seq)
    /\ GoTo(c, "ack")
    /\ UNCHANGED <<counter, stored, local, session, ledger>>

Record(c) ==
    /\ pc[c] = "record"
    /\ log' = ZAdd(log, local[c].op, local[c].seq)
    /\ GoTo(c, "commit")
    /\ UNCHANGED <<counter, stored, local, session, ledger>>

\* Mutant: a commit that took effect is tried again.
CommitTwice(c) ==
    /\ pc[c] = "commit"
    /\ stored' = RowWith(local[c])
    /\ committed' = committed \cup {ThisEdit(c)}
    /\ GoTo(c, IF ThisEdit(c) \in committed THEN "ack" ELSE "commit")
    /\ UNCHANGED <<local, session, counter, log, issued, acked, published>>

\* An UPDATE of a row that is gone raises StaleDataError.
Commit(c) ==
    /\ pc[c] = "commit"
    /\ IF stored.exists
       THEN /\ stored' = RowWith(local[c])
            /\ committed' = committed \cup {ThisEdit(c)}
            /\ GoTo(c, IF c \in Author THEN "ack" ELSE "role")
            /\ UNCHANGED <<local, session>>
       ELSE Fail(c) /\ UNCHANGED <<stored, committed>>
    /\ UNCHANGED <<counter, log, issued, acked, published>>

(* The UPDATE of the user's rows whose role is viewer: PromoteRole of      *)
(* Documents.tla says which, and no rows is no error.                      *)
PromoteRole(c) ==
    /\ pc[c] = "role"
    /\ GoTo(c, "ack")
    /\ UNCHANGED <<counter, log, stored, local, session, ledger>>

\* Mutant: the handler returns when its connection is no longer in the room.
AckInRoomOnly(c) ==
    /\ pc[c] = "ack"
    /\ IF inRoom[c]
       THEN acked' = acked \cup {ThisEdit(c)} /\ GoTo(c, "publish") /\ UNCHANGED local
       ELSE Finish(c) /\ UNCHANGED acked
    /\ UNCHANGED <<session, counter, log, stored, issued, committed, published>>

Ack(c) ==
    /\ pc[c] = "ack"
    /\ \/ /\ acked' = IF inRoom[c] THEN acked \cup {ThisEdit(c)} ELSE acked
          /\ GoTo(c, "publish")
          /\ UNCHANGED <<local, session>>
       \/ SendMayRaise(c) /\ Disconnect(c) /\ UNCHANGED acked
    /\ UNCHANGED <<counter, log, stored, issued, committed, published>>

\* EventBus.publish swallows every exception.
PublishOperation(c) ==
    /\ pc[c] = "publish"
    /\ \/ published' = published \cup {ThisEdit(c)}
       \/ "publish" \in Faults /\ UNCHANGED published
    /\ Finish(c)
    /\ UNCHANGED <<counter, log, stored, session, issued, committed, acked>>

-----------------------------------------------------------------------------
(* process_replay_event                                                    *)

ReceiveReplay(c) ==
    /\ open[c] /\ inRoom[c] /\ pc[c] = "idle"
    /\ \E base \in Bases : local' = [local EXCEPT ![c] = [NoLocal EXCEPT !.base = base]]
    /\ GoTo(c, "replay sequence")
    /\ UNCHANGED <<counter, log, stored, session, ledger>>

ReadReplaySequence(c) ==
    /\ pc[c] = "replay sequence"
    /\ local' = [local EXCEPT ![c].curr = counter]
    /\ GoTo(c, "replay log")
    /\ UNCHANGED <<counter, log, stored, session, ledger>>

\* Mutant: the range stops short of the counter.
ReadReplayLogShort(c) ==
    /\ pc[c] = "replay log"
    /\ local' = [local EXCEPT
                    ![c].batch = ZRangeByScore(log, local[c].base + 1, local[c].curr - 1)]
    /\ GoTo(c, "replay send")
    /\ UNCHANGED <<counter, log, stored, session, ledger>>

ReadReplayLog(c) ==
    /\ pc[c] = "replay log"
    /\ local' = [local EXCEPT
                    ![c].batch = ZRangeByScore(log, local[c].base + 1, local[c].curr)]
    /\ GoTo(c, "replay send")
    /\ UNCHANGED <<counter, log, stored, session, ledger>>

\* Mutant: the replay waits for its connection to be in the room again.
SendReplayedInRoom(c) ==
    LET left == {e \in local[c].batch : e.score > local[c].base}
    IN  /\ pc[c] = "replay send"
        /\ \/ left = {} /\ Finish(c) /\ UNCHANGED session
           \/ /\ left # {} /\ inRoom[c]
              /\ \E e \in left :
                    /\ \A f \in left : e.score <= f.score
                    /\ local' = [local EXCEPT ![c].base = e.score]
              /\ UNCHANGED <<pc, session>>
        /\ UNCHANGED <<counter, log, stored, ledger>>

\* One entry of the batch at a time, in score order.
SendReplayed(c) ==
    LET left == {e \in local[c].batch : e.score > local[c].base}
    IN  /\ pc[c] = "replay send"
        /\ \/ left = {} /\ Finish(c) /\ UNCHANGED session
           \/ /\ left # {}
              /\ \E e \in left :
                    /\ \A f \in left : e.score <= f.score
                    /\ local' = [local EXCEPT ![c].base = e.score]
              /\ UNCHANGED <<pc, session>>
           \/ left # {} /\ SendMayRaise(c) /\ Disconnect(c)
        /\ UNCHANGED <<counter, log, stored, ledger>>
-----------------------------------------------------------------------------
(* Failures of a call.                                                     *)

\* The call raises: a RedisError ends the endpoint, a database error is rolled
\* back and raised again as a WebSocketException.
CallFails(c) ==
    /\ "storage" \in Faults
    /\ pc[c] \in (Editing \cup Replaying) \ {"ack", "publish", "replay send"}
    /\ Fail(c)
    /\ UNCHANGED <<counter, log, stored, ledger>>

\* The call took effect, but its reply was lost and the handler sees an error.
ReplyLost(c) ==
    /\ "storage" \in Faults
    /\ \/ /\ pc[c] = "increment"
          /\ counter' = counter + 1
          /\ UNCHANGED <<log, stored, committed>>
       \/ /\ pc[c] = "record"
          /\ log' = ZAdd(log, local[c].op, local[c].seq)
          /\ UNCHANGED <<counter, stored, committed>>
       \/ /\ pc[c] = "commit" /\ stored.exists
          /\ stored' = RowWith(local[c])
          /\ committed' = committed \cup {ThisEdit(c)}
          /\ UNCHANGED <<counter, log>>
    /\ Fail(c)
    /\ UNCHANGED <<issued, acked, published>>

-----------------------------------------------------------------------------
(* Connections and the room, as far as the handlers above see them.        *)

\* A message the handlers refuse: from outside the room, or malformed.
RefuseMessage(c) ==
    /\ open[c] /\ pc[c] = "idle"
    /\ ~inRoom[c] \/ "message" \in Faults
    /\ Fail(c)
    /\ UNCHANGED <<counter, log, stored, ledger>>

ClientDrops(c) ==
    /\ "socket" \in Faults
    /\ open[c] /\ up[c]
    /\ up' = [up EXCEPT ![c] = FALSE]
    /\ UNCHANGED <<counter, log, stored, inRoom, open, pc, local, ledger>>

\* receive_json raises WebSocketDisconnect between two messages.
NoticeDisconnect(c) ==
    /\ open[c] /\ pc[c] = "idle" /\ ~up[c]
    /\ Disconnect(c)
    /\ UNCHANGED <<counter, log, stored, ledger>>

\* The presence key expired, as it does once no endpoint answers pings; the
\* listener cleans the connection up, whatever its handler is doing.
Reap(c) ==
    /\ inRoom[c]
    /\ ~open[c] \/ "expiry" \in Faults
    /\ inRoom' = [inRoom EXCEPT ![c] = FALSE]
    /\ UNCHANGED <<counter, log, stored, open, up, pc, local, ledger>>

\* The same user, with a new socket.
Connect(c) ==
    /\ ~open[c] /\ ~inRoom[c]
    /\ open' = [open EXCEPT ![c] = TRUE]
    /\ up' = [up EXCEPT ![c] = TRUE]
    /\ UNCHANGED <<counter, log, stored, inRoom, pc, local, ledger>>

\* The registry has the connection before the document is looked up.
Join(c) ==
    /\ open[c] /\ up[c] /\ ~inRoom[c] /\ pc[c] = "idle"
    /\ inRoom' = [inRoom EXCEPT ![c] = TRUE]
    /\ open' = [open EXCEPT ![c] = stored.exists]
    /\ UNCHANGED <<counter, log, stored, up, pc, local, ledger>>

\* The author deletes the account, and the row goes with it.
DeleteDocument ==
    /\ "delete" \in Faults
    /\ stored.exists
    /\ stored' = [stored EXCEPT !.exists = FALSE]
    /\ UNCHANGED <<counter, log, session, pc, local, ledger>>

-----------------------------------------------------------------------------
\* What a handler that was started does: the event loop runs it.
Handler(c) ==
    \/ ReadDocument(c) \/ ReadSequence(c) \/ ReadLog(c)
    \/ Increment(c) \/ Record(c) \/ Commit(c) \/ PromoteRole(c)
    \/ Ack(c) \/ PublishOperation(c)
    \/ ReadReplaySequence(c) \/ ReadReplayLog(c) \/ SendReplayed(c)
    \/ CallFails(c) \/ ReplyLost(c)

Next ==
    \/ \E c \in Conn :
          \/ ReceiveOperation(c) \/ ReceiveReplay(c)
          \/ Handler(c)
          \/ RefuseMessage(c) \/ ClientDrops(c) \/ NoticeDisconnect(c)
          \/ Reap(c) \/ Connect(c) \/ Join(c)
    \/ DeleteDocument

Spec == Init /\ [][Next]_vars

\* A call to Redis, Postgres or the socket returns or raises, so that a handler
\* does not stay at an await for ever.
FairSpec == Spec /\ \A c \in Conn : WF_vars(Handler(c))

-----------------------------------------------------------------------------
(* Safety                                                                  *)

TypeOK ==
    /\ counter \in Nat
    /\ log \subseteq LogEntry
    /\ stored \in Row
    /\ inRoom \in [Conn -> BOOLEAN] /\ open \in [Conn -> BOOLEAN]
    /\ up \in [Conn -> BOOLEAN]
    /\ pc \in [Conn -> PC]
    /\ local \in [Conn -> Local]
    /\ issued \subseteq Edit /\ committed \subseteq Edit
    /\ acked \subseteq Edit /\ published \subseteq Edit

(* No two edits are given one sequence number, whatever handlers overlap   *)
(* and whatever calls are retried (redis INCR in process_operation_event). *)
NumbersAreUnique == \A i, j \in issued : i.seq = j.seq => i = j

(* What the author is told is accepted, and what the room is sent, has     *)
(* been committed to the document's row first.                             *)
AnnouncedIsCommitted == acked \cup published \subseteq committed

(* A committed edit can be found in the log, under a number that was given *)
(* to this edit or to an identical one.                                    *)
CommittedIsLogged ==
    \A i \in committed :
        \E e \in log : e.op = i.op /\ \E j \in issued : j.op = e.op /\ j.seq = e.score

(* The text that is committed is the text that was read with the edit that *)
(* is logged, acknowledged and published applied to it: the rebased edit,  *)
(* not the one the client sent.                                            *)
DraftIsOfEdit ==
    \A c \in Conn : pc[c] \in {"increment", "record", "commit"}
        => local[c].draft = ApplyOperation(local[c].snap, local[c].op)

(* As long as no two edits are identical and no call fails, a number that  *)
(* the log lacks belongs to a handler that is about to log it: what a      *)
(* handler transforms against, and a replay, misses nothing else.          *)
GapsArePending ==
    (/\ Faults \cap {"storage", "retry"} = {}
     /\ \A i, j \in issued : i.op = j.op => i = j)
    => \A n \in 2..counter :
          \/ \E e \in log : e.score = n
          \/ \E c \in Conn : pc[c] = "record" /\ local[c].seq = n

(* The document's text is the initial text with the committed edits        *)
(* applied in the order of their numbers, whatever calls fail or are       *)
(* repeated.  It holds as long as edits are made one at a time.            *)
Replayed[n \in Nat] ==
    IF n <= 1 THEN InitialContent
    ELSE IF \E i \in committed : i.seq = n
         THEN ApplyOperation(Replayed[n - 1], (CHOOSE i \in committed : i.seq = n).op)
         ELSE Replayed[n - 1]

ContentIsReplay == stored.content = Replayed[counter]

-----------------------------------------------------------------------------
(* The ledger that the handlers implement.                                 *)

\* The edits that have a number and are not committed yet.
Reserved == {ThisEdit(c) : c \in {d \in Conn : pc[d] \in {"record", "commit"}}}

Ledger == INSTANCE EditLedger WITH
              Op <- Operation,
              reserved <- Reserved,
              announced <- acked \cup published

(* Numbers are given, and edits committed and announced, as EditLedger     *)
(* promises: every edit has its number before it is committed, it is       *)
(* committed before anybody is told, and nothing is committed twice.       *)
RefinesLedger == Ledger!Spec

-----------------------------------------------------------------------------
(* Action and liveness properties                                          *)

(* A replay reads every edit that was published before the read, after the *)
(* number the client names and up to the counter the replay read, unless   *)
(* an identical edit took its place in the log.                            *)
ReplayReadsPublished ==
    [][\A c \in Conn : ReadReplayLog(c) =>
          \A p \in published :
              (/\ local[c].base < p.seq /\ p.seq <= local[c].curr
               /\ \A i \in issued : i.op = p.op => i = p)
              => [op |-> p.op, score |-> p.seq] \in local'[c].batch]_vars

(* A handler comes to an end: nothing it awaits depends on another one.    *)
HandlersFinish == \A c \in Conn : pc[c] # "idle" ~> pc[c] = "idle"

(* A committed edit reaches the room, even when its author is removed from *)
(* the room before the edit is acknowledged.                               *)
CommittedIsPublished == \A c \in Conn : \A n \in 2..MaxSeq :
    (\E i \in committed : i.conn = c /\ i.seq = n)
        ~> (\E i \in published : i.conn = c /\ i.seq = n)

-----------------------------------------------------------------------------
(* What the documentation says                                             *)

(* README.md: "preserve all modifications from conflicting operations by   *)
(* merging writes from multiple users".  Where clients only insert, the    *)
(* text of an acknowledged edit is in the document.                        *)
AckedTextIsKept ==
    \A i \in acked : \E k \in 1..Len(stored.content) :
        stored.content[k] = i.op.text[1]

=============================================================================
