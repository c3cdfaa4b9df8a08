-------------------------------- MODULE Room --------------------------------
(***************************************************************************)
(* Who is in the room of one document: ConnectionRegistry of               *)
(* app/api/services/connection_registry.py, process_join_event,            *)
(* process_leave_event and cleanup_connection of services/websocket.py,    *)
(* and the presence keys with their expiry listener of app/main.py, in one *)
(* server process.                                                         *)
(*                                                                         *)
(* A user may have several connections.  Each connection's endpoint is a   *)
(* coroutine that handles one message at a time, and the listener is       *)
(* another; each gives way at every await.  An action is the call a worker *)
(* awaits and what it then does up to its next await.                      *)
(***************************************************************************)
EXTENDS FiniteSets

CONSTANTS
    Conn,       \* connections, each used once: a new socket is a new one
    User,
    UserOf,     \* the user of a connection
    Listener,   \* the task expired_presence_event
    Faults      \* what may go wrong in this run

FaultKinds == {"storage", "socket", "message", "document", "publish",
               "crash", "repeat", "rejoin"}

ASSUME RoomAssumption ==
    /\ IsFiniteSet(Conn)
    /\ UserOf \in [Conn -> User]
    /\ Listener \notin Conn
    /\ Faults \subseteq FaultKinds

Workers == Conn \cup {Listener}

VARIABLES
    listed,     \* the document is a key of registry.active_connections
    room,       \* the list under that key
    inSet,      \* Redis user:{user}:{doc} holds the document
    member,     \* Postgres: the user has a row in document_members
    presence,   \* Redis presence:{doc}:{connection} exists
    expired,    \* expiry events the listener has not taken yet
    subscribed, \* the worker's pubsub is subscribed to the room's channel
    phase,      \* of a connection's endpoint
    up,         \* the client's end of the socket is alive
    joined,     \* the client was told it joined, and has not left since
    undercut,   \* since they joined, the user was removed for another connection
    shown,      \* the users in the last presence message
    pc,         \* the await a worker is at
    local       \* its locals

registry == <<listed, room>>
stored == <<inSet, member, presence, expired>>
client == <<phase, up, joined, undercut>>
worker == <<pc, local>>
vars == <<listed, room, inSet, member, presence, expired, subscribed,
          phase, up, joined, undercut, shown, pc, local>>

-----------------------------------------------------------------------------
\* "active": a message named the document, so that doc_id is set.
Phase == {"new", "connected", "active", "closed"}

Joining  == {"join set", "join get set", "join subscribe", "join document",
             "join member", "join save", "join presence", "joined"}
Dropping == {"drop set", "drop get set", "drop subscribe", "drop member",
             "drop delete", "drop presence"}
Telling  == {"announce", "list"}    \* publications
PC == {"idle", "dead"} \cup Joining \cup Dropping \cup Telling

Local == [ conn    : Workers,       \* websocket_schema; of an idle listener, itself
           purpose : {"join", "leave", "cleanup"},
           known   : BOOLEAN,       \* a member row was found
           first   : BOOLEAN,       \* user_id not in curr_document_members
           users   : SUBSET User ]  \* document_members

\* Mutant: connections are listed in place of their users.
ConnectionsIn(conns) == conns

UsersIn(conns) == {UserOf[c] : c \in conns}
LocalOf(c, purpose) == [ conn |-> c, purpose |-> purpose, known |-> FALSE,
                         first |-> FALSE, users |-> {} ]

Init ==
    /\ listed = FALSE /\ room = {}
    /\ inSet = [u \in User |-> FALSE] /\ member = [u \in User |-> FALSE]
    /\ presence = [c \in Conn |-> FALSE] /\ expired = {}
    /\ subscribed = [w \in Workers |-> FALSE]
    /\ phase = [c \in Conn |-> "new"]
    /\ up = [c \in Conn |-> FALSE] /\ joined = [c \in Conn |-> FALSE]
    /\ undercut = {} /\ shown = {}
    /\ pc = [w \in Workers |-> "idle"]
    /\ local = [w \in Workers |-> LocalOf(w, "join")]

-----------------------------------------------------------------------------
Open(c) == phase[c] \in {"connected", "active"}
Target(w) == local[w].conn
TargetUser(w) == UserOf[Target(w)]

GoTo(w, step) == pc' = [pc EXCEPT ![w] = step]
Start(w, c, purpose, step) ==
    /\ local' = [local EXCEPT ![w] = LocalOf(c, purpose)]
    /\ GoTo(w, step)
Rest(w) == local' = [local EXCEPT ![w] = LocalOf(w, "join")]

\* The endpoint's finally clause closes its pubsub.
Close(c) ==
    /\ phase' = [phase EXCEPT ![c] = "closed"]
    /\ joined' = [joined EXCEPT ![c] = FALSE]
    /\ subscribed' = [subscribed EXCEPT ![c] = FALSE]
    /\ UNCHANGED <<up, undercut>>

\* An exception.  It ends the endpoint, without a cleanup, or the listener.
Fail(w) ==
    /\ Rest(w)
    /\ \/ w = Listener /\ GoTo(w, "dead") /\ UNCHANGED <<client, subscribed>>
       \/ w \in Conn /\ GoTo(w, "idle") /\ Close(w)

-----------------------------------------------------------------------------
(* process_join_event                                                      *)

ReceiveJoin(c) ==
    /\ Open(c) /\ up[c] /\ pc[c] = "idle"
    /\ \/ phase[c] = "connected"
       \/ "repeat" \in Faults /\ c \in room        \* a second join message
       \/ "rejoin" \in Faults /\ c \notin room     \* one after a leave
    /\ phase' = [phase EXCEPT ![c] = "active"]
    /\ local' = [local EXCEPT ![c] =
           [LocalOf(c, "join") EXCEPT !.first = UserOf[c] \notin UsersIn(room)]]
    /\ GoTo(c, "join set")
    /\ UNCHANGED <<registry, stored, subscribed, up, joined, undercut, shown>>

\* Mutant: the set is not written.
JoinWithoutSet(c) ==
    /\ pc[c] = "join set"
    /\ listed' = TRUE
    /\ undercut' = undercut \ {c}
    /\ GoTo(c, "join get set")
    /\ UNCHANGED <<room, inSet, member, presence, expired, subscribed, phase, up, joined,
                   shown, local>>

\* ConnectionRegistry.connect lists the document before it awaits.
JoinSet(c) ==
    /\ pc[c] = "join set"
    /\ inSet' = [inSet EXCEPT ![UserOf[c]] = TRUE]
    /\ listed' = TRUE
    /\ undercut' = undercut \ {c}
    /\ GoTo(c, "join get set")
    /\ UNCHANGED <<room, member, presence, expired, subscribed, phase, up, joined,
                   shown, local>>

\* The rest of connect: the list may be gone again, which is a KeyError.
Enter(c) ==
    \/ /\ listed
       /\ room' = room \cup {c}
       /\ GoTo(c, "join document")
       /\ UNCHANGED <<local, client>>
    \/ /\ ~listed
       /\ Rest(c) /\ GoTo(c, "idle")
       /\ phase' = [phase EXCEPT ![c] = "closed"]
       /\ joined' = [joined EXCEPT ![c] = FALSE]
       /\ UNCHANGED <<room, up, undercut>>

\* Mutant: a user who is a member is taken to be subscribed.
JoinGetSetOfStranger(c) ==
    /\ pc[c] = "join get set"
    /\ \/ /\ inSet[UserOf[c]] /\ ~member[UserOf[c]]
          /\ GoTo(c, "join subscribe")
          /\ UNCHANGED <<room, local, client, subscribed>>
       \/ /\ ~inSet[UserOf[c]] \/ member[UserOf[c]]
          /\ Enter(c)
          /\ subscribed' = [subscribed EXCEPT ![c] = listed /\ @]
    /\ UNCHANGED <<listed, stored, shown>>

JoinGetSet(c) ==
    /\ pc[c] = "join get set"
    /\ \/ /\ inSet[UserOf[c]]
          /\ GoTo(c, "join subscribe")
          /\ UNCHANGED <<room, local, client, subscribed>>
       \/ /\ ~inSet[UserOf[c]]
          /\ Enter(c)
          /\ subscribed' = [subscribed EXCEPT ![c] = listed /\ @]
    /\ UNCHANGED <<listed, stored, shown>>

JoinSubscribe(c) ==
    /\ pc[c] = "join subscribe"
    /\ subscribed' = [subscribed EXCEPT ![c] = listed]
    /\ Enter(c)
    /\ UNCHANGED <<listed, stored, shown>>

JoinDocument(c) ==
    /\ pc[c] = "join document"
    /\ \/ /\ GoTo(c, "join member")
          /\ UNCHANGED <<local, client, subscribed>>
       \/ "document" \in Faults /\ Fail(c)       \* it was deleted
    /\ UNCHANGED <<registry, stored, shown>>

JoinMember(c) ==
    /\ pc[c] = "join member"
    /\ local' = [local EXCEPT ![c].known = member[UserOf[c]]]
    /\ GoTo(c, "join save")
    /\ UNCHANGED <<registry, stored, subscribed, client, shown>>

\* The row is updated when it was found and inserted when it was not.  Either
\* fails when another worker deleted or inserted it meanwhile.
JoinSave(c) ==
    /\ pc[c] = "join save"
    /\ \/ /\ local[c].known = member[UserOf[c]]
          /\ member' = [member EXCEPT ![UserOf[c]] = TRUE]
          /\ GoTo(c, "join presence")
          /\ UNCHANGED <<local, client, subscribed>>
       \/ /\ local[c].known # member[UserOf[c]]
          /\ Fail(c)
          /\ UNCHANGED member
    /\ UNCHANGED <<registry, inSet, presence, expired, shown>>

\* Mutant: the presence key is not written.
JoinWithoutPresence(c) ==
    /\ pc[c] = "join presence"
    /\ local' = [local EXCEPT ![c].users = UsersIn(room)]
    /\ GoTo(c, IF local[c].first THEN "announce" ELSE "joined")
    /\ UNCHANGED <<registry, stored, subscribed, client, shown>>

JoinPresence(c) ==
    /\ pc[c] = "join presence"
    /\ presence' = [presence EXCEPT ![c] = TRUE]
    /\ local' = [local EXCEPT ![c].users = UsersIn(room)]
    /\ GoTo(c, IF local[c].first THEN "announce" ELSE "joined")
    /\ UNCHANGED <<registry, inSet, member, expired, subscribed, client, shown>>

\* broadcast: nothing is sent to a connection that is not in the room, and a
\* socket whose client is gone may raise WebSocketDisconnect.
ReplyJoined(c) ==
    /\ pc[c] = "joined"
    /\ \/ /\ joined' = [joined EXCEPT ![c] = c \in room /\ up[c]]
          /\ Rest(c) /\ GoTo(c, "idle")
       \/ /\ c \in room /\ ~up[c]
          /\ Start(c, c, "cleanup", "drop set")
          /\ joined' = [joined EXCEPT ![c] = FALSE]
    /\ UNCHANGED <<registry, stored, subscribed, phase, up, undercut, shown>>

-----------------------------------------------------------------------------
(* process_leave_event and cleanup_connection                              *)

ReceiveLeave(c) ==
    /\ Open(c) /\ up[c] /\ pc[c] = "idle" /\ c \in room
    /\ Start(c, c, "leave", "drop set")
    /\ joined' = [joined EXCEPT ![c] = FALSE]
    /\ UNCHANGED <<registry, stored, subscribed, phase, up, undercut, shown>>

\* receive_json raises WebSocketDisconnect.
NoticeDisconnect(c) ==
    /\ Open(c) /\ ~up[c] /\ pc[c] = "idle"
    /\ \/ /\ phase[c] = "active"
          /\ Start(c, c, "cleanup", "drop set")
          /\ joined' = [joined EXCEPT ![c] = FALSE]
          /\ UNCHANGED <<phase, up, undercut, subscribed>>
       \/ /\ phase[c] = "connected"
          /\ Close(c)
          /\ UNCHANGED worker
    /\ UNCHANGED <<registry, stored, shown>>

\* Mutant: the connection's identity is not compared.
HeedForAnyone(c) ==
    /\ pc[Listener] = "idle"
    /\ c \in expired
    /\ expired' = expired \ {c}
    /\ \E d \in room :
          /\ Start(Listener, d, "cleanup", "drop set")
          /\ joined' = [joined EXCEPT ![d] = FALSE]
    /\ UNCHANGED <<registry, inSet, member, presence, subscribed, phase, up, undercut,
                   shown>>

\* The listener takes an expiry event.
Heed(c) ==
    /\ pc[Listener] = "idle"
    /\ c \in expired
    /\ expired' = expired \ {c}
    /\ \/ /\ c \in room
          /\ Start(Listener, c, "cleanup", "drop set")
          /\ joined' = [joined EXCEPT ![c] = FALSE]
       \/ /\ c \notin room
          /\ UNCHANGED <<worker, joined>>
    /\ UNCHANGED <<registry, inSet, member, presence, subscribed, phase, up, undercut,
                   shown>>

\* The user's other connections lose the set entry and the row they share
\* with this one: both belong to the user, not to a connection.
Undercut(w) ==
    undercut' = undercut \cup
        {c \in Conn \ {Target(w)} : UserOf[c] = TargetUser(w) /\ Open(c)}

\* Mutant: the empty list stays.
DropKeepingList(w) ==
    /\ pc[w] = "drop set"
    /\ inSet' = [inSet EXCEPT ![TargetUser(w)] = FALSE]
    /\ room' = room \ {Target(w)}
    /\ Undercut(w)
    /\ GoTo(w, IF Target(w) \in room THEN "drop get set" ELSE "drop member")
    /\ UNCHANGED <<listed, member, presence, expired, subscribed, phase, up, joined,
                   shown, local>>

\* DEL or SREM, and the first half of ConnectionRegistry.disconnect: a document
\* without connections is no longer listed.  A connection that is not in the
\* list is logged and changes nothing.
DropSet(w) ==
    /\ pc[w] = "drop set"
    /\ inSet' = [inSet EXCEPT ![TargetUser(w)] = FALSE]
    /\ \/ /\ Target(w) \in room
          /\ room' = room \ {Target(w)}
          /\ listed' = (room' # {})
          /\ GoTo(w, "drop get set")
       \/ /\ Target(w) \notin room
          /\ GoTo(w, "drop member")
          /\ UNCHANGED registry
    /\ Undercut(w)
    /\ UNCHANGED <<member, presence, expired, subscribed, phase, up, joined, shown, local>>

DropGetSet(w) ==
    /\ pc[w] = "drop get set"
    /\ GoTo(w, IF inSet[TargetUser(w)] THEN "drop member" ELSE "drop subscribe")
    /\ UNCHANGED <<registry, stored, subscribed, client, shown, local>>

\* The comment in the code says unsubscribe.
DropSubscribe(w) ==
    /\ pc[w] = "drop subscribe"
    /\ subscribed' = [subscribed EXCEPT ![w] = TRUE]
    /\ GoTo(w, "drop member")
    /\ UNCHANGED <<registry, stored, client, shown, local>>

\* A leave without a member row raises, a cleanup goes on.
DropMember(w) ==
    /\ pc[w] = "drop member"
    /\ \/ /\ member[TargetUser(w)]
          /\ GoTo(w, "drop delete")
          /\ UNCHANGED <<client, subscribed, local>>
       \/ /\ ~member[TargetUser(w)] /\ local[w].purpose = "leave"
          /\ Fail(w)
       \/ /\ ~member[TargetUser(w)] /\ local[w].purpose = "cleanup"
          /\ GoTo(w, "drop presence")
          /\ UNCHANGED <<client, subscribed, local>>
    /\ UNCHANGED <<registry, stored, shown>>

\* Mutant: a leave does not commit the deletion.
DropDeleteUncommitted(w) ==
    /\ pc[w] = "drop delete"
    /\ member' = [member EXCEPT ![TargetUser(w)] = local[w].purpose = "leave"]
    /\ Undercut(w)
    /\ GoTo(w, IF local[w].purpose = "leave" THEN "announce" ELSE "drop presence")
    /\ UNCHANGED <<registry, inSet, presence, expired, subscribed, phase, up, joined,
                   shown, local>>

\* Deleting a row that another worker deleted is no error.
DropDelete(w) ==
    /\ pc[w] = "drop delete"
    /\ member' = [member EXCEPT ![TargetUser(w)] = FALSE]
    /\ Undercut(w)
    /\ GoTo(w, IF local[w].purpose = "leave" THEN "announce" ELSE "drop presence")
    /\ UNCHANGED <<registry, inSet, presence, expired, subscribed, phase, up, joined,
                   shown, local>>

DropPresence(w) ==
    /\ pc[w] = "drop presence"
    /\ presence' = [presence EXCEPT ![Target(w)] = FALSE]
    /\ local' = [local EXCEPT ![w].users = UsersIn(room)]
    /\ GoTo(w, "list")
    /\ UNCHANGED <<registry, inSet, member, expired, subscribed, client, shown>>

-----------------------------------------------------------------------------
(* Publications                                                            *)

\* "user joined" or "left".  A join computed its presence list before it
\* published this message, a leave computes it afterwards.
Announce(w) ==
    /\ pc[w] = "announce"
    /\ local' = [local EXCEPT ![w].users =
                    IF local[w].purpose = "leave" THEN UsersIn(room) ELSE @]
    /\ GoTo(w, "list")
    /\ UNCHANGED <<registry, stored, subscribed, client, shown>>

\* The presence list, the last message of a leave and of a cleanup.
PublishList(w) ==
    /\ pc[w] = "list"
    /\ \/ shown' = local[w].users
       \/ "publish" \in Faults /\ UNCHANGED shown
    /\ \/ /\ local[w].purpose = "join"
          /\ GoTo(w, "joined")
          /\ UNCHANGED <<local, client, subscribed>>
       \/ /\ local[w].purpose = "leave" \/ w = Listener
          /\ Rest(w) /\ GoTo(w, "idle")
          /\ UNCHANGED <<client, subscribed>>
       \/ /\ local[w].purpose = "cleanup" /\ w \in Conn
          /\ Rest(w) /\ GoTo(w, "idle") /\ Close(w)
    /\ UNCHANGED <<registry, stored>>

-----------------------------------------------------------------------------
(* The clients, the clock and failures.                                    *)

\* The endpoint accepts at once, whatever older connections the user has and
\* whatever they left behind.
Connect(c) ==
    /\ phase[c] = "new"
    /\ phase' = [phase EXCEPT ![c] = "connected"]
    /\ up' = [up EXCEPT ![c] = TRUE]
    /\ UNCHANGED <<registry, stored, subscribed, joined, undercut, shown, worker>>

ClientDrops(c) ==
    /\ "socket" \in Faults
    /\ Open(c) /\ up[c]
    /\ up' = [up EXCEPT ![c] = FALSE]
    /\ UNCHANGED <<registry, stored, subscribed, phase, joined, undercut, shown, worker>>

\* A message that is malformed, or needs a connection that is in the room.
RefuseMessage(c) ==
    /\ "message" \in Faults
    /\ Open(c) /\ up[c] /\ pc[c] = "idle"
    /\ Fail(c)
    /\ UNCHANGED <<registry, stored, shown>>

\* An endpoint asks Redis for its user's set between two messages.
PollFails(c) ==
    /\ "storage" \in Faults
    /\ Open(c) /\ pc[c] = "idle"
    /\ Fail(c)
    /\ UNCHANGED <<registry, stored, shown>>

(* A client pings well within the TTL as long as it can: not when it is    *)
(* gone, its endpoint has ended, or the room does not hold it (a ping      *)
(* would end its endpoint).  The TTL outlasts the rest of the join that    *)
(* wrote the key.                                                          *)
Expire(c) ==
    /\ presence[c]
    /\ ~up[c] \/ ~Open(c) \/ c \notin room
    /\ ~(local[c].purpose = "join" /\ pc[c] \in {"announce", "list", "joined"})
    /\ presence' = [presence EXCEPT ![c] = FALSE]
    /\ expired' = IF pc[Listener] = "dead" THEN expired ELSE expired \cup {c}
    /\ UNCHANGED <<registry, inSet, member, subscribed, client, shown, worker>>

\* A call to Redis or Postgres raises.
CallFails(w) ==
    /\ "storage" \in Faults
    /\ pc[w] \in (Joining \cup Dropping) \ {"joined"}
    /\ Fail(w)
    /\ UNCHANGED <<registry, stored, shown>>

\* The server process ends and starts again.  Keys that expire before the new
\* listener subscribes are not heard of.
Crash ==
    /\ "crash" \in Faults
    /\ listed' = FALSE /\ room' = {} /\ expired' = {}
    /\ \E lost \in SUBSET {c \in Conn : presence[c]} :
          presence' = [c \in Conn |-> presence[c] /\ c \notin lost]
    /\ phase' = [c \in Conn |-> IF Open(c) THEN "closed" ELSE phase[c]]
    /\ joined' = [c \in Conn |-> FALSE]
    /\ subscribed' = [w \in Workers |-> FALSE]
    /\ pc' = [w \in Workers |-> "idle"]
    /\ local' = [w \in Workers |-> LocalOf(w, "join")]
    /\ UNCHANGED <<inSet, member, up, undercut, shown>>

-----------------------------------------------------------------------------
\* What a worker that was started does.
Join(c) ==
    \/ JoinSet(c) \/ JoinGetSet(c) \/ JoinSubscribe(c) \/ JoinDocument(c)
    \/ JoinMember(c) \/ JoinSave(c) \/ JoinPresence(c) \/ ReplyJoined(c)

Step(w) ==
    \/ DropSet(w) \/ DropGetSet(w) \/ DropSubscribe(w)
    \/ DropMember(w) \/ DropDelete(w) \/ DropPresence(w)
    \/ Announce(w) \/ PublishList(w)
    \/ CallFails(w)

Next ==
    \/ \E c \in Conn :
          \/ ReceiveJoin(c) \/ Join(c) \/ ReceiveLeave(c) \/ NoticeDisconnect(c)
          \/ Heed(c) \/ Expire(c)
          \/ Connect(c) \/ ClientDrops(c)
          \/ RefuseMessage(c) \/ PollFails(c)
    \/ \E w \in Workers : Step(w)
    \/ Crash

Spec == Init /\ [][Next]_vars

(* Calls return or raise, keys that nobody refreshes expire, and the       *)
(* listener takes its events.                                              *)
FairSpec ==
    /\ Spec
    /\ WF_vars(Step(Listener))
    /\ \A c \in Conn : WF_vars(Join(c) \/ Step(c))
    /\ \A c \in Conn : WF_vars(Expire(c)) /\ WF_vars(Heed(c))

-----------------------------------------------------------------------------
TypeOK ==
    /\ listed \in BOOLEAN /\ room \subseteq Conn
    /\ inSet \in [User -> BOOLEAN] /\ member \in [User -> BOOLEAN]
    /\ presence \in [Conn -> BOOLEAN] /\ expired \subseteq Conn
    /\ subscribed \in [Workers -> BOOLEAN]
    /\ phase \in [Conn -> Phase]
    /\ up \in [Conn -> BOOLEAN] /\ joined \in [Conn -> BOOLEAN]
    /\ undercut \subseteq Conn /\ shown \subseteq User
    /\ pc \in [Workers -> PC] /\ local \in [Workers -> Local]

(* A client that was told it joined has all that a member needs, in the    *)
(* registry, in Redis and in Postgres: it is in the room, its events are   *)
(* looked for and delivered, and its user is a member.  The last three are *)
(* lost when the user is removed for another connection (one that leaves,  *)
(* ends, or whose key expires long after its endpoint died): a user has    *)
(* one set entry and one row.  Whatever its other connections do, such a   *)
(* client stays in the room.                                               *)
JoinedIsComplete ==
    \A c \in Conn : joined[c] /\ pc[c] = "idle" =>
        /\ c \in room
        /\ c \in undercut \/ (inSet[UserOf[c]] /\ subscribed[c] /\ member[UserOf[c]])

(* The registry keeps a document without connections only while somebody   *)
(* is about to enter (connect awaits Redis after it listed the document).  *)
EmptyRoomIsAwaited ==
    listed /\ room = {} => \E c \in Conn : pc[c] \in {"join get set", "join subscribe"}

(* A user's member row is accounted for: by a connection in the room, one  *)
(* whose endpoint will clean up, or one the listener is cleaning up.       *)
MembershipIsBacked ==
    \A u \in User : member[u] => \E c \in Conn :
        /\ UserOf[c] = u
        /\ c \in room \/ Open(c) \/ (pc[Listener] # "idle" /\ Target(Listener) = c)

(* README.md: "If the client stops sending pings ... The server removes    *)
(* the user from the room."  A connection whose endpoint has ended leaves  *)
(* the registry, however the endpoint ended.                               *)
ClosedLeavesRoom == \A c \in Conn : phase[c] = "closed" ~> c \notin room

(* README.md: "Send a ping message every 10 seconds to remain connected."  *)
(* The listener does not remove a connection whose presence key is there,  *)
(* whatever events wait for it while clients come and go.                 *)
(* With "rejoin" this fails: a leave keeps the key, and the event of its   *)
(* expiry, handled after the next join, removes the connection.            *)
PingingRemains ==
    [][\A c \in Conn : c \in room /\ up[c] /\ presence[c]
          => ~(DropSet(Listener) /\ Target(Listener) = c)]_vars

-----------------------------------------------------------------------------
(* What the documentation says                                             *)

(* README.md: "Real-time event broadcasting: Events are published to all   *)
(* users in a room".  A joined client's endpoint looks for room events,    *)
(* which it does for the documents in its user's set.                      *)
JoinedReceives ==
    \A c \in Conn : joined[c] /\ pc[c] = "idle" => inSet[UserOf[c]]

(* process_join_event: "Connect event to an existing document room".  With *)
(* no call failing, an endpoint ends only when its client is gone.         *)
JoinIsAnswered == \A c \in Conn : phase[c] = "closed" => ~up[c]

(* README.md: "Presence and Typing indicators: Broadcast presence and      *)
(* typing events in real-time."  When nothing is under way, the presence   *)
(* list that was sent last names the users in the room.                    *)
PresenceIsCurrent ==
    (\A w \in Workers : pc[w] = "idle") => shown = UsersIn(room)

=============================================================================
