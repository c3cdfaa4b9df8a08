----------------------------- MODULE RoomProofs -----------------------------
(***************************************************************************)
(* Theorems about Room.tla for any number of connections and users.        *)
(***************************************************************************)
EXTENDS Room, TLAPS

-----------------------------------------------------------------------------
(* Type correctness.                                                       *)

LEMMA LocalOfType ==
    ASSUME NEW w \in Workers, NEW purpose \in {"join", "leave", "cleanup"}
    PROVE  LocalOf(w, purpose) \in Local
BY DEF LocalOf, Local

LEMMA UsersInType ==
    ASSUME TypeOK
    PROVE  UsersIn(room) \subseteq User
BY RoomAssumption DEF TypeOK, UsersIn

LEMMA GoToType ==
    ASSUME TypeOK, NEW w \in Workers, NEW step \in PC, GoTo(w, step)
    PROVE  pc' \in [Workers -> PC]
BY DEF TypeOK, GoTo

LEMMA RestType ==
    ASSUME TypeOK, NEW w \in Workers, Rest(w)
    PROVE  local' \in [Workers -> Local]
BY LocalOfType DEF TypeOK, Rest

LEMMA StartType ==
    ASSUME TypeOK, NEW w \in Workers, NEW c \in Conn,
           NEW purpose \in {"join", "leave", "cleanup"}, Start(w, c, purpose, "drop set")
    PROVE  local' \in [Workers -> Local] /\ pc' \in [Workers -> PC]
<1>1. LocalOf(c, purpose) \in Local
  BY LocalOfType DEF Workers
<1> QED
  BY <1>1, GoToType DEF TypeOK, Start, PC, Dropping

LEMMA UsersType ==
    ASSUME TypeOK, NEW w \in Workers,
           local' = [local EXCEPT ![w].users = UsersIn(room)]
    PROVE  local' \in [Workers -> Local]
BY UsersInType DEF TypeOK, Local

LEMMA CloseType ==
    ASSUME TypeOK, NEW c \in Conn, Close(c)
    PROVE  /\ phase' \in [Conn -> Phase] /\ joined' \in [Conn -> BOOLEAN]
           /\ up' \in [Conn -> BOOLEAN] /\ subscribed' \in [Workers -> BOOLEAN]
           /\ undercut' \subseteq Conn
BY DEF TypeOK, Close, Phase

LEMMA FailType ==
    ASSUME TypeOK, NEW w \in Workers, Fail(w)
    PROVE  /\ pc' \in [Workers -> PC] /\ local' \in [Workers -> Local]
           /\ phase' \in [Conn -> Phase] /\ joined' \in [Conn -> BOOLEAN]
           /\ up' \in [Conn -> BOOLEAN] /\ subscribed' \in [Workers -> BOOLEAN]
           /\ undercut' \subseteq Conn
<1>1. local' \in [Workers -> Local]
  BY RestType DEF Fail
<1>2. pc' \in [Workers -> PC]
  BY GoToType DEF Fail, PC
<1>3. CASE w = Listener /\ UNCHANGED <<client, subscribed>>
  BY <1>1, <1>2, <1>3 DEF TypeOK, client
<1>4. CASE w \in Conn /\ Close(w)
  BY <1>1, <1>2, <1>4, CloseType
<1> QED
  BY <1>3, <1>4 DEF Fail

LEMMA EnterType ==
    ASSUME TypeOK, NEW c \in Conn, Enter(c)
    PROVE  /\ pc' \in [Workers -> PC] /\ local' \in [Workers -> Local]
           /\ phase' \in [Conn -> Phase] /\ joined' \in [Conn -> BOOLEAN]
           /\ up' \in [Conn -> BOOLEAN] /\ room' \subseteq Conn
           /\ undercut' \subseteq Conn
<1>0. c \in Workers
  BY DEF Workers
<1>1. CASE /\ listed /\ room' = room \cup {c}
           /\ GoTo(c, "join document") /\ UNCHANGED <<local, client>>
  <2>1. pc' \in [Workers -> PC]
    BY <1>0, <1>1, GoToType DEF PC, Joining
  <2> QED
    BY <1>1, <2>1 DEF TypeOK, client
<1>2. CASE /\ Rest(c) /\ GoTo(c, "idle")
           /\ phase' = [phase EXCEPT ![c] = "closed"]
           /\ joined' = [joined EXCEPT ![c] = FALSE]
           /\ UNCHANGED <<room, up, undercut>>
  <2>1. pc' \in [Workers -> PC] /\ local' \in [Workers -> Local]
    BY <1>0, <1>2, GoToType, RestType DEF PC
  <2> QED
    BY <1>2, <2>1 DEF TypeOK, Phase
<1> QED
  BY <1>1, <1>2 DEF Enter

LEMMA TypeInit == ASSUME Init PROVE TypeOK
<1>1. local \in [Workers -> Local]
  BY LocalOfType DEF Init
<1> QED
  BY <1>1 DEF Init, TypeOK, Phase, PC

LEMMA TypeJoin ==
    ASSUME TypeOK, NEW c \in Conn, Join(c)
    PROVE  TypeOK'
<1>0. c \in Workers
  BY DEF Workers
<1>1. CASE JoinSet(c)
  <2>1. pc' \in [Workers -> PC]
    BY <1>0, <1>1, GoToType DEF JoinSet, PC, Joining
  <2> QED
    BY <1>1, <2>1 DEF TypeOK, JoinSet
<1>2. CASE JoinGetSet(c)
  <2>1. CASE GoTo(c, "join subscribe") /\ UNCHANGED <<room, local, client, subscribed>>
    <3>1. pc' \in [Workers -> PC]
      BY <1>0, <2>1, GoToType DEF PC, Joining
    <3> QED
      BY <1>2, <2>1, <3>1 DEF TypeOK, JoinGetSet, client, stored
  <2>2. CASE Enter(c) /\ subscribed' = [subscribed EXCEPT ![c] = listed /\ @]
    <3>1. subscribed' \in [Workers -> BOOLEAN]
      BY <1>0, <2>2 DEF TypeOK
    <3> QED
      BY <1>2, <2>2, <3>1, EnterType DEF TypeOK, JoinGetSet, stored
  <2> QED
    BY <1>2, <2>1, <2>2 DEF JoinGetSet
<1>3. CASE JoinSubscribe(c)
  <2>1. subscribed' \in [Workers -> BOOLEAN]
    BY <1>0, <1>3 DEF TypeOK, JoinSubscribe
  <2> QED
    BY <1>3, <2>1, EnterType DEF TypeOK, JoinSubscribe, stored
<1>4. CASE JoinDocument(c)
  <2>1. CASE GoTo(c, "join member") /\ UNCHANGED <<local, client, subscribed>>
    <3>1. pc' \in [Workers -> PC]
      BY <1>0, <2>1, GoToType DEF PC, Joining
    <3> QED
      BY <1>4, <2>1, <3>1 DEF TypeOK, JoinDocument, client, stored, registry
  <2>2. CASE Fail(c)
    BY <1>0, <1>4, <2>2, FailType DEF TypeOK, JoinDocument, stored, registry
  <2> QED
    BY <1>4, <2>1, <2>2 DEF JoinDocument
<1>5. CASE JoinMember(c)
  <2>1. member[UserOf[c]] \in BOOLEAN
    BY RoomAssumption DEF TypeOK
  <2>2. local' \in [Workers -> Local]
    BY ZenonT(40), <1>0, <1>5, <2>1 DEF TypeOK, JoinMember, Local
  <2>3. pc' \in [Workers -> PC]
    BY <1>0, <1>5, GoToType DEF JoinMember, PC, Joining
  <2> QED
    BY <1>5, <2>2, <2>3 DEF TypeOK, JoinMember, client, stored, registry
<1>6. CASE JoinSave(c)
  <2>1. CASE /\ member' = [member EXCEPT ![UserOf[c]] = TRUE]
             /\ GoTo(c, "join presence") /\ UNCHANGED <<local, client, subscribed>>
    <3>1. pc' \in [Workers -> PC]
      BY <1>0, <2>1, GoToType DEF PC, Joining
    <3> QED
      BY <1>6, <2>1, <3>1 DEF TypeOK, JoinSave, client, registry
  <2>2. CASE Fail(c) /\ UNCHANGED member
    BY <1>0, <1>6, <2>2, FailType DEF TypeOK, JoinSave, registry
  <2> QED
    BY <1>6, <2>1, <2>2 DEF JoinSave
<1>7. CASE JoinPresence(c)
  <2>1. local' \in [Workers -> Local]
    BY <1>0, <1>7, UsersType DEF JoinPresence
  <2>2. pc' \in [Workers -> PC]
    BY <1>0, <1>7, GoToType DEF JoinPresence, PC, Joining, Telling
  <2> QED
    BY <1>7, <2>1, <2>2 DEF TypeOK, JoinPresence, client, registry
<1>8. CASE ReplyJoined(c)
  <2>1. local' \in [Workers -> Local] /\ pc' \in [Workers -> PC]
    BY <1>0, <1>8, RestType, GoToType, StartType DEF ReplyJoined, PC
  <2>2. joined' \in [Conn -> BOOLEAN]
    BY <1>8 DEF ReplyJoined, TypeOK
  <2> QED
    BY <1>8, <2>1, <2>2 DEF TypeOK, ReplyJoined, registry, stored
<1> QED
  BY <1>1, <1>2, <1>3, <1>4, <1>5, <1>6, <1>7, <1>8 DEF Join

LEMMA TypeStep ==
    ASSUME TypeOK, NEW w \in Workers, Step(w)
    PROVE  TypeOK'
<1>1. CASE DropSet(w)
  <2>1. pc' \in [Workers -> PC]
    BY <1>1, GoToType DEF DropSet, PC, Dropping
  <2> QED
    BY <1>1, <2>1 DEF TypeOK, DropSet, Undercut, registry
<1>2. CASE DropGetSet(w)
  <2>1. pc' \in [Workers -> PC]
    BY <1>2, GoToType DEF DropGetSet, PC, Dropping
  <2> QED
    BY <1>2, <2>1 DEF TypeOK, DropGetSet, client, registry, stored
<1>3. CASE DropSubscribe(w)
  <2>1. pc' \in [Workers -> PC]
    BY <1>3, GoToType DEF DropSubscribe, PC, Dropping
  <2> QED
    BY <1>3, <2>1 DEF TypeOK, DropSubscribe, client, registry, stored
<1>4. CASE DropMember(w)
  <2>1. CASE Fail(w)
    BY <1>4, <2>1, FailType DEF TypeOK, DropMember, registry, stored
  <2>2. CASE /\ GoTo(w, "drop delete") \/ GoTo(w, "drop presence")
             /\ UNCHANGED <<client, subscribed, local>>
    <3>1. pc' \in [Workers -> PC]
      BY <2>2, GoToType DEF PC, Dropping
    <3> QED
      BY <1>4, <2>2, <3>1 DEF TypeOK, DropMember, client, registry, stored
  <2> QED
    BY <1>4, <2>1, <2>2 DEF DropMember
<1>5. CASE DropDelete(w)
  <2>1. pc' \in [Workers -> PC]
    BY <1>5, GoToType DEF DropDelete, PC, Dropping, Telling
  <2> QED
    BY <1>5, <2>1 DEF TypeOK, DropDelete, Undercut, registry
<1>6. CASE DropPresence(w)
  <2>1. local' \in [Workers -> Local]
    BY <1>6, UsersType DEF DropPresence
  <2>2. pc' \in [Workers -> PC]
    BY <1>6, GoToType DEF DropPresence, PC, Telling
  <2> QED
    BY <1>6, <2>1, <2>2 DEF TypeOK, DropPresence, client, registry
<1>7. CASE Announce(w)
  <2>1. local' \in [Workers -> Local]
    BY <1>7, UsersInType DEF Announce, TypeOK, Local
  <2>2. pc' \in [Workers -> PC]
    BY <1>7, GoToType DEF Announce, PC, Telling
  <2> QED
    BY <1>7, <2>1, <2>2 DEF TypeOK, Announce, client, registry, stored
<1>8. CASE PublishList(w)
  <2>1. shown' \subseteq User
    BY <1>8 DEF PublishList, TypeOK, Local
  <2>2. CASE GoTo(w, "joined") /\ UNCHANGED <<local, client, subscribed>>
    <3>1. pc' \in [Workers -> PC]
      BY <2>2, GoToType DEF PC, Joining
    <3> QED
      BY <1>8, <2>1, <2>2, <3>1 DEF TypeOK, PublishList, client, registry, stored
  <2>3. CASE Rest(w) /\ GoTo(w, "idle") /\ UNCHANGED <<client, subscribed>>
    <3>1. pc' \in [Workers -> PC] /\ local' \in [Workers -> Local]
      BY <2>3, GoToType, RestType DEF PC
    <3> QED
      BY <1>8, <2>1, <2>3, <3>1 DEF TypeOK, PublishList, client, registry, stored
  <2>4. CASE w \in Conn /\ Rest(w) /\ GoTo(w, "idle") /\ Close(w)
    <3>1. pc' \in [Workers -> PC] /\ local' \in [Workers -> Local]
      BY <2>4, GoToType, RestType DEF PC
    <3> QED
      BY <1>8, <2>1, <2>4, <3>1, CloseType DEF TypeOK, PublishList, registry, stored
  <2> QED
    BY <1>8, <2>2, <2>3, <2>4 DEF PublishList
<1>9. CASE CallFails(w)
  BY <1>9, FailType DEF TypeOK, CallFails, registry, stored
<1> QED
  BY <1>1, <1>2, <1>3, <1>4, <1>5, <1>6, <1>7, <1>8, <1>9 DEF Step

LEMMA TypeAround ==
    ASSUME TypeOK, NEW c \in Conn,
           \/ ReceiveJoin(c) \/ ReceiveLeave(c) \/ NoticeDisconnect(c) \/ Heed(c)
           \/ Expire(c) \/ Connect(c) \/ ClientDrops(c)
           \/ RefuseMessage(c) \/ PollFails(c)
    PROVE  TypeOK'
<1>0. c \in Workers /\ Listener \in Workers
  BY DEF Workers
<1>1. CASE ReceiveJoin(c)
  <2>1. pc' \in [Workers -> PC]
    BY <1>0, <1>1, GoToType DEF ReceiveJoin, PC, Joining
  <2>2. [LocalOf(c, "join") EXCEPT !.first = UserOf[c] \notin UsersIn(room)] \in Local
    BY <1>0 DEF LocalOf, Local
  <2>3. local' \in [Workers -> Local]
    BY <1>0, <1>1, <2>2 DEF ReceiveJoin, TypeOK
  <2> QED
    BY <1>1, <2>1, <2>3 DEF TypeOK, ReceiveJoin, registry, stored, Phase
<1>2. CASE ReceiveLeave(c)
  BY <1>0, <1>2, StartType DEF TypeOK, ReceiveLeave, registry, stored
<1>3. CASE NoticeDisconnect(c)
  <2>1. CASE Start(c, c, "cleanup", "drop set")
             /\ joined' = [joined EXCEPT ![c] = FALSE]
             /\ UNCHANGED <<phase, up, undercut, subscribed>>
    BY <1>0, <1>3, <2>1, StartType DEF TypeOK, NoticeDisconnect, registry, stored
  <2>2. CASE Close(c) /\ UNCHANGED worker
    BY <1>3, <2>2, CloseType DEF TypeOK, NoticeDisconnect, registry, stored, worker
  <2> QED
    BY <1>3, <2>1, <2>2 DEF NoticeDisconnect
<1>4. CASE Heed(c)
  <2>1. CASE Start(Listener, c, "cleanup", "drop set")
             /\ joined' = [joined EXCEPT ![c] = FALSE]
    BY <1>0, <1>4, <2>1, StartType DEF TypeOK, Heed, registry
  <2>2. CASE UNCHANGED <<worker, joined>>
    BY <1>4, <2>2 DEF TypeOK, Heed, registry, worker
  <2> QED
    BY <1>4, <2>1, <2>2 DEF Heed
<1>5. CASE Expire(c)
  BY <1>5 DEF TypeOK, Expire, registry, client, worker
<1>6. CASE Connect(c)
  BY <1>6 DEF TypeOK, Connect, registry, stored, worker, Phase
<1>7. CASE ClientDrops(c)
  BY <1>7 DEF TypeOK, ClientDrops, registry, stored, worker
<1>8. CASE RefuseMessage(c)
  BY <1>0, <1>8, FailType DEF TypeOK, RefuseMessage, registry, stored
<1>9. CASE PollFails(c)
  BY <1>0, <1>9, FailType DEF TypeOK, PollFails, registry, stored
<1> QED
  BY <1>1, <1>2, <1>3, <1>4, <1>5, <1>6, <1>7, <1>8, <1>9

LEMMA TypeCrash == ASSUME TypeOK, Crash PROVE TypeOK'
<1>1. local' \in [Workers -> Local]
  BY LocalOfType DEF Crash
<1>2. presence' \in [Conn -> BOOLEAN]
  BY DEF Crash, TypeOK
<1> QED
  BY <1>1, <1>2 DEF Crash, TypeOK, PC, Phase

LEMMA TypeNext == ASSUME TypeOK, [Next]_vars PROVE TypeOK'
<1>1. CASE Next
  BY <1>1, TypeJoin, TypeStep, TypeAround, TypeCrash DEF Next
<1>2. CASE UNCHANGED vars
  BY <1>2 DEF TypeOK, vars
<1> QED
  BY <1>1, <1>2

(* Every variable of the room keeps its type, for any connections and      *)
(* users and any combination of faults.                                    *)
THEOREM RoomTypeCorrect == Spec => []TypeOK
<1>1. Init => TypeOK
  BY TypeInit
<1>2. TypeOK /\ [Next]_vars => TypeOK'
  BY TypeNext
<1> QED
  BY <1>1, <1>2, PTL DEF Spec

-----------------------------------------------------------------------------
(* The registry keeps no empty list for nobody.                            *)

Awaits(c) == pc[c] \in {"join get set", "join subscribe"}

\* A worker that does not itself await the room leaves the others as they are.
LEMMA OthersAwait ==
    ASSUME TypeOK, EmptyRoomIsAwaited, NEW w \in Workers, ~Awaits(w),
           NEW step \in PC, pc' = [pc EXCEPT ![w] = step], UNCHANGED registry
    PROVE  EmptyRoomIsAwaited'
<1> SUFFICES ASSUME listed, room = {}
             PROVE  \E c \in Conn : pc'[c] \in {"join get set", "join subscribe"}
  BY DEF EmptyRoomIsAwaited, registry
<1>1. PICK c \in Conn : pc[c] \in {"join get set", "join subscribe"}
  BY DEF EmptyRoomIsAwaited
<1>2. c # w
  BY <1>1 DEF Awaits
<1>3. pc'[c] = pc[c]
  BY <1>2 DEF TypeOK, Workers
<1> QED
  BY <1>1, <1>3

LEMMA NobodyMoves ==
    ASSUME EmptyRoomIsAwaited, UNCHANGED <<registry, pc>>
    PROVE  EmptyRoomIsAwaited'
BY DEF EmptyRoomIsAwaited, registry

LEMMA FailAwaits ==
    ASSUME TypeOK, EmptyRoomIsAwaited, NEW w \in Workers, ~Awaits(w), Fail(w),
           UNCHANGED registry
    PROVE  EmptyRoomIsAwaited'
BY OthersAwait DEF Fail, GoTo, PC

\* Entering a listed room fills it; a room that is gone stays gone.
LEMMA EnterAwaits ==
    ASSUME NEW c \in Conn, Enter(c), UNCHANGED listed
    PROVE  EmptyRoomIsAwaited'
BY DEF Enter, EmptyRoomIsAwaited

LEMMA JoinAwaits ==
    ASSUME TypeOK, EmptyRoomIsAwaited, NEW c \in Conn, Join(c)
    PROVE  EmptyRoomIsAwaited'
<1>0. c \in Workers
  BY DEF Workers
<1>1. CASE JoinSet(c)
  <2>1. pc'[c] = "join get set"
    BY <1>0, <1>1 DEF TypeOK, JoinSet, GoTo
  <2> QED
    BY <2>1 DEF EmptyRoomIsAwaited
<1>2. CASE JoinGetSet(c)
  <2>1. CASE GoTo(c, "join subscribe") /\ UNCHANGED room
    <3>1. pc'[c] = "join subscribe"
      BY <1>0, <2>1 DEF TypeOK, GoTo
    <3> QED
      BY <3>1 DEF EmptyRoomIsAwaited
  <2>2. CASE Enter(c)
    BY <1>2, <2>2, EnterAwaits DEF JoinGetSet
  <2> QED
    BY <1>2, <2>1, <2>2 DEF JoinGetSet
<1>3. CASE JoinSubscribe(c)
  BY <1>3, EnterAwaits DEF JoinSubscribe
<1>4. CASE JoinDocument(c)
  <2>1. ~Awaits(c) /\ UNCHANGED registry
    BY <1>4 DEF JoinDocument, Awaits
  <2>2. CASE GoTo(c, "join member")
    BY <1>0, <2>1, <2>2, OthersAwait DEF GoTo, PC, Joining
  <2> QED
    BY <1>0, <1>4, <2>1, <2>2, FailAwaits DEF JoinDocument
<1>5. CASE JoinMember(c)
  BY <1>0, <1>5, OthersAwait DEF JoinMember, Awaits, GoTo, PC, Joining
<1>6. CASE JoinSave(c)
  <2>1. ~Awaits(c) /\ UNCHANGED registry
    BY <1>6 DEF JoinSave, Awaits
  <2>2. CASE GoTo(c, "join presence")
    BY <1>0, <2>1, <2>2, OthersAwait DEF GoTo, PC, Joining
  <2> QED
    BY <1>0, <1>6, <2>1, <2>2, FailAwaits DEF JoinSave
<1>7. CASE JoinPresence(c)
  <2>1. (IF local[c].first THEN "announce" ELSE "joined") \in PC
    BY DEF PC, Joining, Telling
  <2> QED
    BY <1>0, <1>7, <2>1, OthersAwait DEF JoinPresence, Awaits, GoTo
<1>8. CASE ReplyJoined(c)
  BY <1>0, <1>8, OthersAwait DEF ReplyJoined, Awaits, GoTo, Start, PC, Dropping
<1> QED
  BY <1>1, <1>2, <1>3, <1>4, <1>5, <1>6, <1>7, <1>8 DEF Join

LEMMA StepAwaits ==
    ASSUME TypeOK, EmptyRoomIsAwaited, "storage" \notin Faults, NEW w \in Workers, Step(w)
    PROVE  EmptyRoomIsAwaited'
<1>1. CASE DropSet(w)
  <2>1. CASE listed' = (room' # {})
    BY <2>1 DEF EmptyRoomIsAwaited
  <2>2. CASE GoTo(w, "drop member") /\ UNCHANGED registry
    BY <1>1, <2>2, OthersAwait DEF DropSet, Awaits, GoTo, PC, Dropping
  <2> QED
    BY <1>1, <2>1, <2>2 DEF DropSet
<1>2. CASE DropGetSet(w)
  <2>1. (IF inSet[TargetUser(w)] THEN "drop member" ELSE "drop subscribe") \in PC
    BY DEF PC, Dropping
  <2> QED
    BY <1>2, <2>1, OthersAwait DEF DropGetSet, Awaits, GoTo
<1>3. CASE DropSubscribe(w)
  BY <1>3, OthersAwait DEF DropSubscribe, Awaits, GoTo, PC, Dropping
<1>4. CASE DropMember(w)
  <2>1. ~Awaits(w) /\ UNCHANGED registry
    BY <1>4 DEF DropMember, Awaits
  <2>2. CASE GoTo(w, "drop delete") \/ GoTo(w, "drop presence")
    BY <2>1, <2>2, OthersAwait DEF GoTo, PC, Dropping
  <2> QED
    BY <1>4, <2>1, <2>2, FailAwaits DEF DropMember
<1>5. CASE DropDelete(w)
  <2>1. (IF local[w].purpose = "leave" THEN "announce" ELSE "drop presence") \in PC
    BY DEF PC, Dropping, Telling
  <2> QED
    BY <1>5, <2>1, OthersAwait DEF DropDelete, Awaits, GoTo
<1>6. CASE DropPresence(w)
  BY <1>6, OthersAwait DEF DropPresence, Awaits, GoTo, PC, Telling
<1>7. CASE Announce(w)
  BY <1>7, OthersAwait DEF Announce, Awaits, GoTo, PC, Telling
<1>8. CASE PublishList(w)
  BY <1>8, OthersAwait DEF PublishList, Awaits, GoTo, PC, Joining
<1>9. CASE CallFails(w)
  BY <1>9 DEF CallFails
<1> QED
  BY <1>1, <1>2, <1>3, <1>4, <1>5, <1>6, <1>7, <1>8, <1>9 DEF Step

LEMMA AroundAwaits ==
    ASSUME TypeOK, EmptyRoomIsAwaited, NEW c \in Conn,
           \/ ReceiveJoin(c) \/ ReceiveLeave(c) \/ NoticeDisconnect(c) \/ Heed(c)
           \/ Expire(c) \/ Connect(c) \/ ClientDrops(c)
           \/ RefuseMessage(c) \/ PollFails(c)
    PROVE  EmptyRoomIsAwaited'
<1>0. c \in Workers /\ Listener \in Workers
  BY DEF Workers
<1>1. CASE ReceiveJoin(c)
  BY <1>0, <1>1, OthersAwait DEF ReceiveJoin, Awaits, GoTo, PC, Joining
<1>2. CASE ReceiveLeave(c)
  BY <1>0, <1>2, OthersAwait DEF ReceiveLeave, Awaits, Start, GoTo, PC, Dropping
<1>3. CASE NoticeDisconnect(c)
  <2>1. CASE Start(c, c, "cleanup", "drop set")
    BY <1>0, <1>3, <2>1, OthersAwait DEF NoticeDisconnect, Awaits, Start, GoTo, PC, Dropping
  <2>2. CASE UNCHANGED worker
    BY <1>3, <2>2, NobodyMoves DEF NoticeDisconnect, worker
  <2> QED
    BY <1>3, <2>1, <2>2 DEF NoticeDisconnect
<1>4. CASE Heed(c)
  <2>1. CASE Start(Listener, c, "cleanup", "drop set")
    BY <1>0, <1>4, <2>1, OthersAwait DEF Heed, Awaits, Start, GoTo, PC, Dropping
  <2>2. CASE UNCHANGED worker
    BY <1>4, <2>2, NobodyMoves DEF Heed, worker
  <2> QED
    BY <1>4, <2>1, <2>2 DEF Heed
<1>5. CASE RefuseMessage(c) \/ PollFails(c)
  BY <1>0, <1>5, FailAwaits DEF RefuseMessage, PollFails, Awaits
<1>6. CASE Expire(c) \/ Connect(c) \/ ClientDrops(c)
  BY <1>6, NobodyMoves DEF Expire, Connect, ClientDrops, worker
<1> QED
  BY <1>1, <1>2, <1>3, <1>4, <1>5, <1>6

LEMMA AwaitedNext ==
    ASSUME TypeOK, EmptyRoomIsAwaited, "storage" \notin Faults, [Next]_vars
    PROVE  EmptyRoomIsAwaited'
<1>1. CASE Crash
  BY <1>1 DEF Crash, EmptyRoomIsAwaited
<1>2. CASE UNCHANGED vars
  BY <1>2, NobodyMoves DEF vars, registry
<1> QED
  BY <1>1, <1>2, JoinAwaits, StepAwaits, AroundAwaits DEF Next

(* While no call to Redis or Postgres fails, a document is listed without  *)
(* connections only as long as a join awaits Redis before it enters: every *)
(* way out of the room takes an empty list away.  The invariant is         *)
(* inductive as it stands.                                                 *)
THEOREM EmptyAwaited ==
    ASSUME "storage" \notin Faults
    PROVE  Spec => []EmptyRoomIsAwaited
<1>1. Init => EmptyRoomIsAwaited
  BY DEF Init, EmptyRoomIsAwaited
<1>2. TypeOK /\ EmptyRoomIsAwaited /\ [Next]_vars => EmptyRoomIsAwaited'
  BY AwaitedNext
<1> QED
  BY <1>1, <1>2, RoomTypeCorrect, PTL DEF Spec

=============================================================================
