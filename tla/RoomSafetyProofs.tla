-------------------------- MODULE RoomSafetyProofs --------------------------
(***************************************************************************)
(* The safety properties of Room.tla that depend on who may still do what  *)
(* with a connection: which connections the listener may be cleaning up,   *)
(* and what a join has put in place at each of its awaits.  All of it is   *)
(* about clients that do not join again after a leave.                     *)
(***************************************************************************)
EXTENDS RoomProofs

Entering == {"join set", "join get set", "join subscribe"}

\* The handler of a join that has entered the room.
Entered(c) == \/ pc[c] \in Joining \ Entering
              \/ pc[c] \in Telling /\ local[c].purpose = "join"

\* Nothing brings the connection back: it will neither ping nor enter again.
Lost(c) == \/ ~up[c] \/ phase[c] = "closed"
           \/ phase[c] = "active" /\ c \notin room /\ pc[c] \notin Entering /\ ~Entered(c)

\* An expiry event of the connection was sent.
Heeded(c) == c \in expired \/ Target(Listener) = c

ListenerShape ==
    /\ pc[Listener] \in {"idle", "dead", "list"} \cup Dropping
    /\ pc[Listener] \in {"idle", "dead"} => Target(Listener) = Listener
    /\ pc[Listener] \notin {"idle", "dead"} =>
          local[Listener].purpose = "cleanup" /\ Target(Listener) \in Conn

EndpointShape(c) ==
    /\ Target(c) = c /\ pc[c] # "dead"
    /\ pc[c] # "idle" => phase[c] = "active"
    /\ pc[c] \in Joining => local[c].purpose = "join"
    /\ pc[c] \in Dropping => local[c].purpose # "join"
    /\ c \in room => phase[c] \in {"active", "closed"}

Used(c) == phase[c] \in {"active", "closed"}

Presence(c) ==
    /\ Heeded(c) => Used(c) /\ Lost(c) /\ (~up[c] \/ ~presence[c])
    /\ Target(Listener) = c => ~joined[c]
    /\ presence[c] => Used(c) /\ (c \in room \/ Lost(c))
    /\ Entered(c) => c \in room \/ ~up[c]

Inv == TypeOK /\ ListenerShape /\ \A c \in Conn : EndpointShape(c) /\ Presence(c)

-----------------------------------------------------------------------------
(* Who changes what.                                                       *)

Own(c) ==
    \/ ReceiveJoin(c) \/ Join(c) \/ ReceiveLeave(c) \/ NoticeDisconnect(c)
    \/ Expire(c) \/ Connect(c) \/ ClientDrops(c) \/ RefuseMessage(c) \/ PollFails(c)
    \/ Step(c)

SameListener == pc'[Listener] = pc[Listener] /\ local'[Listener] = local[Listener]
SameEndpoint(d) ==
    /\ pc'[d] = pc[d] /\ local'[d] = local[d] /\ phase'[d] = phase[d] /\ up'[d] = up[d]
    /\ subscribed'[d] = subscribed[d] /\ (d \in expired' <=> d \in expired)
SameConn(d) ==
    /\ SameEndpoint(d) /\ joined'[d] = joined[d]
    /\ (d \in room' <=> d \in room) /\ presence'[d] = presence[d]

LEMMA FailFrame ==
    ASSUME TypeOK, NEW c \in Conn, Fail(c), UNCHANGED <<room, presence, expired>>
    PROVE  SameListener /\ \A d \in Conn \ {c} : SameConn(d)
BY RoomAssumption DEF TypeOK, Fail, Rest, GoTo, Close, Workers, SameListener, SameConn,
   SameEndpoint

LEMMA EnterFrame ==
    ASSUME TypeOK, NEW c \in Conn, Enter(c),
           UNCHANGED <<presence, expired>>, NEW b \in BOOLEAN,
           subscribed' = [subscribed EXCEPT ![c] = b]
    PROVE  SameListener /\ \A d \in Conn \ {c} : SameConn(d)
BY ZenonT(40), RoomAssumption DEF TypeOK, Enter, Rest, GoTo, Workers, SameListener, SameConn,
   SameEndpoint, client

LEMMA JoinFrame ==
    ASSUME TypeOK, NEW c \in Conn, Join(c)
    PROVE  SameListener /\ \A d \in Conn \ {c} : SameConn(d)
<1>0. c \in Workers /\ Listener \in Workers /\ Listener # c /\ Conn \subseteq Workers
  BY RoomAssumption DEF Workers
<1>1. CASE \/ JoinSet(c) \/ JoinMember(c) \/ JoinPresence(c) \/ ReplyJoined(c)
  BY ZenonT(40), <1>0, <1>1 DEF TypeOK, JoinSet, JoinMember, JoinPresence, ReplyJoined, GoTo,
     Rest, Start, SameListener, SameConn, SameEndpoint, client, registry, stored
<1>2. CASE JoinGetSet(c)
  <2>1. CASE GoTo(c, "join subscribe") /\ UNCHANGED <<room, local, client, subscribed>>
    BY <1>0, <1>2, <2>1 DEF TypeOK, JoinGetSet, GoTo, SameListener, SameConn, SameEndpoint,
       client, stored
  <2>2. CASE Enter(c) /\ subscribed' = [subscribed EXCEPT ![c] = listed /\ @]
    <3>1. (listed /\ subscribed[c]) \in BOOLEAN
      OBVIOUS
    <3>2. subscribed' = [subscribed EXCEPT ![c] = (listed /\ subscribed[c])]
      BY <2>2
    <3> QED
      BY <1>2, <2>2, <3>1, <3>2, EnterFrame DEF JoinGetSet, stored
  <2> QED
    BY <1>2, <2>1, <2>2 DEF JoinGetSet
<1>3. CASE JoinSubscribe(c)
  <2>1. listed \in BOOLEAN
    BY DEF TypeOK
  <2> QED
    BY <1>3, <2>1, EnterFrame DEF JoinSubscribe, stored
<1>4. CASE JoinDocument(c)
  <2>1. CASE GoTo(c, "join member") /\ UNCHANGED <<local, client, subscribed>>
    BY <1>0, <1>4, <2>1 DEF TypeOK, JoinDocument, GoTo, SameListener, SameConn, SameEndpoint,
       client, stored, registry
  <2> QED
    BY <1>4, <2>1, FailFrame DEF JoinDocument, stored, registry
<1>5. CASE JoinSave(c)
  <2>1. CASE GoTo(c, "join presence") /\ UNCHANGED <<local, client, subscribed>>
    BY <1>0, <1>5, <2>1 DEF TypeOK, JoinSave, GoTo, SameListener, SameConn, SameEndpoint,
       client, registry
  <2> QED
    BY <1>5, <2>1, FailFrame DEF JoinSave, registry
<1> QED
  BY <1>1, <1>2, <1>3, <1>4, <1>5 DEF Join

LEMMA StepFrame ==
    ASSUME TypeOK, NEW c \in Conn, Target(c) = c, Step(c)
    PROVE  SameListener /\ \A d \in Conn \ {c} : SameConn(d)
<1>0. c \in Workers /\ Listener \in Workers /\ Listener # c /\ Conn \subseteq Workers
  BY RoomAssumption DEF Workers
<1>1. CASE DropSet(c)
  BY <1>0, <1>1 DEF TypeOK, DropSet, GoTo, SameListener, SameConn, SameEndpoint, client, registry
<1>2. CASE DropGetSet(c) \/ DropSubscribe(c)
  BY <1>0, <1>2 DEF TypeOK, DropGetSet, DropSubscribe, GoTo, SameListener, SameConn,
     SameEndpoint, client, registry, stored
<1>3. CASE DropMember(c)
  <2>1. CASE Fail(c)
    BY <1>3, <2>1, FailFrame DEF DropMember, registry, stored
  <2>2. CASE /\ GoTo(c, "drop delete") \/ GoTo(c, "drop presence")
             /\ UNCHANGED <<client, subscribed, local>>
    BY <1>0, <1>3, <2>2 DEF TypeOK, DropMember, GoTo, SameListener, SameConn, SameEndpoint,
       client, registry, stored
  <2> QED
    BY <1>3, <2>1, <2>2 DEF DropMember
<1>4. CASE DropDelete(c) \/ DropPresence(c) \/ Announce(c)
  BY <1>0, <1>4 DEF TypeOK, DropDelete, DropPresence, Announce, GoTo, SameListener, SameConn,
     SameEndpoint, client, registry, stored
<1>5. CASE PublishList(c)
  BY <1>0, <1>5 DEF TypeOK, PublishList, GoTo, Rest, Close, SameListener, SameConn,
     SameEndpoint, client, registry, stored
<1>6. CASE CallFails(c)
  BY <1>6, FailFrame DEF CallFails, registry, stored
<1> QED
  BY <1>1, <1>2, <1>3, <1>4, <1>5, <1>6 DEF Step

LEMMA OwnFrame ==
    ASSUME TypeOK, NEW c \in Conn, Target(c) = c, Own(c)
    PROVE  SameListener /\ \A d \in Conn \ {c} : SameConn(d)
<1>0. c \in Workers /\ Listener \in Workers /\ Listener # c /\ Conn \subseteq Workers
  BY RoomAssumption DEF Workers
<1>1. CASE ReceiveJoin(c) \/ ReceiveLeave(c) \/ Expire(c) \/ Connect(c) \/ ClientDrops(c)
  BY ZenonT(40), <1>0, <1>1
     DEF TypeOK, ReceiveJoin, ReceiveLeave, Expire, Connect, ClientDrops, GoTo, Start,
     SameListener, SameConn, SameEndpoint, client, registry, stored, worker
<1>2. CASE NoticeDisconnect(c)
  BY ZenonT(40), <1>0, <1>2 DEF TypeOK, NoticeDisconnect, GoTo, Start, Close,
     SameListener, SameConn, SameEndpoint, client, registry, stored, worker
<1>3. CASE RefuseMessage(c) \/ PollFails(c)
  BY <1>3, FailFrame DEF RefuseMessage, PollFails, registry, stored
<1> QED
  BY <1>1, <1>2, <1>3, JoinFrame, StepFrame DEF Own

\* What another connection's handler does disturbs nothing here.
LEMMA OthersKeep ==
    ASSUME NEW d \in Conn, EndpointShape(d), Presence(d), SameListener, SameConn(d)
    PROVE  EndpointShape(d)' /\ Presence(d)'
BY DEF EndpointShape, Presence, Heeded, Lost, Entered, Used, Target, SameListener, SameConn,
   SameEndpoint

-----------------------------------------------------------------------------
(* Inv is inductive.                                                       *)

Ok(c) == EndpointShape(c) /\ Presence(c)

LEMMA LocalKeeps ==
    ASSUME TypeOK, NEW w \in Workers, NEW x,
           \/ local' = [local EXCEPT ![w].known = x]
           \/ local' = [local EXCEPT ![w].users = x]
    PROVE  local'[w].conn = local[w].conn /\ local'[w].purpose = local[w].purpose
<1>1. local \in [Workers -> Local]
  BY DEF TypeOK
<1>2. local[w] \in Local
  BY <1>1
<1>3. \/ local'[w] = [local[w] EXCEPT !.known = x]
      \/ local'[w] = [local[w] EXCEPT !.users = x]
  BY <1>1
<1> QED
  BY <1>2, <1>3 DEF Local

\* An endpoint that has ended keeps what it left in the room.
LEMMA EndedIsOk ==
    ASSUME TypeOK, NEW c \in Conn, Ok(c), SameListener,
           pc' = [pc EXCEPT ![c] = "idle"], Rest(c),
           phase' = [phase EXCEPT ![c] = "closed"], joined' = [joined EXCEPT ![c] = FALSE],
           UNCHANGED <<room, presence, expired, up>>
    PROVE  Ok(c)'
<1>0. c \in Workers /\ Listener # c
  BY RoomAssumption DEF Workers
<1>1. /\ pc'[c] = "idle" /\ local'[c] = LocalOf(c, "join")
      /\ phase'[c] = "closed" /\ joined'[c] = FALSE
  BY <1>0 DEF TypeOK, Rest
<1>2. Target(c)' = c
  BY <1>1 DEF Target, LocalOf
<1>3. (Heeded(c) <=> Heeded(c)') /\ Lost(c)' /\ Used(c)' /\ ~Entered(c)'
  BY <1>1 DEF Heeded, Lost, Used, Entered, Target, SameListener, Joining, Telling
<1> QED
  BY <1>1, <1>2, <1>3 DEF Ok, EndpointShape, Presence, Joining, Dropping

LEMMA FailIsOk ==
    ASSUME TypeOK, NEW c \in Conn, Ok(c), Fail(c), UNCHANGED <<room, presence, expired>>
    PROVE  Ok(c)'
<1>1. SameListener
  BY FailFrame
<1> QED
  BY <1>1, EndedIsOk, RoomAssumption DEF Fail, GoTo, Close

\* A step of a handler that leaves the client and the room alone.
LEMMA MoveIsOk ==
    ASSUME TypeOK, NEW c \in Conn, Ok(c), SameListener,
           NEW step \in PC \ ({"idle", "dead"} \cup Entering),
           pc' = [pc EXCEPT ![c] = step], pc[c] # "idle",
           local'[c].conn = local[c].conn, local'[c].purpose = local[c].purpose,
           step \in Joining => local[c].purpose = "join",
           step \in Dropping => local[c].purpose # "join",
           step \in Joining \cup Telling /\ local[c].purpose = "join" => Entered(c),
           UNCHANGED <<room, expired, phase, up, joined>>,
           presence'[c] => presence[c] \/ ~up[c] \/ (c \in room /\ ~Heeded(c))
    PROVE  Ok(c)'
<1>0. c \in Workers /\ Listener # c
  BY RoomAssumption DEF Workers
<1>1. pc'[c] = step /\ phase[c] = "active"
  BY <1>0 DEF TypeOK, Ok, EndpointShape
<1>2. /\ Heeded(c) <=> Heeded(c)'
      /\ Entered(c)' => Entered(c)
      /\ Lost(c) => Lost(c)'
  BY <1>1 DEF Heeded, Lost, Entered, Target, SameListener, client, Joining, Telling, Entering
<1>3. EndpointShape(c)'
  BY <1>1 DEF Ok, EndpointShape, Target, client
<1>4. ~up[c] => Lost(c)'
  BY DEF Lost, client
<1> QED
  BY <1>1, <1>2, <1>3, <1>4 DEF Ok, Presence, Used, client, Target, SameListener

\* Before it enters, a handler is not lost unless its client is.
LEMMA EnterIsOk ==
    ASSUME TypeOK, NEW c \in Conn, Ok(c), SameListener, pc[c] \in Entering, Enter(c),
           UNCHANGED <<presence, expired>>
    PROVE  Ok(c)'
<1>0. c \in Workers /\ Listener # c
  BY RoomAssumption DEF Workers
<1>1. CASE /\ room' = room \cup {c} /\ GoTo(c, "join document") /\ UNCHANGED <<local, client>>
  <2>1. /\ pc'[c] = "join document" /\ phase[c] = "active" /\ c \in room'
        /\ local[c].purpose = "join"
    BY <1>0, <1>1 DEF TypeOK, Ok, EndpointShape, GoTo, Entering, Joining
  <2>2. Heeded(c) <=> Heeded(c)'
    BY DEF Heeded, Target, SameListener
  <2>3. Lost(c) => ~up[c]
    BY <2>1 DEF Lost
  <2> QED
    BY <1>1, <2>1, <2>2, <2>3 DEF Ok, EndpointShape, Presence, Used, Lost, Entered, client, Target,
       SameListener, Joining, Dropping, Entering
<1>2. CASE /\ Rest(c) /\ GoTo(c, "idle")
           /\ phase' = [phase EXCEPT ![c] = "closed"]
           /\ joined' = [joined EXCEPT ![c] = FALSE]
           /\ UNCHANGED <<room, up, undercut>>
  BY <1>2, EndedIsOk DEF GoTo
<1> QED
  BY <1>1, <1>2 DEF Enter

LEMMA JoinIsOk ==
    ASSUME TypeOK, NEW c \in Conn, Ok(c), Join(c)
    PROVE  Ok(c)'
<1>0. SameListener /\ c \in Workers /\ Listener # c
  BY JoinFrame, RoomAssumption DEF Workers
<1>1. CASE JoinSet(c)
  <2>1. pc[c] = "join set" /\ pc'[c] = "join get set"
    BY <1>0, <1>1 DEF TypeOK, JoinSet, GoTo
  <2>2. UNCHANGED <<room, presence, expired, phase, up, joined, local>>
    BY <1>1 DEF JoinSet
  <2> QED
    BY <1>0, <2>1, <2>2 DEF Ok, EndpointShape, Presence, Heeded, Lost, Used, Entered, Target,
       SameListener, Joining, Dropping, Telling, Entering
<1>2. CASE JoinGetSet(c)
  <2>1. CASE GoTo(c, "join subscribe") /\ UNCHANGED <<room, local, client, subscribed>>
    <3>1. pc[c] = "join get set" /\ pc'[c] = "join subscribe"
      BY <1>0, <1>2, <2>1 DEF TypeOK, JoinGetSet, GoTo
    <3>2. UNCHANGED <<room, presence, expired, client, local>>
      BY <1>2, <2>1 DEF JoinGetSet, stored
    <3> QED
      BY <1>0, <3>1, <3>2 DEF Ok, EndpointShape, Presence, Heeded, Lost, Used, Entered, Target,
         SameListener, client, Joining, Dropping, Telling, Entering
  <2>2. CASE Enter(c)
    BY <1>0, <1>2, <2>2, EnterIsOk DEF JoinGetSet, stored, Entering
  <2> QED
    BY <1>2, <2>1, <2>2 DEF JoinGetSet
<1>3. CASE JoinSubscribe(c)
  BY <1>0, <1>3, EnterIsOk DEF JoinSubscribe, stored, Entering
<1>4. CASE JoinDocument(c)
  <2>1. CASE GoTo(c, "join member") /\ UNCHANGED <<local, client, subscribed>>
    BY <1>0, <1>4, <2>1, MoveIsOk DEF JoinDocument, GoTo, client, stored, registry, PC,
       Joining, Entering, Dropping, Telling, Entered, Ok, EndpointShape
  <2> QED
    BY <1>4, <2>1, FailIsOk DEF JoinDocument, stored, registry
<1>5. CASE JoinMember(c)
  <2>1. local'[c].conn = local[c].conn /\ local'[c].purpose = local[c].purpose
    <3>1. local' = [local EXCEPT ![c].known = member[UserOf[c]]]
      BY <1>5 DEF JoinMember
    <3> QED
      BY <1>0, <3>1, LocalKeeps
  <2> QED
    BY <1>0, <1>5, <2>1, MoveIsOk DEF JoinMember, GoTo, client, stored, registry, PC,
       Joining, Entering, Dropping, Telling, Entered, Ok, EndpointShape
<1>6. CASE JoinSave(c)
  <2>1. CASE GoTo(c, "join presence") /\ UNCHANGED <<local, client, subscribed>>
    BY <1>0, <1>6, <2>1, MoveIsOk DEF JoinSave, GoTo, client, registry, PC, Joining, Entering,
       Dropping, Telling, Entered, Ok, EndpointShape
  <2> QED
    BY <1>6, <2>1, FailIsOk DEF JoinSave, registry
<1>7. CASE JoinPresence(c)
  <2>1. local'[c].conn = local[c].conn /\ local'[c].purpose = local[c].purpose
    <3>1. local' = [local EXCEPT ![c].users = UsersIn(room)]
      BY <1>7 DEF JoinPresence
    <3> QED
      BY <1>0, <3>1, LocalKeeps
  <2>2. Entered(c) /\ phase[c] = "active" /\ local[c].purpose = "join"
    BY <1>7 DEF JoinPresence, Entered, Joining, Entering, Ok, EndpointShape
  <2>3. ~up[c] \/ (c \in room /\ ~Heeded(c))
    BY <2>2 DEF Ok, Presence, Lost
  <2> DEFINE step == IF local[c].first THEN "announce" ELSE "joined"
  <2>4. /\ step \in PC \ ({"idle", "dead"} \cup Entering)
        /\ step \in Joining \cup Telling /\ step \notin Dropping
    BY DEF PC, Joining, Telling, Dropping, Entering
  <2>5. pc' = [pc EXCEPT ![c] = step] /\ pc[c] # "idle" /\ UNCHANGED <<room, expired, client>>
    BY <1>7 DEF JoinPresence, GoTo, registry
  <2> HIDE DEF step
  <2> QED
    BY <1>0, <2>1, <2>2, <2>3, <2>4, <2>5, MoveIsOk DEF client
<1>8. CASE ReplyJoined(c)
  <2>1. /\ pc[c] = "joined" /\ phase[c] = "active" /\ local[c].purpose = "join"
        /\ UNCHANGED <<room, presence, expired, phase, up>>
    BY <1>8 DEF ReplyJoined, registry, stored, Ok, EndpointShape, Joining
  <2>2. c \in room \/ ~up[c]
    BY <2>1 DEF Ok, Presence, Entered, Joining, Entering
  <2>3. Heeded(c) <=> Heeded(c)'
    BY <1>0, <2>1 DEF Heeded, Target, SameListener
  <2>4. CASE joined' = [joined EXCEPT ![c] = c \in room /\ up[c]] /\ Rest(c) /\ GoTo(c, "idle")
    <3>1. /\ pc'[c] = "idle" /\ local'[c] = LocalOf(c, "join")
          /\ joined'[c] = (c \in room /\ up[c])
      BY <1>0, <2>4 DEF TypeOK, Rest, GoTo
    <3>2. Lost(c)' => Lost(c)
      BY <2>1, <2>2, <3>1 DEF Lost
    <3>3. Lost(c) => ~up[c] /\ Lost(c)'
      BY <2>1, <2>2 DEF Lost, Entered, Joining, Entering
    <3>4. EndpointShape(c)'
      BY <2>1, <3>1 DEF Ok, EndpointShape, Target, LocalOf, Joining, Dropping
    <3>5. /\ ~Entered(c)' /\ (Used(c) <=> Used(c)')
          /\ Target(Listener) = c <=> Target(Listener)' = c
      BY <1>0, <2>1, <3>1 DEF Entered, Used, Target, SameListener, Joining, Telling
    <3>6. Target(Listener) = c => Heeded(c)
      BY DEF Heeded
    <3> QED
      BY <2>1, <2>2, <2>3, <3>1, <3>2, <3>3, <3>4, <3>5, <3>6 DEF Ok, Presence
  <2>5. CASE /\ c \in room /\ ~up[c] /\ Start(c, c, "cleanup", "drop set")
             /\ joined' = [joined EXCEPT ![c] = FALSE]
    <3>1. /\ pc'[c] = "drop set" /\ local'[c] = LocalOf(c, "cleanup") /\ joined'[c] = FALSE
      BY <1>0, <2>5 DEF TypeOK, Start, GoTo
    <3>2. EndpointShape(c)'
      <4>1. LocalOf(c, "cleanup").conn = c /\ LocalOf(c, "cleanup").purpose = "cleanup"
        BY DEF LocalOf
      <4>3. Target(c)' = c /\ local'[c].purpose = "cleanup"
        BY <3>1, <4>1 DEF Target
      <4>2. c \in room' => phase'[c] \in {"active", "closed"}
        BY <2>1
      <4> QED
        BY <2>1, <3>1, <4>1, <4>2, <4>3 DEF EndpointShape, Joining
    <3>3. ~Entered(c)' /\ Used(c)' /\ Lost(c)'
      BY <2>1, <2>5, <3>1 DEF Entered, Used, Lost, Joining, Dropping, Telling
    <3> QED
      BY <2>1, <2>3, <2>5, <3>1, <3>2, <3>3 DEF Ok, Presence
  <2> QED
    BY <1>8, <2>4, <2>5 DEF ReplyJoined
<1> QED
  BY <1>1, <1>2, <1>3, <1>4, <1>5, <1>6, <1>7, <1>8 DEF Join

LEMMA StepIsOk ==
    ASSUME TypeOK, NEW c \in Conn, Ok(c), Step(c)
    PROVE  Ok(c)'
<1>0. SameListener /\ c \in Workers /\ Listener # c /\ Target(c) = c
  BY StepFrame, RoomAssumption DEF Workers, Ok, EndpointShape
<1>1. CASE DropSet(c)
  <2>1. /\ pc[c] = "drop set" /\ phase[c] = "active" /\ local[c].purpose # "join"
        /\ UNCHANGED <<presence, expired, phase, up, joined, local>>
    BY <1>1 DEF DropSet, Ok, EndpointShape, Dropping
  <2>2. pc'[c] \in {"drop get set", "drop member"}
    BY <1>0, <1>1 DEF TypeOK, DropSet, GoTo
  <2>3. c \notin room'
    BY <1>0, <1>1 DEF DropSet, registry
  <2>4. Lost(c)' /\ (Heeded(c) <=> Heeded(c)') /\ Used(c)' /\ Used(c) /\ ~Entered(c)'
    BY <1>0, <2>1, <2>2, <2>3 DEF Lost, Heeded, Used, Entered, Target, SameListener, client,
       Joining, Telling, Entering
  <2>5. EndpointShape(c)'
    BY <2>1, <2>2, <2>3 DEF Ok, EndpointShape, Target, client, Joining, Dropping
  <2> QED
    BY <1>0, <2>1, <2>4, <2>5 DEF Ok, Presence, Target, SameListener, client
<1>2. CASE DropGetSet(c)
  <2>1. pc[c] = "drop get set" /\ UNCHANGED <<room, presence, expired, client, local>>
    BY <1>2 DEF DropGetSet, registry, stored
  <2> DEFINE step == IF inSet[TargetUser(c)] THEN "drop member" ELSE "drop subscribe"
  <2>2. pc' = [pc EXCEPT ![c] = step] /\ step \in Dropping /\ local[c].purpose # "join"
    BY <1>2, <2>1 DEF DropGetSet, GoTo, Dropping, Ok, EndpointShape
  <2>3. step \in PC \ ({"idle", "dead"} \cup Entering) /\ step \notin Joining \cup Telling
    BY DEF PC, Dropping, Entering, Joining, Telling
  <2> HIDE DEF step
  <2> QED
    BY <1>0, <2>1, <2>2, <2>3, MoveIsOk DEF client
<1>3. CASE DropSubscribe(c)
  BY <1>0, <1>3, MoveIsOk DEF DropSubscribe, GoTo, client, stored, registry, PC, Entering, Joining,
     Dropping, Telling, Ok, EndpointShape
<1>4. CASE DropMember(c)
  <2>1. CASE Fail(c)
    BY <1>4, <2>1, FailIsOk DEF DropMember, stored, registry
  <2>2. ASSUME NEW step \in {"drop delete", "drop presence"}, GoTo(c, step),
               UNCHANGED <<client, subscribed, local>>
        PROVE  Ok(c)'
    <3>1. /\ step \in PC \ ({"idle", "dead"} \cup Entering)
          /\ step \in Dropping /\ step \notin Joining \cup Telling
      BY DEF PC, Dropping, Entering, Joining, Telling
    <3>2. pc[c] = "drop member" /\ local[c].purpose # "join"
      BY <1>4 DEF DropMember, Ok, EndpointShape, Dropping
    <3> QED
      BY <1>0, <1>4, <2>2, <3>1, <3>2, MoveIsOk DEF DropMember, GoTo, client, stored, registry
  <2> QED
    BY <1>4, <2>1, <2>2 DEF DropMember
<1>5. CASE DropDelete(c)
  <2> DEFINE step == IF local[c].purpose = "leave" THEN "announce" ELSE "drop presence"
  <2>1. pc[c] = "drop delete" /\ local[c].purpose # "join"
    BY <1>5 DEF DropDelete, Ok, EndpointShape, Dropping
  <2>2. /\ pc' = [pc EXCEPT ![c] = step]
        /\ UNCHANGED <<room, presence, expired, phase, up, joined, local>>
    BY <1>5 DEF DropDelete, GoTo, registry
  <2>3. step \in PC \ ({"idle", "dead"} \cup Entering) /\ step \notin Joining
    BY DEF PC, Dropping, Telling, Entering, Joining
  <2> HIDE DEF step
  <2> QED
    BY <1>0, <2>1, <2>2, <2>3, MoveIsOk
<1>6. CASE DropPresence(c)
  <2>1. local'[c].conn = local[c].conn /\ local'[c].purpose = local[c].purpose
    <3>1. local' = [local EXCEPT ![c].users = UsersIn(room)]
      BY <1>6 DEF DropPresence
    <3> QED
      BY <1>0, <3>1, LocalKeeps
  <2>2. presence'[c] => presence[c]
    BY <1>0, <1>6 DEF TypeOK, DropPresence
  <2>3. pc[c] = "drop presence" /\ local[c].purpose # "join"
    BY <1>6 DEF DropPresence, Ok, EndpointShape, Dropping
  <2>4. "list" \in PC \ ({"idle", "dead"} \cup Entering) /\ "list" \notin Joining \cup Dropping
    BY DEF PC, Dropping, Telling, Entering, Joining
  <2> QED
    BY <1>0, <1>6, <2>1, <2>2, <2>3, <2>4, MoveIsOk DEF DropPresence, GoTo, client, registry
<1>7. CASE Announce(c)
  <2>1. local'[c].conn = local[c].conn /\ local'[c].purpose = local[c].purpose
    <3>1. local' = [local EXCEPT ![c].users =
                       IF local[c].purpose = "leave" THEN UsersIn(room) ELSE local[c].users]
      BY <1>7 DEF Announce
    <3> QED
      BY <1>0, <3>1, LocalKeeps
  <2>2. "list" \in PC \ ({"idle", "dead"} \cup Entering) /\ "list" \notin Joining \cup Dropping
    BY DEF PC, Dropping, Telling, Entering, Joining
  <2>3. pc[c] = "announce" /\ "announce" \in Telling
    BY <1>7 DEF Announce, Telling
  <2> QED
    BY <1>0, <1>7, <2>1, <2>2, <2>3, MoveIsOk DEF Announce, GoTo, client, registry, stored, Entered
<1>8. CASE PublishList(c)
  <2>1. pc[c] = "list" /\ UNCHANGED <<room, presence, expired>>
    BY <1>8 DEF PublishList, registry, stored
  <2>2. CASE /\ local[c].purpose = "join" /\ GoTo(c, "joined")
             /\ UNCHANGED <<local, client, subscribed>>
    <3>1. /\ "joined" \in PC \ ({"idle", "dead"} \cup Entering) /\ "joined" \notin Dropping
          /\ "list" \in Telling
      BY DEF PC, Dropping, Telling, Entering, Joining
    <3> QED
      BY <1>0, <2>1, <2>2, <3>1, MoveIsOk DEF GoTo, client, Entered
  <2>3. CASE /\ local[c].purpose = "leave" \/ c = Listener
             /\ Rest(c) /\ GoTo(c, "idle") /\ UNCHANGED <<client, subscribed>>
    <3>1. pc'[c] = "idle" /\ local'[c] = LocalOf(c, "join")
      BY <1>0, <2>3 DEF TypeOK, Rest, GoTo
    <3>2. EndpointShape(c)'
      BY <2>1, <2>3, <3>1 DEF Ok, EndpointShape, Target, LocalOf, client, Joining, Dropping
    <3>3. ~Entered(c) /\ ~Entered(c)' /\ (Lost(c) => Lost(c)') /\ (Heeded(c) <=> Heeded(c)')
      BY <1>0, <2>1, <2>3, <3>1 DEF Entered, Lost, Heeded, Target, SameListener, client, Joining,
         Telling, Entering
    <3> QED
      BY <1>0, <2>1, <2>3, <3>2, <3>3 DEF Ok, Presence, Used, Target, SameListener, client
  <2>4. CASE Rest(c) /\ GoTo(c, "idle") /\ Close(c)
    BY <1>0, <2>1, <2>4, EndedIsOk DEF GoTo, Close
  <2> QED
    BY <1>8, <2>2, <2>3, <2>4 DEF PublishList
<1>9. CASE CallFails(c)
  BY <1>9, FailIsOk DEF CallFails, stored, registry
<1> QED
  BY <1>1, <1>2, <1>3, <1>4, <1>5, <1>6, <1>7, <1>8, <1>9 DEF Step

\* A handler starts to take its connection out of the room.
LEMMA DropIsOk ==
    ASSUME TypeOK, NEW c \in Conn, Ok(c), SameListener,
           NEW purpose \in {"leave", "cleanup"}, Start(c, c, purpose, "drop set"),
           joined' = [joined EXCEPT ![c] = FALSE], c \in room \/ ~up[c], phase[c] = "active",
           ~Entered(c) \/ ~up[c], UNCHANGED <<room, presence, expired, phase, up>>
    PROVE  Ok(c)'
<1>0. c \in Workers /\ Listener # c
  BY RoomAssumption DEF Workers
<1>1. pc'[c] = "drop set" /\ local'[c] = LocalOf(c, purpose) /\ joined'[c] = FALSE
  BY <1>0 DEF TypeOK, Start, GoTo
<1>2. LocalOf(c, purpose).conn = c /\ LocalOf(c, purpose).purpose = purpose
  BY DEF LocalOf
<1>3. Target(c)' = c /\ local'[c].purpose # "join"
  BY <1>1, <1>2 DEF Target
<1>4. c \in room' => phase'[c] \in {"active", "closed"}
  OBVIOUS
<1>5. EndpointShape(c)'
  BY <1>1, <1>3, <1>4 DEF EndpointShape, Joining
<1>6. ~Entered(c)' /\ Used(c)' /\ Used(c)
  BY <1>1 DEF Entered, Used, Joining, Telling
<1>7. (Heeded(c) <=> Heeded(c)') /\ (Lost(c) => Lost(c)')
  BY <1>1, <1>6 DEF Heeded, Lost, Target, SameListener, Entering
<1> QED
  BY <1>1, <1>5, <1>6, <1>7 DEF Ok, Presence

LEMMA OwnIsOk ==
    ASSUME TypeOK, "rejoin" \notin Faults, NEW c \in Conn, Ok(c), Own(c)
    PROVE  Ok(c)'
<1>0. SameListener /\ c \in Workers /\ Listener # c /\ Target(c) = c
  BY OwnFrame, RoomAssumption DEF Workers, Ok, EndpointShape
<1>1. CASE ReceiveJoin(c)
  <2>1. /\ pc[c] = "idle" /\ up[c] /\ Open(c)
        /\ phase[c] = "connected" \/ c \in room
        /\ UNCHANGED <<room, presence, expired, up, joined>>
    BY <1>1 DEF ReceiveJoin, registry, stored
  <2>2. /\ pc'[c] = "join set" /\ phase'[c] = "active"
        /\ local'[c] = [LocalOf(c, "join") EXCEPT !.first = UserOf[c] \notin UsersIn(room)]
    BY <1>0, <1>1 DEF TypeOK, ReceiveJoin, GoTo
  <2>3. local'[c].conn = c /\ local'[c].purpose = "join"
    BY <2>2 DEF LocalOf
  <2>4. ~Lost(c) \/ ~Used(c)
    BY <2>1 DEF Lost, Used, Open
  <2>5. ~Heeded(c) /\ ~Heeded(c)' /\ (presence[c] => c \in room) /\ Target(Listener)' # c
    BY <1>0, <2>1, <2>4 DEF Ok, Presence, Heeded, Target, SameListener
  <2> QED
    BY <2>1, <2>2, <2>3, <2>5 DEF Ok, EndpointShape, Presence, Used, Entered, Target,
       Joining, Dropping, Telling, Entering
<1>2. CASE ReceiveLeave(c)
  <2>1. c \in room /\ phase[c] = "active" /\ ~Entered(c)
    BY <1>2 DEF ReceiveLeave, Open, Ok, EndpointShape, Entered, Joining, Telling
  <2> QED
    BY <1>0, <1>2, <2>1, DropIsOk DEF ReceiveLeave, registry, stored
<1>3. CASE NoticeDisconnect(c)
  <2>1. CASE /\ phase[c] = "active" /\ Start(c, c, "cleanup", "drop set")
             /\ joined' = [joined EXCEPT ![c] = FALSE] /\ UNCHANGED <<phase, up, subscribed>>
    BY <1>0, <1>3, <2>1, DropIsOk DEF NoticeDisconnect, registry, stored
  <2>2. CASE phase[c] = "connected" /\ Close(c) /\ UNCHANGED worker
    <3>1. /\ pc[c] = "idle" /\ pc'[c] = "idle" /\ local'[c] = local[c]
          /\ UNCHANGED <<room, presence, expired, up>>
      BY <1>3, <2>2 DEF NoticeDisconnect, worker, registry, stored, Close
    <3>2. phase'[c] = "closed" /\ joined'[c] = FALSE
      BY <1>0, <2>2 DEF TypeOK, Close
    <3> QED
      BY <1>0, <2>2, <3>1, <3>2 DEF Ok, EndpointShape, Presence, Used, Entered, Target, Heeded,
         Lost, SameListener, Joining, Dropping, Telling
  <2> QED
    BY <1>3, <2>1, <2>2 DEF NoticeDisconnect
<1>4. CASE Expire(c)
  <2>1. /\ presence[c] /\ (~up[c] \/ ~Open(c) \/ c \notin room)
        /\ UNCHANGED <<room, client, worker>>
    BY <1>4 DEF Expire, registry
  <2>2. presence'[c] = FALSE
    BY <1>4 DEF Expire, TypeOK
  <2>3. Used(c) /\ Lost(c)
    BY <2>1 DEF Ok, Presence, Used, Lost, Open
  <2>4. (Lost(c) <=> Lost(c)') /\ (Used(c) <=> Used(c)') /\ (Entered(c) <=> Entered(c)')
    BY <2>1 DEF Lost, Used, Entered, client, worker
  <2> QED
    BY <2>1, <2>2, <2>3, <2>4 DEF Ok, EndpointShape, Presence, Target, client, worker
<1>5. CASE Connect(c)
  <2>1. /\ phase[c] = "new" /\ UNCHANGED <<room, presence, expired, joined, worker>>
        /\ phase'[c] = "connected"
    BY <1>5 DEF TypeOK, Connect, registry, stored
  <2> QED
    BY <2>1 DEF Ok, EndpointShape, Presence, Used, Entered, Target, Heeded, worker,
       Joining, Telling
<1>6. CASE ClientDrops(c)
  <2>1. UNCHANGED <<room, presence, expired, phase, joined, worker>> /\ up'[c] = FALSE
    BY <1>6 DEF TypeOK, ClientDrops, registry, stored
  <2> QED
    BY <2>1 DEF Ok, EndpointShape, Presence, Used, Lost, Entered, Target, Heeded, worker
<1>7. CASE RefuseMessage(c) \/ PollFails(c)
  BY <1>7, FailIsOk DEF RefuseMessage, PollFails, registry, stored
<1> QED
  BY <1>1, <1>2, <1>3, <1>4, <1>5, <1>6, <1>7, JoinIsOk, StepIsOk DEF Own

-----------------------------------------------------------------------------
(* The listener.                                                           *)

\* What a step of its clean-up does to a connection.
ListenerTouches(d) ==
    /\ SameEndpoint(d) /\ joined'[d] = joined[d]
    /\ d \in room' => d \in room
    /\ d \in room /\ d # Target(Listener) => d \in room'
    /\ presence'[d] => presence[d]

ListenerGoesOn ==
    \/ Target(Listener)' = Target(Listener)
    \/ Target(Listener)' = Listener /\ pc'[Listener] \in {"idle", "dead"}

LEMMA ListenerFails ==
    ASSUME TypeOK, Fail(Listener), UNCHANGED <<room, presence, expired>>
    PROVE  ListenerShape' /\ ListenerGoesOn /\ \A d \in Conn : ListenerTouches(d)
<1>0. Listener \in Workers /\ Conn \subseteq Workers /\ Listener \notin Conn
  BY RoomAssumption DEF Workers
<1>1. /\ pc' = [pc EXCEPT ![Listener] = "dead"]
      /\ local' = [local EXCEPT ![Listener] = LocalOf(Listener, "join")]
      /\ UNCHANGED <<client, subscribed>>
  BY <1>0 DEF Fail, Rest, GoTo
<1>2. pc'[Listener] = "dead" /\ local'[Listener] = LocalOf(Listener, "join")
  BY <1>0, <1>1 DEF TypeOK
<1>3. Target(Listener)' = Listener
  BY <1>2 DEF Target, LocalOf
<1>4. \A d \in Conn : ListenerTouches(d)
  BY <1>0, <1>1 DEF TypeOK, ListenerTouches, SameEndpoint, client
<1> QED
  BY <1>2, <1>3, <1>4 DEF ListenerShape, ListenerGoesOn

LEMMA ListenerStep ==
    ASSUME TypeOK, ListenerShape, Step(Listener)
    PROVE  /\ ListenerShape' /\ ListenerGoesOn
           /\ Target(Listener) \in Conn
           /\ \A d \in Conn : ListenerTouches(d)
<1>0. Listener \in Workers /\ Conn \subseteq Workers /\ Listener \notin Conn
  BY RoomAssumption DEF Workers
<1>1. /\ pc[Listener] \notin {"idle", "dead", "announce"}
      /\ local[Listener].purpose = "cleanup" /\ Target(Listener) \in Conn
  BY DEF Step, DropSet, DropGetSet, DropSubscribe, DropMember, DropDelete, DropPresence,
     Announce, PublishList, CallFails, Joining, Dropping, ListenerShape
<1>2. ASSUME NEW step \in Dropping \cup {"list"}, pc' = [pc EXCEPT ![Listener] = step],
             local'[Listener].conn = local[Listener].conn,
             local'[Listener].purpose = local[Listener].purpose
      PROVE  ListenerShape' /\ ListenerGoesOn
  <2>1. pc'[Listener] = step /\ step \notin {"idle", "dead"}
    BY <1>0, <1>2 DEF TypeOK, Dropping
  <2> QED
    BY <1>1, <1>2, <2>1 DEF ListenerShape, ListenerGoesOn, Target
<1>3. CASE DropSet(Listener)
  <2>1. \E step \in Dropping \cup {"list"} : GoTo(Listener, step)
    BY <1>3 DEF DropSet, Dropping
  <2>2. \A d \in Conn : ListenerTouches(d)
    <3>1. /\ pc' = [pc EXCEPT ![Listener] = pc'[Listener]]
          /\ UNCHANGED <<presence, expired, subscribed, phase, up, joined, local>>
      BY <1>0, <1>3 DEF TypeOK, DropSet, GoTo
    <3>2. room' = room \ {Target(Listener)}
      BY <1>3 DEF TypeOK, DropSet, registry
    <3> QED
      BY <1>0, <3>1, <3>2 DEF TypeOK, ListenerTouches, SameEndpoint
  <2> QED
    BY <1>1, <1>2, <1>3, <2>1, <2>2 DEF DropSet, GoTo
<1>4. CASE DropGetSet(Listener) \/ DropSubscribe(Listener)
  <2>1. \E step \in Dropping \cup {"list"} : GoTo(Listener, step)
    BY <1>4 DEF DropGetSet, DropSubscribe, Dropping
  <2>2. \A d \in Conn : ListenerTouches(d)
    BY <1>0, <1>4 DEF TypeOK, DropGetSet, DropSubscribe, GoTo, ListenerTouches, SameEndpoint,
       client, registry, stored
  <2> QED
    BY <1>1, <1>2, <1>4, <2>1, <2>2 DEF DropGetSet, DropSubscribe, GoTo
<1>5. CASE DropMember(Listener)
  <2>1. CASE \E step \in {"drop delete", "drop presence"} :
                 GoTo(Listener, step) /\ UNCHANGED <<client, subscribed, local>>
    <3>1. \E step \in Dropping \cup {"list"} : GoTo(Listener, step)
      BY <2>1 DEF Dropping
    <3>2. \A d \in Conn : ListenerTouches(d)
      BY <1>0, <1>5, <2>1 DEF TypeOK, DropMember, GoTo, ListenerTouches, SameEndpoint, client,
         registry, stored
    <3> QED
      BY <1>1, <1>2, <2>1, <3>1, <3>2 DEF GoTo
  <2> QED
    BY <1>1, <1>5, <2>1 DEF DropMember
<1>6. CASE DropDelete(Listener)
  <2>1. \E step \in Dropping \cup {"list"} : GoTo(Listener, step)
    BY <1>1, <1>6 DEF DropDelete, Dropping
  <2>2. \A d \in Conn : ListenerTouches(d)
    BY <1>0, <1>6 DEF TypeOK, DropDelete, GoTo, ListenerTouches, SameEndpoint, client, registry
  <2> QED
    BY <1>1, <1>2, <1>6, <2>1, <2>2 DEF DropDelete, GoTo
<1>7. CASE DropPresence(Listener)
  <2>1. local' = [local EXCEPT ![Listener].users = UsersIn(room)]
    BY <1>7 DEF DropPresence
  <2>2. /\ local'[Listener].conn = local[Listener].conn
        /\ local'[Listener].purpose = local[Listener].purpose
    BY <1>0, <2>1, LocalKeeps
  <2>3. \A d \in Conn : ListenerTouches(d)
    BY <1>0, <1>7 DEF TypeOK, DropPresence, GoTo, ListenerTouches, SameEndpoint, client, registry
  <2> QED
    BY <1>1, <1>2, <1>7, <2>2, <2>3 DEF DropPresence, GoTo
<1>8. CASE PublishList(Listener)
  <2>1. /\ pc' = [pc EXCEPT ![Listener] = "idle"]
        /\ local' = [local EXCEPT ![Listener] = LocalOf(Listener, "join")]
        /\ UNCHANGED <<client, subscribed, registry, stored>>
    BY <1>0, <1>1, <1>8 DEF PublishList, Rest, GoTo
  <2>2. pc'[Listener] = "idle" /\ local'[Listener] = LocalOf(Listener, "join")
    BY <1>0, <2>1 DEF TypeOK
  <2>3. Target(Listener)' = Listener
    BY <2>2 DEF Target, LocalOf
  <2>4. \A d \in Conn : ListenerTouches(d)
    BY <1>0, <2>1 DEF TypeOK, ListenerTouches, SameEndpoint, client, registry, stored
  <2> QED
    BY <1>1, <2>2, <2>3, <2>4 DEF ListenerShape, ListenerGoesOn
<1>9. CASE CallFails(Listener)
  BY <1>1, <1>9, ListenerFails DEF CallFails, registry, stored
<1> QED
  BY <1>1, <1>3, <1>4, <1>5, <1>6, <1>7, <1>8, <1>9 DEF Step, Announce

LEMMA ListenerKeeps ==
    ASSUME TypeOK, ListenerShape, NEW d \in Conn, Ok(d), ListenerGoesOn, ListenerTouches(d)
    PROVE  Ok(d)'
<1>0. Listener # d
  BY RoomAssumption
<1>1. /\ Heeded(d)' => Heeded(d)
      /\ Target(Listener)' = d => Target(Listener) = d
  BY <1>0 DEF Heeded, ListenerGoesOn, ListenerTouches, SameEndpoint
<1>2. /\ Lost(d) => Lost(d)'
      /\ Entered(d) <=> Entered(d)'
      /\ Used(d) <=> Used(d)'
  BY DEF Lost, Entered, Used, ListenerTouches, SameEndpoint
<1>3. d \in room /\ d \notin room' => Lost(d) /\ (Entered(d) => ~up[d])
  BY DEF Lost, Entered, Used, ListenerTouches, Ok, Presence, Heeded, EndpointShape, Joining,
     Telling
<1>4. EndpointShape(d)'
  BY DEF Ok, EndpointShape, Target, ListenerTouches, SameEndpoint
<1> QED
  BY <1>1, <1>2, <1>3, <1>4 DEF Ok, Presence, ListenerTouches, SameEndpoint

LEMMA HeedKeeps ==
    ASSUME Inv, NEW c \in Conn, Heed(c)
    PROVE  ListenerShape' /\ \A d \in Conn : Ok(d)'
<1>0. TypeOK /\ Listener \in Workers /\ Conn \subseteq Workers /\ Listener \notin Conn
  BY RoomAssumption DEF Workers, Inv
<1>1. /\ pc[Listener] = "idle" /\ c \in expired /\ expired' = expired \ {c}
      /\ UNCHANGED <<room, presence, phase, up, subscribed>>
      /\ Target(Listener) = Listener
  BY DEF Heed, registry, Inv, ListenerShape
<1>2. CASE c \in room /\ Start(Listener, c, "cleanup", "drop set")
           /\ joined' = [joined EXCEPT ![c] = FALSE]
  <2>1. /\ pc' = [pc EXCEPT ![Listener] = "drop set"]
        /\ local' = [local EXCEPT ![Listener] = LocalOf(c, "cleanup")]
    BY <1>2 DEF Start, GoTo
  <2>2. pc'[Listener] = "drop set" /\ local'[Listener] = LocalOf(c, "cleanup")
    BY <1>0, <2>1 DEF TypeOK
  <2>3. LocalOf(c, "cleanup").conn = c /\ LocalOf(c, "cleanup").purpose = "cleanup"
    BY DEF LocalOf
  <2>4. Target(Listener)' = c /\ local'[Listener].purpose = "cleanup"
    BY <2>2, <2>3 DEF Target
  <2>5. ListenerShape'
    BY <2>2, <2>4 DEF ListenerShape, Dropping
  <2>6. ASSUME NEW d \in Conn PROVE Ok(d)'
    <3>1. pc'[d] = pc[d] /\ local'[d] = local[d] /\ joined'[d] = (joined[d] /\ d # c)
      BY <1>0, <1>2, <2>1 DEF TypeOK
    <3>2. Heeded(d)' => Heeded(d)
      BY <1>1, <2>4 DEF Heeded
    <3>3. (Lost(d) <=> Lost(d)') /\ (Used(d) <=> Used(d)') /\ (Entered(d) <=> Entered(d)')
      BY <1>1, <3>1 DEF Lost, Used, Entered
    <3>4. EndpointShape(d)'
      BY <1>1, <3>1 DEF Inv, EndpointShape, Target
    <3>5. Target(Listener)' = d => ~joined'[d]
      BY <2>4, <3>1
    <3>6. Presence(d) /\ (joined'[d] => joined[d])
      BY <3>1 DEF Inv
    <3> QED
      BY <1>1, <3>2, <3>3, <3>4, <3>5, <3>6 DEF Ok, Presence
  <2> QED
    BY <2>5, <2>6
<1>3. CASE UNCHANGED <<worker, joined>>
  <2>1. ListenerShape'
    BY <1>3 DEF Inv, ListenerShape, Target, worker
  <2>2. ASSUME NEW d \in Conn PROVE Ok(d)'
    <3>1. Heeded(d)' => Heeded(d)
      BY <1>1, <1>3 DEF Heeded, Target, worker
    <3>2. (Lost(d) <=> Lost(d)') /\ (Used(d) <=> Used(d)') /\ (Entered(d) <=> Entered(d)')
      BY <1>1, <1>3 DEF Lost, Used, Entered, worker
    <3> QED
      BY <1>1, <1>3, <3>1, <3>2 DEF Inv, Ok, EndpointShape, Presence, Target, worker
  <2> QED
    BY <2>1, <2>2
<1> QED
  BY <1>2, <1>3 DEF Heed

LEMMA CrashKeeps ==
    ASSUME Inv, Crash
    PROVE  ListenerShape' /\ \A d \in Conn : Ok(d)'
<1>0. TypeOK /\ Listener \in Workers /\ Conn \subseteq Workers /\ Listener \notin Conn
  BY RoomAssumption DEF Workers, Inv
<1>1. \A w \in Workers : pc'[w] = "idle" /\ Target(w)' = w
  BY DEF Crash, Target, LocalOf
<1>2. ListenerShape'
  BY <1>0, <1>1 DEF ListenerShape
<1>3. ASSUME NEW d \in Conn PROVE Ok(d)'
  <2>1. /\ pc'[d] = "idle" /\ Target(d)' = d /\ d \notin room' /\ ~Heeded(d)' /\ ~joined'[d]
    BY <1>0, <1>1 DEF Crash, Heeded
  <2>2. presence'[d] => presence[d]
    BY DEF Crash
  <2>3. Used(d) => phase'[d] = "closed"
    BY <1>0 DEF Crash, Used, Open, TypeOK
  <2> QED
    BY <1>0, <1>1, <2>1, <2>2, <2>3 DEF Inv, Ok, EndpointShape, Presence, Used, Lost, Entered,
       Heeded, Joining, Dropping, Telling
<1> QED
  BY <1>2, <1>3

LEMMA InvInit == ASSUME Init PROVE Inv
<1>0. Listener \in Workers /\ Conn \subseteq Workers /\ Listener \notin Conn
  BY RoomAssumption DEF Workers
<1>1. \A w \in Workers : pc[w] = "idle" /\ Target(w) = w
  BY DEF Init, Target, LocalOf
<1>2. \A c \in Conn : Ok(c)
  BY <1>0, <1>1 DEF Init, Ok, EndpointShape, Presence, Heeded, Entered, Joining, Dropping, Telling
<1> QED
  BY <1>0, <1>1, <1>2, TypeInit DEF Inv, Ok, ListenerShape

\* The three kinds of steps, for the proofs that follow.
LEMMA Kinds ==
    ASSUME Next
    PROVE  \/ \E c \in Conn : Own(c) \/ Heed(c)
           \/ Step(Listener) \/ Crash
BY DEF Next, Own, Workers

LEMMA InvNext ==
    ASSUME "rejoin" \notin Faults, Inv, [Next]_vars
    PROVE  Inv'
<1> SUFFICES ListenerShape' /\ \A d \in Conn : Ok(d)'
  BY TypeNext DEF Inv, Ok
<1>1. TypeOK /\ ListenerShape /\ \A c \in Conn : Ok(c)
  BY DEF Inv, Ok
<1>2. ASSUME NEW c \in Conn, Own(c) PROVE ListenerShape' /\ \A d \in Conn : Ok(d)'
  <2>1. SameListener /\ \A d \in Conn \ {c} : SameConn(d)
    BY <1>1, <1>2, OwnFrame DEF Ok, EndpointShape
  <2>2. ListenerShape'
    BY <1>1, <2>1 DEF ListenerShape, SameListener, Target
  <2>3. \A d \in Conn \ {c} : Ok(d)'
    BY <1>1, <2>1, OthersKeep DEF Ok
  <2>4. Ok(c)'
    BY <1>1, <1>2, OwnIsOk
  <2> QED
    BY <2>2, <2>3, <2>4
<1>3. CASE Step(Listener)
  <2>1. ListenerShape' /\ ListenerGoesOn /\ \A d \in Conn : ListenerTouches(d)
    BY <1>1, <1>3, ListenerStep
  <2> QED
    BY <1>1, <2>1, ListenerKeeps
<1>4. CASE UNCHANGED vars
  <2>1. SameListener /\ \A d \in Conn : SameConn(d)
    BY <1>4 DEF vars, SameListener, SameConn, SameEndpoint
  <2>2. ListenerShape'
    BY <1>1, <2>1 DEF ListenerShape, SameListener, Target
  <2> QED
    BY <1>1, <2>1, <2>2, OthersKeep DEF Ok
<1>5. CASE Next
  <2>1. CASE \E c \in Conn : Own(c)
    BY <1>2, <2>1
  <2>2. CASE \E c \in Conn : Heed(c)
    BY <2>2, HeedKeeps
  <2>3. CASE Crash
    BY <2>3, CrashKeeps
  <2> QED
    BY <1>3, <1>5, <2>1, <2>2, <2>3, Kinds
<1> QED
  BY <1>4, <1>5

LEMMA InvAlways ==
    ASSUME "rejoin" \notin Faults
    PROVE  Spec => []Inv
<1>1. Init => Inv
  BY InvInit
<1>2. Inv /\ [Next]_vars => Inv'
  BY InvNext
<1> QED
  BY <1>1, <1>2, PTL DEF Spec

(* README.md: "Send a ping message every 10 seconds to remain connected."  *)
(* Unless clients join again after a leave, the listener never takes a     *)
(* connection out of the room whose client is there and whose key exists:  *)
(* whoever's key expired is lost, and only a client that is gone can still *)
(* write a key then.                                                       *)
THEOREM PingingStays ==
    ASSUME "rejoin" \notin Faults
    PROVE  Spec => PingingRemains
<1>1. Inv => \A c \in Conn : c \in room /\ up[c] /\ presence[c] => Target(Listener) # c
  BY DEF Inv, Presence, Heeded
<1>2. Inv /\ [Next]_vars =>
        [\A c \in Conn : c \in room /\ up[c] /\ presence[c]
            => ~(DropSet(Listener) /\ Target(Listener) = c)]_vars
  BY <1>1
<1> QED
  BY <1>2, InvAlways, PTL DEF Spec, PingingRemains

-----------------------------------------------------------------------------
(* Member rows.                                                            *)

Deleting(w) == pc[w] \in {"drop get set", "drop subscribe", "drop member", "drop delete"}

\* The handler of a join that has written the member row.
Saved(c) == \/ pc[c] \in {"join presence", "joined"}
            \/ pc[c] \in Telling /\ local[c].purpose = "join"

\* Why the member row of a connection's user will not be left behind.
Backs(c) ==
    \/ c \in room
    \/ Target(Listener) = c /\ Deleting(Listener)
    \/ pc[c] = "drop set" \/ Deleting(c) \/ Saved(c)
    \/ pc[c] = "idle" /\ phase[c] = "active" /\ ~up[c]

RowsAreBacked ==
    \A u \in User : member[u] => \E c \in Conn : UserOf[c] = u /\ Backs(c)

\* A join saves the row, nothing else creates one.
LEMMA OnlyJoinSaves ==
    ASSUME TypeOK, Next, NEW u \in User, member'[u], ~member[u]
    PROVE  \E c \in Conn : UserOf[c] = u /\ Saved(c)'
<1>0. Conn \subseteq Workers
  BY DEF Workers
<1>1. ASSUME NEW w \in Workers, Step(w) PROVE FALSE
  <2>1. UNCHANGED member \/ member' = [member EXCEPT ![TargetUser(w)] = FALSE]
    BY <1>1 DEF Step, DropSet, DropGetSet, DropSubscribe, DropMember, DropDelete, DropPresence,
       Announce, PublishList, CallFails, stored
  <2> QED
    BY <2>1 DEF TypeOK
<1>2. ASSUME NEW c \in Conn, Join(c), ~JoinSave(c) PROVE UNCHANGED member
  BY <1>2 DEF Join, JoinSet, JoinGetSet, JoinSubscribe, JoinDocument, JoinMember, JoinPresence,
     ReplyJoined, stored
<1>3. ASSUME NEW c \in Conn,
             \/ ReceiveJoin(c) \/ ReceiveLeave(c) \/ NoticeDisconnect(c) \/ Heed(c)
             \/ Expire(c) \/ Connect(c) \/ ClientDrops(c)
             \/ RefuseMessage(c) \/ PollFails(c)
      PROVE  UNCHANGED member
  BY <1>3 DEF ReceiveJoin, ReceiveLeave, NoticeDisconnect, Heed, Expire, Connect, ClientDrops,
     RefuseMessage, PollFails, stored
<1>4. Crash => UNCHANGED member
  BY DEF Crash
<1>5. PICK c \in Conn : JoinSave(c)
  <2>1. member' # member
    OBVIOUS
  <2>2. ASSUME NEW c \in Conn,
               \/ ReceiveJoin(c) \/ Join(c) \/ ReceiveLeave(c) \/ NoticeDisconnect(c)
               \/ Heed(c) \/ Expire(c) \/ Connect(c) \/ ClientDrops(c)
               \/ RefuseMessage(c) \/ PollFails(c)
        PROVE  JoinSave(c)
    BY <2>1, <2>2, <1>2, <1>3
  <2> QED
    BY <2>1, <2>2, <1>1, <1>4 DEF Next
<1>6. member' = [member EXCEPT ![UserOf[c]] = TRUE] /\ GoTo(c, "join presence")
  BY <1>5 DEF JoinSave
<1>7. UserOf[c] = u
  BY <1>6 DEF TypeOK
<1>8. pc'[c] = "join presence"
  BY <1>0, <1>6 DEF TypeOK, GoTo
<1> QED
  BY <1>7, <1>8 DEF Saved

\* A handler that leaves the room's backing alone, or takes it on itself.
LEMMA OwnBacks ==
    ASSUME Inv, {"storage", "crash", "rejoin"} \cap Faults = {},
           NEW c \in Conn, Own(c), Backs(c), member'[UserOf[c]]
    PROVE  Backs(c)'
<1>0. /\ TypeOK /\ EndpointShape(c) /\ Presence(c) /\ c \in Workers /\ SameListener
      /\ Target(c) = c /\ UserOf[c] \in User
  BY OwnFrame, RoomAssumption DEF Inv, EndpointShape, Workers
<1>1. CASE Target(Listener) = c /\ Deleting(Listener)
  BY <1>0, <1>1 DEF SameListener, Target, Deleting, Backs
<1>2. CASE c \in room /\ ~DropSet(c)
  <2>1. CASE Join(c)
    BY <1>2, <2>1 DEF Join, JoinSet, JoinGetSet, JoinSubscribe, JoinDocument, JoinMember, JoinSave,
       JoinPresence, ReplyJoined, Enter, registry, Backs
  <2>2. CASE Step(c)
    BY <1>2, <2>2 DEF Step, DropGetSet, DropSubscribe, DropMember, DropDelete, DropPresence,
       Announce, PublishList, CallFails, registry, Backs
  <2> QED
    BY <1>2, <2>1, <2>2 DEF Own, ReceiveJoin, ReceiveLeave, NoticeDisconnect, Expire, Connect,
       ClientDrops, RefuseMessage, PollFails, registry, Backs
<1>3. CASE DropSet(c)
  <2>1. pc'[c] \in {"drop get set", "drop member"}
    BY <1>0, <1>3 DEF TypeOK, DropSet, GoTo
  <2> QED
    BY <2>1 DEF Backs, Deleting
<1>4. CASE Deleting(c)
  <2>1. CASE DropGetSet(c) \/ DropSubscribe(c)
    <3>1. pc'[c] \in {"drop subscribe", "drop member"}
      BY <1>0, <2>1 DEF TypeOK, DropGetSet, DropSubscribe, GoTo
    <3> QED
      BY <3>1 DEF Backs, Deleting
  <2>2. CASE DropMember(c)
    <3>1. member[UserOf[c]]
      BY <2>2 DEF DropMember, stored
    <3>2. pc'[c] = "drop delete"
      BY <1>0, <2>2, <3>1 DEF TypeOK, DropMember, GoTo, TargetUser
    <3> QED
      BY <3>2 DEF Backs, Deleting
  <2>3. CASE DropDelete(c)
    BY <1>0, <2>3 DEF TypeOK, DropDelete, TargetUser
  <2>4. CASE Expire(c) \/ ClientDrops(c)
    BY <1>4, <2>4 DEF Expire, ClientDrops, worker, Backs, Deleting
  <2> QED
    BY <1>0, <1>4, <2>1, <2>2, <2>3, <2>4 DEF Deleting, Own, Join, Step, JoinSet, JoinGetSet,
       JoinSubscribe, JoinDocument, JoinMember, JoinSave, JoinPresence, ReplyJoined, ReceiveJoin,
       ReceiveLeave, NoticeDisconnect, Connect, RefuseMessage, PollFails, DropSet, DropPresence,
       Announce, PublishList, CallFails, EndpointShape, Open
<1>5. CASE Saved(c) /\ ~(c \in room)
  <2>0. phase[c] = "active" /\ local[c].purpose = "join" /\ ~up[c]
    BY <1>0, <1>5 DEF Saved, EndpointShape, Presence, Entered, Joining, Entering, Telling
  <2>1. CASE JoinPresence(c)
    <3>1. pc'[c] \in {"announce", "joined"} /\ local'[c].purpose = "join"
      <4>1. local' = [local EXCEPT ![c].users = UsersIn(room)]
        BY <2>1 DEF JoinPresence
      <4>2. local'[c].purpose = "join"
        BY <1>0, <2>0, <4>1, LocalKeeps
      <4> QED
        BY <1>0, <2>1, <4>2 DEF TypeOK, JoinPresence, GoTo
    <3> QED
      BY <3>1 DEF Backs, Saved, Telling
  <2>2. CASE Announce(c)
    <3>1. pc'[c] = "list" /\ local'[c].purpose = "join"
      <4>1. local' = [local EXCEPT ![c].users =
                         IF local[c].purpose = "leave" THEN UsersIn(room) ELSE local[c].users]
        BY <2>2 DEF Announce
      <4>2. local'[c].purpose = "join"
        BY <1>0, <2>0, <4>1, LocalKeeps
      <4> QED
        BY <1>0, <2>2, <4>2 DEF TypeOK, Announce, GoTo
    <3> QED
      BY <3>1 DEF Backs, Saved, Telling
  <2>3. CASE PublishList(c)
    <3>1. pc'[c] = "joined"
      BY <1>0, <2>0, <2>3, RoomAssumption DEF TypeOK, PublishList, GoTo
    <3> QED
      BY <3>1 DEF Backs, Saved
  <2>4. CASE ReplyJoined(c)
    <3>1. pc'[c] = "idle" /\ UNCHANGED <<phase, up>>
      BY <1>0, <1>5, <2>4 DEF TypeOK, ReplyJoined, GoTo
    <3> QED
      BY <2>0, <3>1 DEF Backs
  <2>5. CASE Expire(c) \/ ClientDrops(c)
    BY <1>5, <2>5 DEF Expire, ClientDrops, worker, Backs, Saved
  <2> QED
    BY <1>0, <1>5, <2>0, <2>1, <2>2, <2>3, <2>4, <2>5 DEF Saved, Telling, Own, Join, Step, JoinSet,
       JoinGetSet, JoinSubscribe, JoinDocument, JoinMember, JoinSave, ReceiveJoin,
       ReceiveLeave, NoticeDisconnect, Connect, RefuseMessage, PollFails, DropSet, DropGetSet,
       DropSubscribe, DropMember, DropDelete, DropPresence, CallFails, Open
<1>6. CASE pc[c] = "idle" /\ phase[c] = "active" /\ ~up[c]
  <2>1. CASE NoticeDisconnect(c)
    <3>1. pc'[c] = "drop set"
      BY <1>0, <1>6, <2>1 DEF TypeOK, NoticeDisconnect, Start, GoTo
    <3> QED
      BY <3>1 DEF Backs
  <2>2. CASE Expire(c)
    BY <1>6, <2>2 DEF Expire, worker, client, Backs
  <2> QED
    BY <1>6, <2>1, <2>2 DEF Own, Join, Step, JoinSet, JoinPresence, ReplyJoined,
       JoinGetSet, JoinSubscribe, JoinDocument, JoinMember, JoinSave, ReceiveJoin,
       ReceiveLeave, Connect, ClientDrops, RefuseMessage, PollFails, DropSet, DropGetSet,
       DropSubscribe, DropMember, DropDelete, DropPresence, Announce, PublishList, CallFails, Open
<1>7. CASE pc[c] = "drop set" /\ ~DropSet(c)
  <2>1. CASE Expire(c) \/ ClientDrops(c)
    BY <1>7, <2>1 DEF Expire, ClientDrops, worker, Backs
  <2> QED
    BY <1>0, <1>7, <2>1 DEF Own, Join, Step, JoinSet, JoinPresence, ReplyJoined,
       JoinGetSet, JoinSubscribe, JoinDocument, JoinMember, JoinSave, ReceiveJoin,
       ReceiveLeave, NoticeDisconnect, Connect, RefuseMessage, PollFails, DropGetSet,
       DropSubscribe, DropMember, DropDelete, DropPresence, Announce, PublishList, CallFails,
       EndpointShape
<1> QED
  BY <1>1, <1>2, <1>3, <1>4, <1>5, <1>6, <1>7 DEF Backs

\* The listener removes a connection and then deletes its row.
LEMMA ListenerBacks ==
    ASSUME Inv, {"storage", "crash", "rejoin"} \cap Faults = {},
           Step(Listener), NEW c \in Conn, Backs(c), member'[UserOf[c]]
    PROVE  Backs(c)'
<1>0. /\ TypeOK /\ Listener \in Workers /\ UserOf[c] \in User
      /\ ListenerTouches(c) /\ ListenerShape
  BY ListenerStep, RoomAssumption DEF Inv, Workers
<1>1. CASE \/ pc[c] = "drop set" \/ Deleting(c) \/ Saved(c)
           \/ pc[c] = "idle" /\ phase[c] = "active" /\ ~up[c]
  BY <1>0, <1>1 DEF Backs, Deleting, Saved, ListenerTouches, SameEndpoint
<1>2. CASE Target(Listener) # c /\ c \in room
  BY <1>0, <1>2 DEF Backs, ListenerTouches
<1>3. CASE Target(Listener) = c /\ (c \in room \/ Deleting(Listener))
  <2>0. pc[Listener] \in Dropping \cup {"list"} => local[Listener].purpose = "cleanup"
    BY <1>0 DEF ListenerShape, Dropping
  <2>1. CASE DropSet(Listener)
    <3>1. pc'[Listener] \in {"drop get set", "drop member"} /\ Target(Listener)' = c
      BY <1>0, <1>3, <2>1 DEF TypeOK, DropSet, GoTo, Target
    <3> QED
      BY <3>1 DEF Backs, Deleting
  <2>2. CASE DropGetSet(Listener) \/ DropSubscribe(Listener)
    <3>1. pc'[Listener] \in {"drop subscribe", "drop member"} /\ Target(Listener)' = c
      BY <1>0, <1>3, <2>2 DEF TypeOK, DropGetSet, DropSubscribe, GoTo, Target
    <3> QED
      BY <3>1 DEF Backs, Deleting
  <2>3. CASE DropMember(Listener)
    <3>1. member[UserOf[c]]
      BY <2>3 DEF DropMember, stored
    <3>2. pc'[Listener] = "drop delete" /\ Target(Listener)' = c
      BY <1>0, <1>3, <2>3, <3>1 DEF TypeOK, DropMember, GoTo, TargetUser, Target
    <3> QED
      BY <3>2 DEF Backs, Deleting
  <2>4. CASE DropDelete(Listener)
    BY <1>0, <1>3, <2>4 DEF TypeOK, DropDelete, TargetUser
  <2>5. CASE c \in room /\ ~DropSet(Listener)
    BY <1>0, <2>5 DEF Step, DropGetSet, DropSubscribe, DropMember, DropDelete, DropPresence,
       Announce, PublishList, CallFails, registry, Backs
  <2> QED
    BY <1>3, <2>1, <2>2, <2>3, <2>4, <2>5 DEF Deleting, Step, DropPresence, Announce,
       PublishList, CallFails
<1> QED
  BY <1>1, <1>2, <1>3 DEF Backs

LEMMA BackedNext ==
    ASSUME Inv, {"storage", "crash", "rejoin"} \cap Faults = {}, RowsAreBacked, [Next]_vars
    PROVE  RowsAreBacked'
<1> SUFFICES ASSUME NEW u \in User, member'[u]
             PROVE  \E c \in Conn : UserOf[c] = u /\ Backs(c)'
  BY DEF RowsAreBacked
<1>1. CASE ~member[u]
  <2>1. Next
    BY <1>1 DEF vars
  <2> QED
    BY <1>1, <2>1, OnlyJoinSaves DEF Inv, Backs
<1>2. CASE member[u]
  <2>1. PICK c \in Conn : UserOf[c] = u /\ Backs(c)
    BY <1>2 DEF RowsAreBacked
  <2>2. ASSUME NEW d \in Conn, Own(d) PROVE Backs(c)'
    <3>1. CASE d = c
      BY <2>1, <2>2, <3>1, OwnBacks
    <3>2. CASE d # c
      <4>1. SameListener /\ SameConn(c)
        BY <2>2, <3>2, OwnFrame DEF Inv, EndpointShape
      <4> QED
        BY <2>1, <4>1 DEF Backs, Deleting, Saved, SameListener, SameConn, SameEndpoint, Target
    <3> QED
      BY <3>1, <3>2
  <2>3. ASSUME NEW d \in Conn, Heed(d) PROVE Backs(c)'
    <3>1. Target(Listener) = Listener /\ Listener # c /\ TypeOK /\ c \in Workers
      BY <2>3, RoomAssumption DEF Inv, ListenerShape, Heed, Workers
    <3>2. pc'[c] = pc[c] /\ local'[c] = local[c] /\ UNCHANGED <<room, phase, up>>
      BY <2>3, <3>1 DEF TypeOK, Heed, Start, GoTo, registry, worker
    <3> QED
      BY <2>1, <3>1, <3>2 DEF Backs, Deleting, Saved
  <2>4. CASE UNCHANGED vars
    BY <2>1, <2>4 DEF vars, Backs, Deleting, Saved, Target
  <2>5. ~Crash
    BY DEF Crash
  <2> QED
    BY <2>1, <2>2, <2>3, <2>4, <2>5, Kinds, ListenerBacks
<1> QED
  BY <1>1, <1>2

(* While calls are answered and the server stays up, and unless clients    *)
(* join again after a leave, no member row is left behind: a worker that   *)
(* takes the last connection of a user out of the room deletes the row     *)
(* afterwards, and a join that writes it for a client that is gone meets   *)
(* that client's clean-up.  Users may have several connections.            *)
THEOREM MembershipBacked ==
    ASSUME {"storage", "crash", "rejoin"} \cap Faults = {}
    PROVE  Spec => []MembershipIsBacked
<1>1. Init => RowsAreBacked
  BY DEF Init, RowsAreBacked
<1>2. Inv /\ RowsAreBacked /\ [Next]_vars => RowsAreBacked'
  BY BackedNext
<1>3. Inv /\ RowsAreBacked => MembershipIsBacked
  <2>1. ASSUME NEW c \in Conn, Inv, Backs(c)
        PROVE  c \in room \/ Open(c) \/ (pc[Listener] # "idle" /\ Target(Listener) = c)
    <3>1. pc[c] # "idle" => Open(c)
      BY <2>1 DEF Inv, EndpointShape, Open
    <3> QED
      BY <2>1, <3>1 DEF Backs, Deleting, Saved, Open, Telling
  <2> QED
    BY <2>1 DEF RowsAreBacked, MembershipIsBacked
<1>4. Spec => []Inv
  BY InvAlways
<1> QED
  BY <1>1, <1>2, <1>3, <1>4, PTL DEF Spec

-----------------------------------------------------------------------------
(* What a join has put in place.                                           *)

\* A call of the join that takes the user's set or row for granted is made by a
\* handler that has written it, or for a client that will not be told it joined,
\* or of whose user another connection was removed meanwhile.
InPlace(c) ==
    /\ pc[c] \in {"join get set", "join subscribe"} \/ Entered(c) =>
          Lost(c) \/ c \in undercut \/ inSet[UserOf[c]]
    /\ Entered(c) => Lost(c) \/ (c \in room /\ (c \in undercut \/ subscribed[c]))
    /\ Saved(c) => Lost(c) \/ c \in undercut \/ member[UserOf[c]]
    /\ joined[c] => /\ phase[c] = "active" /\ pc[c] \notin Dropping
                    /\ pc[c] \in Telling => local[c].purpose = "join"
    /\ joined[c] /\ pc[c] = "idle" =>
          /\ c \in room
          /\ c \in undercut \/ (inSet[UserOf[c]] /\ subscribed[c] /\ member[UserOf[c]])

AllInPlace == \A c \in Conn : InPlace(c)

\* What others do to the set and the row of a connection's user: they write
\* them, leave them alone, or undercut the connection.
Spared(c) ==
    /\ c \in undercut => c \in undercut'
    /\ \/ c \in undercut'
       \/ /\ inSet[UserOf[c]] => inSet'[UserOf[c]]
          /\ member[UserOf[c]] => member'[UserOf[c]]

LEMMA RemovalSpares ==
    ASSUME TypeOK, NEW w \in Workers, NEW c \in Conn, Target(w) # c, Open(c), Undercut(w),
           \/ inSet' = [inSet EXCEPT ![TargetUser(w)] = FALSE] /\ UNCHANGED member
           \/ member' = [member EXCEPT ![TargetUser(w)] = FALSE] /\ UNCHANGED inSet
    PROVE  Spared(c)
<1>1. c \in undercut => c \in undercut'
  BY DEF Undercut
<1>2. CASE UserOf[c] = TargetUser(w)
  BY <1>2 DEF Spared, Undercut
<1>3. CASE UserOf[c] # TargetUser(w)
  BY <1>1, <1>3, RoomAssumption DEF Spared, TypeOK
<1> QED
  BY <1>2, <1>3

LEMMA StepSpares ==
    ASSUME TypeOK, NEW w \in Workers, NEW c \in Conn, Target(w) # c, w # c, Open(c), Step(w)
    PROVE  Spared(c)
<1>1. CASE DropSet(w) \/ DropDelete(w)
  BY <1>1, RemovalSpares DEF DropSet, DropDelete
<1>2. CASE Fail(w) /\ UNCHANGED stored
  BY <1>2 DEF Fail, Close, Spared, client, stored
<1>3. CASE \/ DropGetSet(w) \/ DropSubscribe(w) \/ DropPresence(w) \/ Announce(w)
  BY <1>3 DEF DropGetSet, DropSubscribe, DropPresence, Announce, Spared, client, stored
<1>4. CASE DropMember(w)
  BY <1>2, <1>4 DEF DropMember, Spared, client, stored
<1>5. CASE PublishList(w)
  BY <1>5 DEF PublishList, Close, Spared, client, stored
<1>6. CASE CallFails(w)
  BY <1>2, <1>6 DEF CallFails
<1> QED
  BY <1>1, <1>3, <1>4, <1>5, <1>6 DEF Step

LEMMA JoinSpares ==
    ASSUME TypeOK, NEW c \in Conn, NEW d \in Conn, d # c, Join(d)
    PROVE  Spared(c)
<1>0. UserOf[c] \in User /\ UserOf[d] \in User
  BY RoomAssumption
<1>1. undercut' \in {undercut, undercut \ {d}}
  BY DEF Join, JoinSet, JoinGetSet, JoinSubscribe, JoinDocument, JoinMember, JoinSave,
     JoinPresence, ReplyJoined, Fail, Close, Enter, client
<1>2. \/ UNCHANGED inSet
      \/ inSet' = [inSet EXCEPT ![UserOf[d]] = TRUE]
  BY DEF Join, JoinSet, JoinGetSet, JoinSubscribe, JoinDocument, JoinMember, JoinSave,
     JoinPresence, ReplyJoined, stored
<1>3. \/ UNCHANGED member
      \/ member' = [member EXCEPT ![UserOf[d]] = TRUE]
  BY DEF Join, JoinSet, JoinGetSet, JoinSubscribe, JoinDocument, JoinMember, JoinSave,
     JoinPresence, ReplyJoined, stored
<1> QED
  BY <1>0, <1>1, <1>2, <1>3 DEF TypeOK, Spared

LEMMA OwnSpares ==
    ASSUME TypeOK, NEW c \in Conn, NEW d \in Conn, d # c, Target(d) = d, Open(c), Own(d)
    PROVE  Spared(c)
<1>1. CASE \/ ReceiveJoin(d) \/ ReceiveLeave(d) \/ NoticeDisconnect(d) \/ Expire(d)
           \/ Connect(d) \/ ClientDrops(d) \/ RefuseMessage(d) \/ PollFails(d)
  BY <1>1, RoomAssumption DEF ReceiveJoin, ReceiveLeave, NoticeDisconnect, Expire, Connect,
     ClientDrops, RefuseMessage, PollFails, Fail, Close, Spared, client, stored
<1> QED
  BY <1>1, JoinSpares, StepSpares DEF Own, Workers

\* Nothing is asked of a connection of which nothing is left.
LEMMA AwayIsInPlace ==
    ASSUME NEW c \in Conn, Ok(c), ~Open(c), InPlace(c)
    PROVE  pc[c] = "idle" /\ ~joined[c]
BY DEF Ok, EndpointShape, InPlace, Open

LEMMA RestingIsInPlace ==
    ASSUME NEW c \in Conn, pc'[c] = "idle", ~joined'[c]
    PROVE  InPlace(c)'
BY DEF InPlace, Entered, Saved, Joining, Dropping, Telling

LEMMA OthersKeepInPlace ==
    ASSUME NEW c \in Conn, InPlace(c), SameConn(c), Spared(c)
    PROVE  InPlace(c)'
<1>1. (Lost(c) <=> Lost(c)') /\ (Entered(c) <=> Entered(c)') /\ (Saved(c) <=> Saved(c)')
  BY DEF Lost, Entered, Saved, SameConn, SameEndpoint
<1> QED
  BY <1>1 DEF InPlace, SameConn, SameEndpoint, Spared

LEMMA FailInPlace ==
    ASSUME TypeOK, NEW c \in Conn, Fail(c)
    PROVE  InPlace(c)'
<1>1. pc'[c] = "idle" /\ ~joined'[c]
  BY RoomAssumption DEF TypeOK, Fail, GoTo, Close, Workers
<1> QED
  BY <1>1, RestingIsInPlace

\* A clean-up or a leave, whose client was not told it joined or left.
LEMMA LeavingIsInPlace ==
    ASSUME NEW c \in Conn, ~joined'[c],
           \/ pc'[c] \in {"idle"} \cup Dropping
           \/ pc'[c] \in Telling /\ local'[c].purpose # "join"
    PROVE  InPlace(c)'
BY DEF InPlace, Entered, Saved, Joining, Dropping, Telling, Entering

\* A call of a join that has entered, except its reply.
LEMMA MoveInPlace ==
    ASSUME TypeOK, NEW c \in Conn, InPlace(c), Entered(c), phase[c] = "active",
           local[c].purpose = "join",
           NEW step \in {"join member", "join save", "join presence", "announce", "joined",
                         "list"},
           GoTo(c, step), UNCHANGED <<room, inSet, subscribed, client>>,
           local'[c].purpose = local[c].purpose,
           step \notin {"join member", "join save"} =>
              member'[UserOf[c]] \/ Lost(c) \/ c \in undercut
    PROVE  InPlace(c)'
<1>1. pc'[c] = step
  BY DEF TypeOK, GoTo, Workers
<1>2. Lost(c) => Lost(c)'
  BY DEF Lost, client
<1> QED
  BY <1>1, <1>2 DEF InPlace, Entered, Saved, client, Joining, Dropping, Telling, Entering

LEMMA JoinInPlace ==
    ASSUME TypeOK, NEW c \in Conn, Ok(c), InPlace(c), Join(c)
    PROVE  InPlace(c)'
<1>0. c \in Workers /\ Conn \subseteq Workers /\ UserOf[c] \in User
  BY RoomAssumption DEF Workers
<1>1. /\ pc[c] \in Joining /\ phase[c] = "active" /\ local[c].purpose = "join"
  <2>1. pc[c] \in Joining
    BY DEF Join, JoinSet, JoinGetSet, JoinSubscribe, JoinDocument, JoinMember, JoinSave,
       JoinPresence, ReplyJoined, Joining
  <2> QED
    BY <2>1 DEF Ok, EndpointShape, Joining
<1>2. CASE JoinSet(c)
  <2>1. pc'[c] = "join get set" /\ inSet'[UserOf[c]]
    BY <1>0, <1>2 DEF TypeOK, JoinSet, GoTo
  <2>2. UNCHANGED <<phase, up, joined, local, room>>
    BY <1>2 DEF JoinSet
  <2> QED
    BY <1>1, <2>1, <2>2 DEF InPlace, Entered, Saved, Lost, Joining, Dropping, Telling, Entering
<1>3. ASSUME pc[c] \in {"join get set", "join subscribe"}, Enter(c), UNCHANGED stored,
             NEW b \in BOOLEAN, subscribed' = [subscribed EXCEPT ![c] = b],
             listed /\ ~b => Lost(c) \/ c \in undercut
      PROVE  InPlace(c)'
  <2>1. CASE listed /\ room' = room \cup {c} /\ GoTo(c, "join document")
             /\ UNCHANGED <<local, client>>
    <3>1. pc'[c] = "join document" /\ subscribed'[c] = b /\ c \in room'
      BY <1>0, <1>3, <2>1 DEF TypeOK, GoTo
    <3>2. Lost(c) => Lost(c)'
      BY <1>1, <1>3, <2>1 DEF Lost, client, Entering
    <3>3. Lost(c) \/ c \in undercut \/ inSet[UserOf[c]]
      BY <1>3 DEF InPlace
    <3> QED
      BY <1>1, <1>3, <2>1, <3>1, <3>2, <3>3 DEF InPlace, Saved, client, stored, Dropping, Telling
  <2>2. CASE GoTo(c, "idle") /\ joined' = [joined EXCEPT ![c] = FALSE]
    <3>1. pc'[c] = "idle" /\ ~joined'[c]
      BY <1>0, <2>2 DEF TypeOK, GoTo
    <3> QED
      BY <3>1, RestingIsInPlace
  <2> QED
    BY <1>3, <2>1, <2>2 DEF Enter
<1>4. CASE JoinGetSet(c)
  <2>1. CASE inSet[UserOf[c]] /\ GoTo(c, "join subscribe")
             /\ UNCHANGED <<room, local, client, subscribed>>
    <3>1. pc'[c] = "join subscribe" /\ UNCHANGED stored
      BY <1>0, <1>4, <2>1 DEF TypeOK, JoinGetSet, GoTo
    <3> QED
      BY <1>1, <2>1, <3>1 DEF InPlace, Entered, Saved, Lost, client, stored, Joining, Dropping,
         Telling, Entering
  <2>2. CASE ~inSet[UserOf[c]] /\ Enter(c)
             /\ subscribed' = [subscribed EXCEPT ![c] = listed /\ @]
    <3>1. pc[c] = "join get set" /\ UNCHANGED stored
      BY <1>4 DEF JoinGetSet
    <3>2. Lost(c) \/ c \in undercut
      BY <2>2, <3>1 DEF InPlace
    <3>3. (listed /\ subscribed[c]) \in BOOLEAN
      OBVIOUS
    <3>4. subscribed' = [subscribed EXCEPT ![c] = (listed /\ subscribed[c])]
      BY <2>2
    <3> QED
      BY <1>3, <2>2, <3>1, <3>2, <3>3, <3>4
  <2> QED
    BY <1>4, <2>1, <2>2 DEF JoinGetSet
<1>5. CASE JoinSubscribe(c)
  <2>1. listed \in BOOLEAN
    BY DEF TypeOK
  <2> QED
    BY <1>3, <1>5, <2>1 DEF JoinSubscribe
<1>6. CASE JoinDocument(c)
  BY <1>1, <1>6, MoveInPlace, FailInPlace
     DEF JoinDocument, Entered, Joining, Entering, stored, registry
<1>7. CASE JoinMember(c)
  <2>1. local'[c].purpose = local[c].purpose
    <3>1. local' = [local EXCEPT ![c].known = member[UserOf[c]]]
      BY <1>7 DEF JoinMember
    <3> QED
      BY <1>0, <3>1, LocalKeeps
  <2> QED
    BY <1>1, <1>7, MoveInPlace, <2>1 DEF JoinMember, Entered, Joining, Entering, stored, registry
<1>8. CASE JoinSave(c)
  <2>1. CASE member' = [member EXCEPT ![UserOf[c]] = TRUE] /\ GoTo(c, "join presence")
             /\ UNCHANGED <<local, client, subscribed>>
    <3>1. member'[UserOf[c]]
      BY <1>0, <2>1 DEF TypeOK
    <3> QED
      BY <1>1, <1>8, MoveInPlace, <2>1, <3>1 DEF JoinSave, Entered, Joining, Entering, registry
  <2> QED
    BY <1>8, <2>1, FailInPlace DEF JoinSave
<1>9. CASE JoinPresence(c)
  <2>1. local'[c].purpose = local[c].purpose
    <3>1. local' = [local EXCEPT ![c].users = UsersIn(room)]
      BY <1>9 DEF JoinPresence
    <3> QED
      BY <1>0, <3>1, LocalKeeps
  <2>2. Entered(c) /\ (Lost(c) \/ c \in undercut \/ member'[UserOf[c]])
    BY <1>9 DEF JoinPresence, Entered, Joining, Entering, InPlace, Saved
  <2>3. GoTo(c, "announce") \/ GoTo(c, "joined")
    BY <1>9 DEF JoinPresence
  <2> QED
    BY <1>1, <1>9, MoveInPlace, <2>1, <2>2, <2>3 DEF JoinPresence, registry
<1>10. CASE ReplyJoined(c)
  <2>1. CASE joined' = [joined EXCEPT ![c] = c \in room /\ up[c]] /\ GoTo(c, "idle")
    <3>1. pc'[c] = "idle" /\ joined'[c] = (c \in room /\ up[c])
      BY <1>0, <2>1 DEF TypeOK, GoTo
    <3>2. UNCHANGED <<room, stored, subscribed, phase, up, undercut>> /\ pc[c] = "joined"
      BY <1>10 DEF ReplyJoined, registry
    <3>3. CASE joined'[c]
      <4>1. ~Lost(c)
        BY <1>1, <3>1, <3>3 DEF Lost
      <4>2. c \in undercut \/ (inSet[UserOf[c]] /\ subscribed[c] /\ member[UserOf[c]])
        BY <3>2, <4>1 DEF InPlace, Entered, Saved, Joining, Entering
      <4> QED
        BY <1>1, <3>1, <3>2, <3>3, <4>2 DEF InPlace, Entered, Saved, stored, Joining, Dropping,
           Telling
    <3> QED
      BY <3>1, <3>3, RestingIsInPlace
  <2>2. CASE Start(c, c, "cleanup", "drop set") /\ joined' = [joined EXCEPT ![c] = FALSE]
    <3>1. pc'[c] = "drop set" /\ ~joined'[c]
      BY <1>0, <2>2 DEF TypeOK, Start, GoTo
    <3> QED
      BY <3>1, LeavingIsInPlace DEF Dropping
  <2> QED
    BY <1>10, <2>1, <2>2 DEF ReplyJoined
<1> QED
  BY <1>2, <1>4, <1>5, <1>6, <1>7, <1>8, <1>9, <1>10 DEF Join

LEMMA StepInPlace ==
    ASSUME TypeOK, NEW c \in Conn, Ok(c), InPlace(c), Step(c)
    PROVE  InPlace(c)'
<1>0. c \in Workers
  BY DEF Workers
<1>1. pc[c] \in Dropping => ~joined[c] /\ local[c].purpose # "join"
  BY DEF InPlace, Ok, EndpointShape
<1>2. pc[c] \in Telling => /\ ~joined[c] \/ local[c].purpose = "join"
                           /\ phase[c] = "active"
  BY DEF InPlace, Ok, EndpointShape, Telling
<1>3. CASE DropSet(c) \/ DropGetSet(c) \/ DropSubscribe(c)
  <2>1. pc[c] \in Dropping /\ UNCHANGED joined
    BY <1>3 DEF DropSet, DropGetSet, DropSubscribe, Dropping, client
  <2>2. pc'[c] \in Dropping
    BY <1>0, <1>3 DEF TypeOK, DropSet, DropGetSet, DropSubscribe, GoTo, Dropping
  <2> QED
    BY <1>1, <2>1, <2>2, LeavingIsInPlace
<1>4. CASE DropMember(c)
  <2>1. CASE /\ GoTo(c, "drop delete") \/ GoTo(c, "drop presence")
             /\ UNCHANGED <<client, subscribed, local>>
    <3>1. pc[c] \in Dropping /\ UNCHANGED joined
      BY <1>4, <2>1 DEF DropMember, Dropping, client
    <3>2. pc'[c] \in Dropping
      BY <1>0, <2>1 DEF TypeOK, GoTo, Dropping
    <3> QED
      BY <1>1, <3>1, <3>2, LeavingIsInPlace
  <2> QED
    BY <1>4, <2>1, FailInPlace DEF DropMember
<1>5. CASE DropDelete(c)
  <2>1. pc[c] \in Dropping /\ UNCHANGED <<joined, local>>
    BY <1>5 DEF DropDelete, Dropping, client
  <2>2. pc'[c] \in {"announce", "drop presence"}
    BY <1>0, <1>5 DEF TypeOK, DropDelete, GoTo
  <2> QED
    BY <1>1, <2>1, <2>2, LeavingIsInPlace DEF Dropping, Telling
<1>6. CASE DropPresence(c)
  <2>1. pc[c] \in Dropping /\ UNCHANGED joined /\ pc'[c] = "list"
    BY <1>0, <1>6 DEF TypeOK, DropPresence, Dropping, client, GoTo
  <2>2. local'[c].purpose = local[c].purpose
    <3>1. local' = [local EXCEPT ![c].users = UsersIn(room)]
      BY <1>6 DEF DropPresence
    <3> QED
      BY <1>0, <3>1, LocalKeeps
  <2> QED
    BY <1>1, <2>1, <2>2, LeavingIsInPlace DEF Telling
<1>7. CASE Announce(c)
  <2>1. pc[c] = "announce" /\ GoTo(c, "list") /\ UNCHANGED <<room, stored, subscribed, client>>
    BY <1>7 DEF Announce, registry
  <2>2. local'[c].purpose = local[c].purpose
    <3>1. PICK x : local' = [local EXCEPT ![c].users = x]
      BY <1>7 DEF Announce
    <3> QED
      BY <1>0, <3>1, LocalKeeps
  <2>3. CASE local[c].purpose = "join"
    <3>1. Entered(c) /\ Saved(c)
      BY <2>1, <2>3 DEF Entered, Saved, Telling
    <3>2. member[UserOf[c]] \/ Lost(c) \/ c \in undercut
      BY <3>1 DEF InPlace
    <3> QED
      BY <1>2, <2>1, <2>2, <2>3, <3>1, <3>2, MoveInPlace DEF Telling, stored
  <2>4. CASE local[c].purpose # "join"
    <3>1. pc'[c] = "list" /\ ~joined'[c]
      BY <1>0, <1>2, <2>1, <2>4 DEF TypeOK, GoTo, client, Telling
    <3> QED
      BY <2>2, <2>4, <3>1, LeavingIsInPlace DEF Telling
  <2> QED
    BY <2>3, <2>4
<1>8. CASE PublishList(c)
  <2>1. CASE local[c].purpose = "join" /\ GoTo(c, "joined")
             /\ UNCHANGED <<local, client, subscribed>>
    <3>1. Entered(c) /\ Saved(c) /\ pc[c] \in Telling
      BY <1>8, <2>1 DEF PublishList, Entered, Saved, Telling
    <3>2. member[UserOf[c]] \/ Lost(c) \/ c \in undercut
      BY <3>1 DEF InPlace
    <3> QED
      BY <1>2, <1>8, <2>1, <3>1, <3>2, MoveInPlace DEF PublishList, registry, stored
  <2>2. CASE local[c].purpose # "join" /\ GoTo(c, "idle") /\ (UNCHANGED client \/ Close(c))
    <3>1. pc[c] \in Telling /\ pc'[c] = "idle"
      BY <1>0, <1>8, <2>2 DEF PublishList, Telling, TypeOK, GoTo
    <3>2. ~joined'[c]
      BY <1>2, <2>2, <3>1 DEF TypeOK, Close, client
    <3> QED
      BY <3>1, <3>2, RestingIsInPlace
  <2> QED
    BY <1>8, <2>1, <2>2, RoomAssumption DEF PublishList
<1>9. CASE CallFails(c)
  BY <1>9, FailInPlace DEF CallFails
<1> QED
  BY <1>3, <1>4, <1>5, <1>6, <1>7, <1>8, <1>9 DEF Step

LEMMA OwnInPlace ==
    ASSUME TypeOK, NEW c \in Conn, Ok(c), "rejoin" \notin Faults, InPlace(c), Own(c)
    PROVE  InPlace(c)'
<1>0. c \in Workers
  BY DEF Workers
<1>1. CASE ReceiveJoin(c)
  <2>1. pc'[c] = "join set" /\ phase'[c] = "active" /\ UNCHANGED joined
    BY <1>0, <1>1 DEF TypeOK, ReceiveJoin, GoTo
  <2> QED
    BY <2>1 DEF InPlace, Entered, Saved, Joining, Dropping, Telling, Entering
<1>2. CASE ReceiveLeave(c) \/ NoticeDisconnect(c)
  <2>1. CASE GoTo(c, "drop set") /\ joined' = [joined EXCEPT ![c] = FALSE]
    <3>1. pc'[c] = "drop set" /\ ~joined'[c]
      BY <1>0, <2>1 DEF TypeOK, GoTo
    <3> QED
      BY <3>1, LeavingIsInPlace DEF Dropping
  <2>2. CASE pc[c] = "idle" /\ Close(c) /\ UNCHANGED worker
    <3>1. pc'[c] = "idle" /\ ~joined'[c]
      BY <2>2 DEF TypeOK, Close, worker
    <3> QED
      BY <3>1, RestingIsInPlace
  <2> QED
    BY <1>2, <2>1, <2>2 DEF ReceiveLeave, NoticeDisconnect, Start
<1>3. CASE Expire(c) \/ Connect(c)
  <2>1. UNCHANGED <<room, inSet, member, subscribed, joined, undercut, worker>>
    BY <1>3 DEF Expire, Connect, registry, client, stored
  <2>2. phase[c] = "new" \/ UNCHANGED <<phase, up>>
    BY <1>3 DEF Expire, Connect, client
  <2>3. CASE phase[c] = "new"
    <3>1. pc'[c] = "idle" /\ ~joined'[c]
      BY <2>1, <2>3 DEF Ok, EndpointShape, InPlace, worker
    <3> QED
      BY <3>1, RestingIsInPlace
  <2> QED
    BY <2>1, <2>2, <2>3 DEF InPlace, Entered, Saved, Lost, worker
<1>4. CASE ClientDrops(c)
  <2>1. UNCHANGED <<room, stored, subscribed, phase, joined, undercut, worker>> /\ ~up'[c]
    BY <1>4 DEF TypeOK, ClientDrops, registry
  <2> QED
    BY <2>1 DEF InPlace, Entered, Saved, Lost, worker, stored
<1>5. CASE RefuseMessage(c) \/ PollFails(c)
  BY <1>5, FailInPlace DEF RefuseMessage, PollFails
<1> QED
  BY <1>1, <1>2, <1>3, <1>4, <1>5, JoinInPlace, StepInPlace DEF Own

LEMMA InPlaceNext ==
    ASSUME "rejoin" \notin Faults, Inv, AllInPlace, [Next]_vars, NEW c \in Conn
    PROVE  InPlace(c)'
<1>0. TypeOK /\ ListenerShape /\ (\A d \in Conn : Ok(d)) /\ InPlace(c)
  BY DEF Inv, Ok, AllInPlace
<1>1. ASSUME NEW d \in Conn, Own(d) PROVE InPlace(c)'
  <2>1. CASE d = c
    BY <1>0, <1>1, <2>1, OwnInPlace
  <2>2. CASE d # c
    <3>1. SameConn(c) /\ Target(d) = d
      BY <1>0, <1>1, <2>2, OwnFrame DEF Ok, EndpointShape
    <3>2. CASE Open(c)
      BY <1>0, <1>1, <2>2, <3>1, <3>2, OwnSpares, OthersKeepInPlace
    <3>3. CASE ~Open(c)
      BY <1>0, <3>1, <3>3, AwayIsInPlace, RestingIsInPlace DEF SameConn, SameEndpoint
    <3> QED
      BY <3>2, <3>3
  <2> QED
    BY <2>1, <2>2
<1>2. CASE Step(Listener)
  <2>1. Target(Listener) \in Conn /\ ListenerTouches(c)
    BY <1>0, <1>2, ListenerStep
  <2>2. CASE Target(Listener) = c
    <3>1. ~joined[c] /\ Lost(c)
      BY <1>0, <2>2 DEF Ok, Presence, Heeded
    <3>2. Lost(c)' /\ (Entered(c) <=> Entered(c)') /\ ~joined'[c]
      BY <2>1, <3>1 DEF Lost, Entered, ListenerTouches, SameEndpoint
    <3> QED
      BY <3>2 DEF InPlace
  <2>3. CASE Target(Listener) # c /\ Open(c)
    <3>1. Spared(c)
      BY <1>0, <1>2, <2>3, StepSpares, RoomAssumption DEF Workers
    <3>2. c \in room' <=> c \in room
      BY <2>1, <2>3 DEF ListenerTouches
    <3>3. (Lost(c) <=> Lost(c)') /\ (Entered(c) <=> Entered(c)') /\ (Saved(c) <=> Saved(c)')
      BY <2>1, <3>2 DEF Lost, Entered, Saved, ListenerTouches, SameEndpoint
    <3> QED
      BY <1>0, <2>1, <3>1, <3>2, <3>3 DEF InPlace, ListenerTouches, SameEndpoint, Spared
  <2>4. CASE ~Open(c)
    BY <1>0, <2>1, <2>4, AwayIsInPlace, RestingIsInPlace DEF ListenerTouches, SameEndpoint
  <2> QED
    BY <2>2, <2>3, <2>4
<1>3. ASSUME NEW d \in Conn, Heed(d) PROVE InPlace(c)'
  <2>1. /\ UNCHANGED <<room, inSet, member, subscribed, phase, up, undercut>>
        /\ joined'[c] => joined[c]
    BY <1>0, <1>3 DEF TypeOK, Heed, registry
  <2>2. pc'[c] = pc[c] /\ local'[c] = local[c]
    BY <1>0, <1>3, RoomAssumption DEF TypeOK, Heed, Start, GoTo, Workers, worker
  <2>3. (Lost(c) <=> Lost(c)') /\ (Entered(c) <=> Entered(c)') /\ (Saved(c) <=> Saved(c)')
    BY <2>1, <2>2 DEF Lost, Entered, Saved
  <2> QED
    BY <1>0, <2>1, <2>2, <2>3 DEF InPlace
<1>4. CASE Crash
  <2>1. pc'[c] = "idle" /\ ~joined'[c]
    BY <1>4 DEF Crash, Workers
  <2> QED
    BY <2>1, RestingIsInPlace
<1>5. CASE UNCHANGED vars
  BY <1>0, <1>5, OthersKeepInPlace DEF vars, SameConn, SameEndpoint, Spared
<1> QED
  BY <1>1, <1>2, <1>3, <1>4, <1>5, Kinds

(* Unless clients join again after a leave, a client that was told it      *)
(* joined is in the room, and its user's set holds the document, its       *)
(* pubsub is subscribed and the member row exists, or another connection   *)
(* of the same user was removed since it wrote the set.  This is so for    *)
(* any number of connections of a user, whatever calls fail, whoever is    *)
(* cleaned up or when the server restarts, and however often it repeats    *)
(* its join.                                                               *)
THEOREM JoinedComplete ==
    ASSUME "rejoin" \notin Faults
    PROVE  Spec => []JoinedIsComplete
<1>1. Init => AllInPlace
  <2> SUFFICES ASSUME Init PROVE AllInPlace
    OBVIOUS
  <2>1. \A c \in Conn : pc[c] = "idle" /\ ~joined[c]
    BY DEF Init, Workers
  <2> QED
    BY <2>1 DEF AllInPlace, InPlace, Entered, Saved, Joining, Dropping, Telling
<1>2. Inv /\ AllInPlace /\ [Next]_vars => AllInPlace'
  BY InPlaceNext DEF AllInPlace
<1>3. AllInPlace => JoinedIsComplete
  BY DEF AllInPlace, InPlace, JoinedIsComplete
<1>4. Spec => []Inv
  BY InvAlways
<1> QED
  BY <1>1, <1>2, <1>3, <1>4, PTL DEF Spec

=============================================================================
