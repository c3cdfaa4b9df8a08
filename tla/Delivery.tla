------------------------------- MODULE Delivery -------------------------------
(***************************************************************************)
(* How events reach clients: EventBus of app/api/services/event.py,        *)
(* receive_room_message, process_cursor_event and process_typing_event of  *)
(* services/websocket.py, and the typing keys with the listener that every *)
(* server process runs (expired_typing_event of app/main.py).              *)
(*                                                                         *)
(* Each connection has a pubsub, a queue that Redis fills for the channels *)
(* it is subscribed to, and its endpoint takes one message from it after   *)
(* each turn of its loop.  A user has one connection here, and joins and   *)
(* leaves in one step: Room.tla has the steps and several connections.  An *)
(* event without state of its own (a cursor, an operation, a presence      *)
(* list) is published as a cursor event is.                                *)
(*                                                                         *)
(* Not here: the messages Redis drops while a pubsub has lost its          *)
(* connection and get_message logs the error and goes on.                  *)
(***************************************************************************)
EXTENDS Naturals, Sequences, FiniteSets

CONSTANTS
    Conn,
    Doc,
    Server,     \* processes; each has a listener
    None,
    MaxEvents,  \* bound: the messages clients send
    Faults      \* what may go wrong in this run

ASSUME DeliveryAssumption ==
    /\ None \notin Doc
    /\ MaxEvents \in Nat
    /\ Faults \subseteq {"publish", "listener"}

VARIABLES
    in,         \* the rooms of a connection, in the registry and its user's set
    at,         \* doc_id: the document of its last message
    sub,        \* the rooms its pubsub is subscribed to
    queue,      \* the messages in its pubsub
    typed,      \* a typing event whose "started" is still to be published
    key,        \* Redis typing:{doc}:{user}: the keys that exist
    fired,      \* the expiry events in a listener's pubsub
    alive,      \* the listeners that run
    events,     \* messages sent so far
    owed,       \* the events published to a connection in their room, and not sent yet
    back,       \* rooms that a connection joined again
    typing,     \* whom a client was told is typing
    lost        \* a publication was lost

connection == <<in, at, sub>>
keys == <<key, fired, alive>>
vars == <<in, at, sub, queue, typed, key, fired, alive, events, owed, back, typing, lost>>

-----------------------------------------------------------------------------
\* "due": the connection was in the room, and still is.
Message == [ doc : Doc, from : Conn, kind : {"cursor", "started", "stopped"},
             due : BOOLEAN ]
Typist == Doc \X Conn

Init ==
    /\ in = [c \in Conn |-> {}] /\ at = [c \in Conn |-> None]
    /\ sub = [c \in Conn |-> {}] /\ queue = [c \in Conn |-> <<>>]
    /\ typed = [c \in Conn |-> FALSE]
    /\ key = {} /\ fired = [s \in Server |-> <<>>] /\ alive = Server
    /\ events = 0
    /\ owed = [c \in Conn |-> 0] /\ back = {}
    /\ typing = [c \in Conn |-> {}] /\ lost = FALSE

\* A turn of the endpoint's loop starts with a message for document d.
Receive(c, d) ==
    /\ ~typed[c]
    /\ events < MaxEvents /\ events' = events + 1
    /\ at' = [at EXCEPT ![c] = d]

-----------------------------------------------------------------------------
(* publish                                                                 *)

Due(c, d, from) == d \in in[c] /\ c # from

\* Errors are swallowed.
Publish(d, from, kind) ==
    \/ /\ queue' = [c \in Conn |->
              IF d \in sub[c]
              THEN Append(queue[c], [doc |-> d, from |-> from, kind |-> kind,
                                     due |-> Due(c, d, from)])
              ELSE queue[c]]
       /\ owed' = [c \in Conn |-> owed[c] + IF Due(c, d, from) THEN 1 ELSE 0]
       /\ UNCHANGED lost
    \/ "publish" \in Faults /\ lost' = TRUE /\ UNCHANGED <<queue, owed>>

-----------------------------------------------------------------------------
(* Client messages                                                         *)

\* Mutant: the pubsub is subscribed only when a room is joined again.
JoinUnsubscribed(c, d) ==
    /\ d \notin in[c] /\ Receive(c, d)
    /\ in' = [in EXCEPT ![c] = @ \cup {d}]
    /\ sub' = [sub EXCEPT ![c] = IF <<c, d>> \in back THEN @ \cup {d} ELSE @]
    /\ UNCHANGED <<queue, typed, keys, owed, back, typing, lost>>

\* Mutant: the pubsub is subscribed to all rooms at once.
JoinAll(c, d) ==
    /\ d \notin in[c] /\ Receive(c, d)
    /\ in' = [in EXCEPT ![c] = @ \cup {d}]
    /\ sub' = [sub EXCEPT ![c] = Doc]
    /\ UNCHANGED <<queue, typed, keys, owed, back, typing, lost>>

Join(c, d) ==
    /\ d \notin in[c] /\ Receive(c, d)
    /\ in' = [in EXCEPT ![c] = @ \cup {d}]
    /\ sub' = [sub EXCEPT ![c] = @ \cup {d}]
    /\ back' = IF d \in sub[c] THEN back \cup {<<c, d>>} ELSE back
    /\ UNCHANGED <<queue, typed, keys, owed, typing, lost>>

\* ConnectionRegistry.disconnect subscribes where its comment says unsubscribe.
Leave(c, d) ==
    /\ d \in in[c] /\ Receive(c, d)
    /\ in' = [in EXCEPT ![c] = @ \ {d}]
    /\ sub' = [sub EXCEPT ![c] = @ \cup {d}]
    /\ owed' = [owed EXCEPT ![c] =
           @ - Cardinality({i \in DOMAIN queue[c] : queue[c][i].doc = d /\ queue[c][i].due})]
    /\ queue' = [queue EXCEPT ![c] = [i \in DOMAIN @ |->
           IF @[i].doc = d THEN [@[i] EXCEPT !.due = FALSE] ELSE @[i]]]
    /\ typing' = [typing EXCEPT ![c] = {t \in @ : t[1] # d}]
    /\ UNCHANGED <<typed, keys, back, lost>>

\* process_cursor_event.
Cursor(c, d) ==
    /\ d \in in[c] /\ Receive(c, d)
    /\ Publish(d, c, "cursor")
    /\ UNCHANGED <<in, sub, typed, keys, back, typing>>

\* process_typing_event sets the key and publishes afterwards.
Type(c, d) ==
    /\ d \in in[c] /\ Receive(c, d)
    /\ key' = key \cup {<<d, c>>}
    /\ typed' = [typed EXCEPT ![c] = TRUE]
    /\ UNCHANGED <<in, sub, queue, fired, alive, owed, back, typing, lost>>

Started(c) ==
    /\ typed[c]
    /\ typed' = [typed EXCEPT ![c] = FALSE]
    /\ Publish(at[c], c, "started")
    /\ UNCHANGED <<connection, keys, events, back, typing>>

-----------------------------------------------------------------------------
(* Expired keys                                                            *)

\* Mutant: the parts of the key are taken in the wrong order.
ExpireSwapped(d, c) ==
    /\ <<d, c>> \in key /\ ~(typed[c] /\ at[c] = d)
    /\ key' = key \ {<<d, c>>}
    /\ fired' = [s \in Server |-> IF s \in alive THEN Append(fired[s], <<c, d>>) ELSE fired[s]]
    /\ UNCHANGED <<connection, queue, typed, alive, events, owed, back, typing, lost>>

\* The TTL of three seconds outlasts the rest of the handler that set it.
Expire(d, c) ==
    /\ <<d, c>> \in key /\ ~(typed[c] /\ at[c] = d)
    /\ key' = key \ {<<d, c>>}
    /\ fired' = [s \in Server |-> IF s \in alive THEN Append(fired[s], <<d, c>>) ELSE fired[s]]
    /\ UNCHANGED <<connection, queue, typed, alive, events, owed, back, typing, lost>>

\* Mutant: the listener publishes the event of a key only while the key exists.
StoppedIfTyping(s) ==
    /\ fired[s] # <<>>
    /\ fired' = [fired EXCEPT ![s] = Tail(@)]
    /\ LET t == Head(fired[s]) IN
          IF t \in key THEN Publish(t[1], t[2], "stopped") ELSE UNCHANGED <<queue, owed, lost>>
    /\ UNCHANGED <<connection, typed, key, alive, events, back, typing>>

\* expired_typing_event.
Stopped(s) ==
    /\ fired[s] # <<>>
    /\ fired' = [fired EXCEPT ![s] = Tail(@)]
    /\ LET t == Head(fired[s]) IN Publish(t[1], t[2], "stopped")
    /\ UNCHANGED <<connection, typed, key, alive, events, back, typing>>

\* An exception of listen ends the task.
ListenerDies(s) ==
    /\ "listener" \in Faults /\ s \in alive
    /\ alive' = alive \ {s}
    /\ fired' = [fired EXCEPT ![s] = <<>>]
    /\ UNCHANGED <<connection, queue, typed, key, events, owed, back, typing, lost>>

-----------------------------------------------------------------------------
(* receive_room_message                                                    *)

\* Mutant: the test for a user's own events is the wrong way round.
HeardOwn(c, m) == m.doc = at[c] /\ m.from = c

\* get_message drops a message of another document than that of the last
\* client message, and a user's own events are not sent back.
Heard(c, m) == m.doc = at[c] /\ m.from # c

Poll(c) ==
    /\ ~typed[c] /\ at[c] \in in[c] /\ queue[c] # <<>>
    /\ queue' = [queue EXCEPT ![c] = Tail(@)]
    /\ LET m == Head(queue[c])
           t == <<m.doc, m.from>>
       IN IF Heard(c, m)
          THEN /\ owed' = [owed EXCEPT ![c] = @ - IF m.due THEN 1 ELSE 0]
               /\ typing' = [typing EXCEPT ![c] =
                     IF m.kind = "started" THEN @ \cup {t}
                     ELSE IF m.kind = "stopped" THEN @ \ {t} ELSE @]
          ELSE UNCHANGED <<owed, typing>>
    /\ UNCHANGED <<connection, typed, keys, events, back, lost>>

-----------------------------------------------------------------------------
Next ==
    \/ \E c \in Conn :
          \/ \E d \in Doc :
                Join(c, d) \/ Leave(c, d) \/ Cursor(c, d) \/ Type(c, d) \/ Expire(d, c)
          \/ Started(c) \/ Poll(c)
    \/ \E s \in Server : Stopped(s) \/ ListenerDies(s)

Spec == Init /\ [][Next]_vars

(* Endpoints and listeners go on, calls return, and keys expire.           *)
FairSpec ==
    /\ Spec
    /\ \A c \in Conn : WF_vars(Started(c) \/ Poll(c))
    /\ WF_vars(\E c \in Conn, d \in Doc : Expire(d, c))
    /\ \A s \in Server : WF_vars(Stopped(s))

-----------------------------------------------------------------------------
TypeOK ==
    /\ in \in [Conn -> SUBSET Doc] /\ at \in [Conn -> Doc \cup {None}]
    /\ sub \in [Conn -> SUBSET Doc] /\ queue \in [Conn -> Seq(Message)]
    /\ typed \in [Conn -> BOOLEAN]
    /\ key \subseteq Typist /\ fired \in [Server -> Seq(Typist)] /\ alive \subseteq Server
    /\ events \in 0 .. MaxEvents
    /\ owed \in [Conn -> Nat] /\ back \subseteq Conn \X Doc
    /\ typing \in [Conn -> SUBSET Typist] /\ lost \in BOOLEAN

\* A pubsub is never unsubscribed: sub is every room a connection ever joined.
OneRoom(c) == Cardinality(sub[c]) <= 1

(* A connection that keeps to one document loses no event: what was        *)
(* published while it was in the room has been sent to it or waits in its  *)
(* pubsub.  (With a second document, get_message drops events.)            *)
OneRoomIsLossless ==
    \A c \in Conn : OneRoom(c) =>
        owed[c] = Cardinality({i \in DOMAIN queue[c] : queue[c][i].due})

(* An event from before a connection joined waits for nobody but one that  *)
(* left the room and came back.                                            *)
OldEventsAreOfReturners ==
    \A c \in Conn : \A i \in DOMAIN queue[c] :
        LET m == queue[c][i] IN
            m.doc \in in[c] /\ m.from # c /\ ~m.due => <<c, m.doc>> \in back

\* A connection of one room, which it is in; its last message was about it.
Settled(c) == OneRoom(c) /\ at[c] \in in[c]

(* README.md: "Presence and Typing indicators".  However late the servers' *)
(* "stopped" events come, and however often, once typing ends no client    *)
(* that keeps to one document and stays shows it any more, if a listener   *)
(* runs and no publication was lost.                                       *)
TypingEnds ==
    <>[](lost \/ alive = {} \/ \A c \in Conn : Settled(c) => typing[c] = {})

(* receive_room_message takes one message a turn, and a turn comes whether *)
(* or not the client speaks (main loop of routers/websocket.py): when the  *)
(* clients go quiet, every event of a room reaches whoever keeps to it.    *)
EventsArrive == <>[](\A c \in Conn : Settled(c) => owed[c] = 0)

=============================================================================
