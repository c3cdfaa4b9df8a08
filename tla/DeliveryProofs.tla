---------------------------- MODULE DeliveryProofs ----------------------------
(***************************************************************************)
(* Theorems about Delivery.tla for any number of connections, documents    *)
(* and servers, any bound on the clients' messages and any faults.         *)
(***************************************************************************)
EXTENDS Delivery, FiniteSetTheorems, FunctionTheorems, SequenceTheorems, TLAPS

-----------------------------------------------------------------------------
(* The messages of a queue that are due.                                   *)

DueIn(q) == {i \in DOMAIN q : q[i].due}

LEMMA DueIsFinite ==
    ASSUME NEW q \in Seq(Message)
    PROVE  /\ DueIn(q) \subseteq 1 .. Len(q) /\ IsFiniteSet(DueIn(q))
           /\ Cardinality(DueIn(q)) \in Nat
<1>1. Len(q) \in Nat /\ DueIn(q) \subseteq 1 .. Len(q)
  BY LenProperties DEF DueIn
<1>2. IsFiniteSet(1 .. Len(q))
  BY <1>1, FS_Interval
<1>3. IsFiniteSet(DueIn(q))
  BY <1>1, <1>2, FS_Subset
<1> QED
  BY <1>1, <1>3, FS_CardinalityType

\* An appended message counts if it is due.
LEMMA DueAppended ==
    ASSUME NEW q \in Seq(Message), NEW m \in Message
    PROVE  Cardinality(DueIn(Append(q, m))) = Cardinality(DueIn(q)) + IF m.due THEN 1 ELSE 0
<1>1. /\ Len(q) \in Nat /\ DOMAIN q = 1 .. Len(q)
      /\ DOMAIN Append(q, m) = 1 .. Len(q) + 1
      /\ \A i \in 1 .. Len(q) : Append(q, m)[i] = q[i]
      /\ Append(q, m)[Len(q) + 1] = m
  BY LenProperties
<1>2. DueIn(Append(q, m)) = IF m.due THEN DueIn(q) \cup {Len(q) + 1} ELSE DueIn(q)
  BY <1>1 DEF DueIn
<1>3. Len(q) + 1 \notin DueIn(q) /\ IsFiniteSet(DueIn(q)) /\ Cardinality(DueIn(q)) \in Nat
  BY <1>1, DueIsFinite
<1>4. CASE m.due
  BY <1>2, <1>3, <1>4, FS_AddElement
<1>5. CASE ~m.due
  BY <1>2, <1>3, <1>5
<1> QED
  BY <1>4, <1>5

\* Without its first message a queue has one due message less, if that was due.
LEMMA DueTaken ==
    ASSUME NEW q \in Seq(Message), q # <<>>
    PROVE  Cardinality(DueIn(Tail(q))) = Cardinality(DueIn(q)) - IF Head(q).due THEN 1 ELSE 0
<1> DEFINE S == DueIn(q) \ {1}
<1> DEFINE T == DueIn(Tail(q))
<1> DEFINE f == [i \in S |-> i - 1]
<1>1. /\ Len(q) \in Nat \ {0} /\ DOMAIN q = 1 .. Len(q) /\ Head(q) = q[1]
      /\ Tail(q) \in Seq(Message) /\ Len(Tail(q)) = Len(q) - 1
      /\ DOMAIN Tail(q) = 1 .. Len(q) - 1
      /\ \A i \in 1 .. Len(q) - 1 : Tail(q)[i] = q[i + 1]
  BY EmptySeq, LenProperties, HeadTailProperties
<1>2. \A i : i \in S <=> i \in 2 .. Len(q) /\ q[i].due
  BY <1>1 DEF DueIn
<1>3. \A i : i \in T <=> i \in 1 .. Len(q) - 1 /\ q[i + 1].due
  BY <1>1 DEF DueIn
<1>4. IsFiniteSet(S) /\ Cardinality(S) = Cardinality(DueIn(q)) - IF Head(q).due THEN 1 ELSE 0
  <2>1. IsFiniteSet(DueIn(q)) /\ Cardinality(DueIn(q)) \in Nat
    BY DueIsFinite
  <2>2. 1 \in DueIn(q) <=> Head(q).due
    BY <1>1 DEF DueIn
  <2> QED
    BY <2>1, <2>2, FS_RemoveElement
<1>5. f \in Bijection(S, T)
  <2> HIDE DEF S, T
  <2>1. f \in [S -> T]
    <3> SUFFICES ASSUME NEW i \in S PROVE i - 1 \in T
      OBVIOUS
    <3>1. i \in 2 .. Len(q) /\ q[i].due
      BY <1>2
    <3>2. i - 1 \in 1 .. Len(q) - 1 /\ (i - 1) + 1 = i
      BY <1>1, <3>1
    <3> QED
      BY <1>3, <3>1, <3>2
  <2>2. \A i, j \in S : f[i] = f[j] => i = j
    BY <1>1, <1>2
  <2>3. \A j \in T : \E i \in S : f[i] = j
    <3> SUFFICES ASSUME NEW j \in T PROVE \E i \in S : i - 1 = j
      OBVIOUS
    <3>1. j \in 1 .. Len(q) - 1 /\ q[j + 1].due
      BY <1>3
    <3>2. j + 1 \in 2 .. Len(q) /\ (j + 1) - 1 = j
      BY <1>1, <3>1
    <3> QED
      BY <1>2, <3>1, <3>2
  <2> HIDE DEF f
  <2> QED
    BY <2>1, <2>2, <2>3, Fun_IsBij
<1>6. Cardinality(T) = Cardinality(S)
  <2>1. ExistsBijection(S, T)
    BY <1>5 DEF ExistsBijection
  <2> QED
    BY <1>4, <2>1, FS_Bijection
<1> QED
  BY <1>4, <1>6

\* A set of at most one room.
LEMMA OneElement ==
    ASSUME NEW S, IsFiniteSet(S), Cardinality(S) <= 1, NEW x \in S, NEW y \in S
    PROVE  x = y
<1> SUFFICES ASSUME x # y PROVE FALSE
  OBVIOUS
<1>1. IsFiniteSet({x}) /\ Cardinality({x}) = 1
  BY FS_Singleton
<1>2. Cardinality({x} \cup {y}) = 2
  BY SMTT(30), <1>1, FS_AddElement
<1>3. ({x} \cup {y}) \in SUBSET S
  OBVIOUS
<1>4. Cardinality({x} \cup {y}) <= Cardinality(S) /\ Cardinality(S) \in Nat
  BY <1>3, FS_CardinalityType, FS_Subset
<1> QED
  BY <1>2, <1>4

-----------------------------------------------------------------------------
(* The inductive invariant.  Messages wait for rooms that the pubsub is    *)
(* subscribed to, and who publishes is about to have a document.           *)

\* A message m that waits for connection c.
Waits(c, m) ==
    /\ m.doc \in sub[c]
    /\ m.due => m.doc \in in[c] /\ m.from # c
    /\ m.doc \in in[c] /\ m.from # c /\ ~m.due => <<c, m.doc>> \in back

Messages == \A c \in Conn : \A i \in DOMAIN queue[c] : Waits(c, queue[c][i])

\* Owed is what is due, and with a second room more.
Count(c) == Cardinality(DueIn(queue[c]))
Counted ==
    \A c \in Conn : Count(c) <= owed[c] /\ (OneRoom(c) => owed[c] = Count(c))

Subscribed ==
    \A c \in Conn : /\ in[c] \subseteq sub[c] /\ IsFiniteSet(sub[c])
                    /\ typed[c] => at[c] \in Doc

Inv == TypeOK /\ Subscribed /\ Messages /\ Counted

LEMMA InvInit == Init => Inv
<1> SUFFICES ASSUME Init PROVE Inv
  OBVIOUS
<1>1. <<>> \in Seq(Message) /\ DueIn(<<>>) = {} /\ DOMAIN <<>> = {}
  BY EmptySeq, LenProperties DEF DueIn
<1>2. TypeOK
  <2>1. queue \in [Conn -> Seq(Message)] /\ fired \in [Server -> Seq(Typist)]
    BY <1>1 DEF Init
  <2>2. events \in 0 .. MaxEvents
    BY DeliveryAssumption DEF Init
  <2> QED
    BY <2>1, <2>2 DEF Init, TypeOK
<1>3. Subscribed
  BY FS_EmptySet DEF Init, Subscribed
<1>4. Messages
  BY <1>1 DEF Init, Messages
<1>5. Counted
  <2>1. \A c \in Conn : queue[c] = <<>> /\ owed[c] = 0
    BY DEF Init
  <2>2. \A c \in Conn : Count(c) = 0
    BY <1>1, <2>1, FS_EmptySet DEF Count
  <2> QED
    BY <2>1, <2>2 DEF Counted
<1> QED
  BY <1>2, <1>3, <1>4, <1>5 DEF Inv

\* Facts of a connection.
LEMMA QueueFacts ==
    ASSUME Inv, NEW c \in Conn
    PROVE  /\ queue[c] \in Seq(Message) /\ Len(queue[c]) \in Nat
           /\ DOMAIN queue[c] = 1 .. Len(queue[c])
           /\ IsFiniteSet(DueIn(queue[c])) /\ Count(c) \in Nat /\ owed[c] \in Nat
           /\ Count(c) <= owed[c] /\ (OneRoom(c) => owed[c] = Count(c))
<1>1. queue[c] \in Seq(Message) /\ owed[c] \in Nat
  BY DEF Inv, TypeOK
<1> QED
  BY <1>1, LenProperties, DueIsFinite DEF Count, Inv, Counted

\* A step that touches no pubsub and no room.
LEMMA QuietKeeps ==
    ASSUME Inv, UNCHANGED <<in, sub, queue, owed, back>>, TypeOK',
           \A c \in Conn : typed'[c] => at'[c] \in Doc
    PROVE  Inv'
<1>1. Subscribed'
  BY DEF Inv, Subscribed
<1>2. Messages'
  BY DEF Inv, Messages, Waits
<1>3. Counted'
  BY DEF Inv, Counted, Count, OneRoom
<1> QED
  BY <1>1, <1>2, <1>3 DEF Inv

LEMMA PublishKeeps ==
    ASSUME Inv, NEW d \in Doc, NEW from \in Conn, NEW kind \in {"cursor", "started", "stopped"},
           Publish(d, from, kind), UNCHANGED <<in, sub, back>>
    PROVE  /\ queue' \in [Conn -> Seq(Message)] /\ owed' \in [Conn -> Nat]
           /\ lost' \in BOOLEAN /\ Messages' /\ Counted'
<1>1. lost \in BOOLEAN /\ lost' \in {lost, TRUE}
  BY DEF Publish, Inv, TypeOK
<1>2. CASE UNCHANGED <<queue, owed>>
  BY <1>1, <1>2 DEF Inv, TypeOK, Messages, Waits, Counted, Count, OneRoom
<1>3. CASE /\ queue' = [c \in Conn |->
                  IF d \in sub[c]
                  THEN Append(queue[c], [doc |-> d, from |-> from, kind |-> kind,
                                         due |-> Due(c, d, from)])
                  ELSE queue[c]]
           /\ owed' = [c \in Conn |-> owed[c] + IF Due(c, d, from) THEN 1 ELSE 0]
  <2>1. ASSUME NEW c \in Conn
        PROVE  /\ queue'[c] \in Seq(Message) /\ owed'[c] \in Nat
               /\ \A i \in DOMAIN queue'[c] : Waits(c, queue[c][i])'
               /\ Count(c)' <= owed'[c] /\ (OneRoom(c)' => owed'[c] = Count(c)')
    <3> DEFINE m == [doc |-> d, from |-> from, kind |-> kind, due |-> Due(c, d, from)]
    <3>1. m \in Message /\ m.doc = d /\ m.from = from /\ m.due = Due(c, d, from)
      BY DEF Message, Due
    <3>2. in[c] \subseteq sub[c]
      BY DEF Inv, Subscribed
    <3>3. OneRoom(c)' <=> OneRoom(c)
      BY DEF OneRoom
    <3>4. /\ owed'[c] = owed[c] + IF Due(c, d, from) THEN 1 ELSE 0
          /\ queue'[c] = IF d \in sub[c] THEN Append(queue[c], m) ELSE queue[c]
      BY <1>3
    <3>5. \A i \in DOMAIN queue[c] : Waits(c, queue[c][i])
      BY DEF Inv, Messages
    <3> HIDE DEF m
    <3>6. CASE d \in sub[c]
      <4>1. Append(queue[c], m) \in Seq(Message)
        BY <3>1, QueueFacts
      <4>2. Count(c)' = Count(c) + IF m.due THEN 1 ELSE 0
        BY <3>1, <3>4, <3>6, QueueFacts, DueAppended DEF Count
      <4>3. ASSUME NEW i \in DOMAIN queue'[c] PROVE Waits(c, queue[c][i])'
        <5>1. CASE i \in DOMAIN queue[c]
          <6>1. queue'[c][i] = queue[c][i]
            BY <3>4, <3>6, <5>1, QueueFacts
          <6> QED
            BY <3>5, <5>1, <6>1 DEF Waits
        <5>2. CASE i \notin DOMAIN queue[c]
          <6>1. queue'[c][i] = m
            BY <3>4, <3>6, <4>3, <5>2, QueueFacts
          <6> QED
            BY <3>1, <3>6, <6>1 DEF Waits, Due
        <5> QED
          BY <5>1, <5>2
      <4> QED
        BY <3>1, <3>3, <3>4, <3>6, <4>1, <4>2, <4>3, QueueFacts
    <3>7. CASE d \notin sub[c]
      <4>1. ~Due(c, d, from) /\ queue'[c] = queue[c] /\ owed'[c] = owed[c]
        BY <3>2, <3>4, <3>7, QueueFacts DEF Due
      <4>2. Count(c)' = Count(c)
        BY <4>1 DEF Count
      <4> QED
        BY <3>3, <3>5, <4>1, <4>2, QueueFacts DEF Waits
    <3> QED
      BY <3>6, <3>7
  <2>2. queue' \in [Conn -> Seq(Message)] /\ owed' \in [Conn -> Nat]
    BY <1>3, <2>1
  <2> QED
    BY <1>1, <2>1, <2>2 DEF Messages, Counted
<1> QED
  BY <1>2, <1>3 DEF Publish

-----------------------------------------------------------------------------
(* The actions.                                                            *)

LEMMA TurnType ==
    ASSUME Inv, NEW c \in Conn, NEW d \in Doc, Receive(c, d)
    PROVE  /\ events' \in 0 .. MaxEvents /\ at' \in [Conn -> Doc \cup {None}]
           /\ at'[c] = d /\ \A e \in Conn \ {c} : at'[e] = at[e]
<1>1. MaxEvents \in Nat
  BY DeliveryAssumption
<1> QED
  BY <1>1 DEF Receive, Inv, TypeOK

LEMMA JoinKeeps ==
    ASSUME Inv, NEW c \in Conn, NEW d \in Doc, Join(c, d)
    PROVE  Inv'
<1>1. /\ in \in [Conn -> SUBSET Doc] /\ sub \in [Conn -> SUBSET Doc]
      /\ UNCHANGED <<queue, typed, keys, owed, typing, lost>>
      /\ UNCHANGED <<key, fired, alive>>
  BY DEF Join, keys, Inv, TypeOK
<1>2. /\ in' \in [Conn -> SUBSET Doc] /\ sub' \in [Conn -> SUBSET Doc]
      /\ in'[c] = in[c] \cup {d} /\ sub'[c] = sub[c] \cup {d}
      /\ \A e \in Conn : e # c => in'[e] = in[e] /\ sub'[e] = sub[e]
      /\ back \subseteq back' /\ back' \subseteq Conn \X Doc
      /\ d \in sub[c] => <<c, d>> \in back'
  BY <1>1 DEF Join, Inv, TypeOK
<1>3. TypeOK'
  BY <1>1, <1>2, TurnType DEF Join, Inv, TypeOK
<1>4. \A e \in Conn : IsFiniteSet(sub[e]) /\ IsFiniteSet(sub'[e]) /\ sub[e] \subseteq sub'[e]
  BY <1>2, FS_AddElement DEF Inv, Subscribed
<1>5. Subscribed'
  <2>1. \A e \in Conn : typed[e] => at'[e] \in Doc
    BY TurnType DEF Join, Inv, Subscribed
  <2> QED
    BY <1>1, <1>2, <1>4, <2>1 DEF Inv, Subscribed
<1>6. Messages'
  <2> SUFFICES ASSUME NEW e \in Conn, NEW i \in DOMAIN queue[e]
               PROVE  Waits(e, queue[e][i])'
    BY <1>1 DEF Messages
  <2>1. Waits(e, queue[e][i])
    BY DEF Inv, Messages
  <2> QED
    BY <1>1, <1>2, <2>1 DEF Waits
<1>7. Counted'
  <2> SUFFICES ASSUME NEW e \in Conn
               PROVE  Count(e)' <= owed'[e] /\ (OneRoom(e)' => owed'[e] = Count(e)')
    BY DEF Counted
  <2>1. Count(e)' = Count(e) /\ owed'[e] = owed[e]
    BY <1>1 DEF Count
  <2>2. /\ Cardinality(sub[e]) <= Cardinality(sub'[e])
        /\ Cardinality(sub[e]) \in Nat /\ Cardinality(sub'[e]) \in Nat
    BY <1>4, FS_Subset, FS_CardinalityType
  <2>3. OneRoom(e)' => OneRoom(e)
    BY <2>2 DEF OneRoom
  <2> QED
    BY <2>1, <2>3, QueueFacts
<1> QED
  BY <1>3, <1>5, <1>6, <1>7 DEF Inv

\* Leaving takes the due messages of the room from what is owed.
LEMMA LeaveKeeps ==
    ASSUME Inv, NEW c \in Conn, NEW d \in Doc, Leave(c, d)
    PROVE  Inv'
<1> DEFINE q == queue[c]
<1> DEFINE left == [i \in DOMAIN q |->
                       IF q[i].doc = d THEN [q[i] EXCEPT !.due = FALSE] ELSE q[i]]
<1> DEFINE S == {i \in DOMAIN q : q[i].doc = d /\ q[i].due}
<1>1. /\ in \in [Conn -> SUBSET Doc] /\ sub \in [Conn -> SUBSET Doc]
      /\ owed \in [Conn -> Nat] /\ queue \in [Conn -> Seq(Message)]
      /\ typing \in [Conn -> SUBSET Typist]
      /\ UNCHANGED <<typed, back, lost, key, fired, alive>>
  BY DEF Leave, keys, Inv, TypeOK
<1>2. /\ q \in Seq(Message) /\ Len(q) \in Nat /\ DOMAIN q = 1 .. Len(q)
      /\ \A i \in DOMAIN q : q[i] \in Message
  BY QueueFacts, ElementOfSeq
<1>3. d \in sub[c] /\ d \in in[c]
  BY DEF Leave, Inv, Subscribed
<1>4. /\ in' = [in EXCEPT ![c] = @ \ {d}] /\ sub' = [sub EXCEPT ![c] = @ \cup {d}]
      /\ owed' = [owed EXCEPT ![c] = @ - Cardinality(S)]
      /\ queue' = [queue EXCEPT ![c] = left]
  BY <1>1 DEF Leave
<1>5. sub' = sub
  BY <1>1, <1>3, <1>4
<1>6. /\ DOMAIN left = DOMAIN q
      /\ \A i \in DOMAIN q : /\ left[i] \in Message /\ left[i].doc = q[i].doc
                             /\ left[i].from = q[i].from
                             /\ left[i].due <=> q[i].due /\ q[i].doc # d
  BY <1>2 DEF Message
<1>7. left \in Seq(Message)
  <2>1. left \in [1 .. Len(q) -> Message]
    BY <1>2, <1>6
  <2> HIDE DEF left, q
  <2> QED
    BY <1>2, <2>1
<1>8. /\ DueIn(left) = DueIn(q) \ S /\ S \subseteq DueIn(q)
      /\ IsFiniteSet(DueIn(q)) /\ IsFiniteSet(S) /\ Cardinality(S) \in Nat
      /\ Cardinality(S) <= Count(c)
  <2>1. DueIn(left) = DueIn(q) \ S /\ S \subseteq DueIn(q)
    BY <1>6 DEF DueIn
  <2>2. IsFiniteSet(DueIn(q))
    BY QueueFacts
  <2> HIDE DEF S, left
  <2>3. IsFiniteSet(S) /\ Cardinality(S) <= Cardinality(DueIn(q))
    BY <2>1, <2>2, FS_Subset
  <2> QED
    BY <2>1, <2>2, <2>3, FS_CardinalityType DEF Count
<1>9. IsFiniteSet(DueIn(left)) /\ Cardinality(DueIn(left)) = Count(c) - Cardinality(S)
  <2> HIDE DEF S, left
  <2>1. IsFiniteSet(DueIn(left)) /\ Cardinality(DueIn(left)) \in Nat
    BY <1>7, DueIsFinite
  <2>2. DueIn(left) \cup S = DueIn(q) /\ DueIn(left) \cap S = {}
    BY <1>8
  <2>3. Cardinality(DueIn(q)) = Cardinality(DueIn(left)) + Cardinality(S) - Cardinality({})
    BY <1>8, <2>1, <2>2, FS_Union
  <2> QED
    BY <1>8, <2>1, <2>3, FS_EmptySet DEF Count
<1> HIDE DEF S, left
<1>10. /\ in'[c] = in[c] \ {d} /\ queue'[c] = left /\ owed'[c] = owed[c] - Cardinality(S)
       /\ \A e \in Conn : e # c => /\ in'[e] = in[e] /\ queue'[e] = queue[e]
                                   /\ owed'[e] = owed[e]
  BY <1>1, <1>4
<1>11. TypeOK'
  <2>1. in' \in [Conn -> SUBSET Doc] /\ queue' \in [Conn -> Seq(Message)]
    BY <1>1, <1>4, <1>7
  <2>2. owed'[c] \in Nat
    BY <1>8, <1>10, QueueFacts
  <2>3. owed' \in [Conn -> Nat]
    BY <1>1, <1>4, <1>10, <2>2
  <2>4. typing' \in [Conn -> SUBSET Typist]
    BY <1>1 DEF Leave
  <2> QED
    BY <1>1, <1>5, <2>1, <2>3, <2>4, TurnType DEF Leave, Inv, TypeOK
<1>12. Subscribed'
  <2>1. \A e \in Conn : typed[e] => at'[e] \in Doc
    BY TurnType DEF Leave, Inv, Subscribed
  <2> QED
    BY <1>1, <1>5, <1>10, <2>1 DEF Inv, Subscribed
<1>13. Messages'
  <2> SUFFICES ASSUME NEW e \in Conn, NEW i \in DOMAIN queue'[e]
               PROVE  Waits(e, queue[e][i])'
    BY DEF Messages
  <2>1. CASE e = c
    <3>1. i \in DOMAIN q /\ queue'[e][i] = left[i] /\ Waits(c, q[i])
      BY <1>6, <1>10, <2>1 DEF Inv, Messages
    <3> QED
      BY ZenonT(40), <1>1, <1>5, <1>6, <1>10, <2>1, <3>1 DEF Waits
  <2>2. CASE e # c
    <3>1. queue'[e] = queue[e] /\ Waits(e, queue[e][i])
      BY <1>10, <2>2 DEF Inv, Messages
    <3> QED
      BY <1>1, <1>5, <1>10, <2>2, <3>1 DEF Waits
  <2> QED
    BY <2>1, <2>2
<1>14. Counted'
  <2> SUFFICES ASSUME NEW e \in Conn
               PROVE  Count(e)' <= owed'[e] /\ (OneRoom(e)' => owed'[e] = Count(e)')
    BY DEF Counted
  <2>1. OneRoom(e)' <=> OneRoom(e)
    BY <1>5 DEF OneRoom
  <2>2. CASE e = c
    <3>1. Count(c)' = Count(c) - Cardinality(S)
      BY <1>9, <1>10 DEF Count
    <3> QED
      BY <1>8, <1>10, <2>1, <2>2, <3>1, QueueFacts
  <2>3. CASE e # c
    <3>1. Count(e)' = Count(e) /\ owed'[e] = owed[e]
      BY <1>10, <2>3 DEF Count
    <3> QED
      BY <2>1, <3>1, QueueFacts
  <2> QED
    BY <2>2, <2>3
<1> QED
  BY <1>11, <1>12, <1>13, <1>14 DEF Inv

LEMMA EventKeeps ==
    ASSUME Inv, NEW c \in Conn, NEW d \in Doc, Cursor(c, d) \/ Type(c, d)
    PROVE  Inv'
<1>1. /\ events' \in 0 .. MaxEvents /\ at' \in [Conn -> Doc \cup {None}]
      /\ at'[c] = d /\ \A e \in Conn \ {c} : at'[e] = at[e]
  BY TurnType DEF Cursor, Type
<1>2. \A e \in Conn : typed[e] => at'[e] \in Doc
  BY <1>1 DEF Inv, Subscribed
<1>3. CASE Cursor(c, d)
  <2>1. /\ queue' \in [Conn -> Seq(Message)] /\ owed' \in [Conn -> Nat]
        /\ lost' \in BOOLEAN /\ Messages' /\ Counted'
    BY <1>3, PublishKeeps DEF Cursor
  <2>2. UNCHANGED <<in, sub, typed, key, fired, alive, back, typing>>
    BY <1>3 DEF Cursor, keys
  <2>3. TypeOK' /\ Subscribed'
    BY <1>1, <1>2, <2>1, <2>2 DEF Inv, TypeOK, Subscribed
  <2> QED
    BY <2>1, <2>3 DEF Inv
<1>4. CASE Type(c, d)
  <2>1. key' \subseteq Typist /\ typed' \in [Conn -> BOOLEAN]
    BY <1>4 DEF Type, Inv, TypeOK, Typist
  <2>2. UNCHANGED <<in, sub, queue, fired, alive, owed, back, typing, lost>>
    BY <1>4 DEF Type
  <2>3. \A e \in Conn : typed'[e] => at'[e] \in Doc
    BY <1>1, <1>2, <1>4 DEF Type, Inv, TypeOK
  <2>4. TypeOK'
    BY <1>1, <2>1, <2>2 DEF Inv, TypeOK
  <2> QED
    BY <2>2, <2>3, <2>4, QuietKeeps
<1> QED
  BY <1>3, <1>4

LEMMA StartedKeeps ==
    ASSUME Inv, NEW c \in Conn, Started(c)
    PROVE  Inv'
<1>1. at[c] \in Doc
  BY DEF Started, Inv, Subscribed
<1>2. UNCHANGED <<in, at, sub, key, fired, alive, events, back, typing>>
  BY DEF Started, connection, keys
<1>3. /\ queue' \in [Conn -> Seq(Message)] /\ owed' \in [Conn -> Nat]
      /\ lost' \in BOOLEAN /\ Messages' /\ Counted'
  BY <1>1, <1>2, PublishKeeps DEF Started
<1>4. typed' \in [Conn -> BOOLEAN] /\ \A e \in Conn : typed'[e] => typed[e]
  BY DEF Started, Inv, TypeOK
<1>5. TypeOK' /\ Subscribed'
  BY <1>2, <1>3, <1>4 DEF Inv, TypeOK, Subscribed
<1> QED
  BY <1>3, <1>5 DEF Inv

LEMMA ExpiryKeeps ==
    ASSUME Inv,
           \/ \E c \in Conn, d \in Doc : Expire(d, c)
           \/ \E s \in Server : Stopped(s) \/ ListenerDies(s)
    PROVE  Inv'
<1>1. fired \in [Server -> Seq(Typist)] /\ key \subseteq Typist /\ <<>> \in Seq(Typist)
  BY EmptySeq DEF Inv, TypeOK
<1>2. ASSUME NEW c \in Conn, NEW d \in Doc, Expire(d, c) PROVE Inv'
  <2>1. UNCHANGED <<in, at, sub, queue, typed, alive, events, owed, back, typing, lost>>
    BY <1>2 DEF Expire, connection
  <2>2. <<d, c>> \in Typist /\ key' \subseteq Typist
    BY <1>1, <1>2 DEF Expire, Typist
  <2>3. \A s \in Server : fired'[s] \in Seq(Typist)
    <3> SUFFICES ASSUME NEW s \in Server PROVE fired'[s] \in Seq(Typist)
      OBVIOUS
    <3>1. fired[s] \in Seq(Typist) /\ Append(fired[s], <<d, c>>) \in Seq(Typist)
      BY <1>1, <2>2
    <3> QED
      BY <1>2, <3>1 DEF Expire
  <2>4. fired' \in [Server -> Seq(Typist)]
    BY <1>2, <2>3 DEF Expire
  <2>5. TypeOK'
    BY <2>1, <2>2, <2>4 DEF Inv, TypeOK
  <2> QED
    BY <2>1, <2>5, QuietKeeps DEF Inv, Subscribed
<1>3. ASSUME NEW s \in Server, Stopped(s) PROVE Inv'
  <2> DEFINE t == Head(fired[s])
  <2>1. t \in Typist /\ Tail(fired[s]) \in Seq(Typist)
    BY <1>1, <1>3, HeadTailProperties DEF Stopped
  <2>2. t[1] \in Doc /\ t[2] \in Conn
    BY <2>1 DEF Typist
  <2>3. UNCHANGED <<in, at, sub, typed, key, alive, events, back, typing>>
    BY <1>3 DEF Stopped, connection
  <2>4. Publish(t[1], t[2], "stopped")
    BY <1>3 DEF Stopped
  <2> HIDE DEF t
  <2>5. /\ queue' \in [Conn -> Seq(Message)] /\ owed' \in [Conn -> Nat]
        /\ lost' \in BOOLEAN /\ Messages' /\ Counted'
    BY <2>2, <2>3, <2>4, PublishKeeps
  <2>6. fired' \in [Server -> Seq(Typist)]
    BY <1>1, <1>3, <2>1 DEF Stopped
  <2>7. TypeOK' /\ Subscribed'
    BY <2>3, <2>5, <2>6 DEF Inv, TypeOK, Subscribed
  <2> QED
    BY <2>5, <2>7 DEF Inv
<1>4. ASSUME NEW s \in Server, ListenerDies(s) PROVE Inv'
  <2>1. UNCHANGED <<in, at, sub, queue, typed, key, events, owed, back, typing, lost>>
    BY <1>4 DEF ListenerDies, connection
  <2>2. TypeOK'
    BY <1>1, <1>4, <2>1 DEF ListenerDies, Inv, TypeOK
  <2> QED
    BY <2>1, <2>2, QuietKeeps DEF Inv, Subscribed
<1> QED
  BY <1>2, <1>3, <1>4

\* A message that is due is heard by who is subscribed to one room.
LEMMA PollKeeps ==
    ASSUME Inv, NEW c \in Conn, Poll(c)
    PROVE  Inv'
<1> DEFINE m == Head(queue[c])
<1>1. /\ queue[c] \in Seq(Message) /\ queue[c] # <<>> /\ owed[c] \in Nat
      /\ at[c] \in in[c] /\ Count(c) \in Nat
      /\ Count(c) <= owed[c] /\ (OneRoom(c) => owed[c] = Count(c))
  BY QueueFacts DEF Poll
<1>2. /\ m \in Message /\ Tail(queue[c]) \in Seq(Message) /\ Len(queue[c]) \in Nat \ {0}
      /\ m = queue[c][1] /\ DOMAIN queue[c] = 1 .. Len(queue[c])
      /\ DOMAIN Tail(queue[c]) = 1 .. Len(queue[c]) - 1
      /\ \A i \in 1 .. Len(queue[c]) - 1 : Tail(queue[c])[i] = queue[c][i + 1]
  BY <1>1, EmptySeq, LenProperties, HeadTailProperties
<1>3. /\ UNCHANGED <<in, at, sub, typed, key, fired, alive, events, back, lost>>
      /\ queue' = [queue EXCEPT ![c] = Tail(@)]
  BY DEF Poll, connection, keys
<1>4. Waits(c, m)
  BY <1>2 DEF Inv, Messages
<1>5. /\ queue'[c] = Tail(queue[c]) /\ queue' \in [Conn -> Seq(Message)]
      /\ \A e \in Conn : e # c => queue'[e] = queue[e]
  BY <1>2, <1>3 DEF Inv, TypeOK
<1>6. /\ Count(c)' = Count(c) - IF m.due THEN 1 ELSE 0
      /\ Count(c)' \in Nat
  <2>1. Count(c)' = Count(c) - IF m.due THEN 1 ELSE 0
    BY <1>1, <1>5, DueTaken DEF Count
  <2> QED
    BY <1>2, <1>5, <2>1, DueIsFinite DEF Count
<1>7. /\ owed' \in [Conn -> Nat] /\ typing' \in [Conn -> SUBSET Typist]
      /\ \A e \in Conn : e # c => owed'[e] = owed[e]
      /\ Heard(c, m) => owed'[c] = owed[c] - IF m.due THEN 1 ELSE 0
      /\ ~Heard(c, m) => owed'[c] = owed[c]
  <2>1. CASE Heard(c, m)
    <3>1. /\ owed' = [owed EXCEPT ![c] = @ - IF m.due THEN 1 ELSE 0]
          /\ typing' = [typing EXCEPT ![c] =
                IF m.kind = "started" THEN @ \cup {<<m.doc, m.from>>}
                ELSE IF m.kind = "stopped" THEN @ \ {<<m.doc, m.from>>} ELSE @]
      BY <2>1 DEF Poll
    <3>2. <<m.doc, m.from>> \in Typist
      BY <1>2 DEF Message, Typist
    <3>3. owed[c] - (IF m.due THEN 1 ELSE 0) \in Nat
      BY <1>1, <1>6
    <3> QED
      BY <2>1, <3>1, <3>2, <3>3 DEF Inv, TypeOK
  <2>2. CASE ~Heard(c, m)
    BY <2>2 DEF Poll, Inv, TypeOK
  <2> QED
    BY <2>1, <2>2
<1>8. OneRoom(c) /\ m.due => Heard(c, m)
  <2>1. at[c] \in sub[c] /\ IsFiniteSet(sub[c])
    BY <1>1 DEF Inv, Subscribed
  <2> QED
    BY <1>4, <2>1, OneElement DEF OneRoom, Waits, Heard
<1> HIDE DEF m
<1>9. TypeOK' /\ Subscribed'
  BY <1>3, <1>5, <1>7 DEF Inv, TypeOK, Subscribed
<1>10. Messages'
  <2> SUFFICES ASSUME NEW e \in Conn, NEW i \in DOMAIN queue'[e]
               PROVE  Waits(e, queue[e][i])'
    BY DEF Messages
  <2>1. \E j \in DOMAIN queue[e] : queue'[e][i] = queue[e][j]
    <3>1. CASE e = c
      <4>1. /\ i \in 1 .. Len(queue[c]) - 1 /\ queue'[e][i] = queue[c][i + 1]
            /\ i + 1 \in DOMAIN queue[c]
        BY <1>2, <1>5, <3>1
      <4> QED
        BY <3>1, <4>1
    <3>2. CASE e # c
      BY <1>5, <3>2
    <3> QED
      BY <3>1, <3>2
  <2>2. PICK j \in DOMAIN queue[e] : queue'[e][i] = queue[e][j]
    BY <2>1
  <2>3. Waits(e, queue[e][j])
    BY DEF Inv, Messages
  <2> QED
    BY <1>3, <2>2, <2>3 DEF Waits
<1>11. Counted'
  <2> SUFFICES ASSUME NEW e \in Conn
               PROVE  Count(e)' <= owed'[e] /\ (OneRoom(e)' => owed'[e] = Count(e)')
    BY DEF Counted
  <2>1. OneRoom(e)' <=> OneRoom(e)
    BY <1>3 DEF OneRoom
  <2>2. CASE e = c
    BY <1>1, <1>6, <1>7, <1>8, <2>1, <2>2
  <2>3. CASE e # c
    <3>1. Count(e)' = Count(e) /\ owed'[e] = owed[e]
      BY <1>5, <1>7, <2>3 DEF Count
    <3> QED
      BY <2>1, <3>1, QueueFacts
  <2> QED
    BY <2>2, <2>3
<1> QED
  BY <1>9, <1>10, <1>11 DEF Inv

LEMMA InvNext == Inv /\ [Next]_vars => Inv'
<1> SUFFICES ASSUME Inv, [Next]_vars PROVE Inv'
  OBVIOUS
<1>1. CASE UNCHANGED vars
  <2>1. /\ UNCHANGED <<in, sub, queue, owed, back>> /\ TypeOK'
        /\ \A c \in Conn : typed'[c] => at'[c] \in Doc
    BY <1>1 DEF vars, connection, keys, Inv, TypeOK, Subscribed
  <2> QED
    BY <2>1, QuietKeeps
<1>2. CASE Next
  BY <1>2, JoinKeeps, LeaveKeeps, EventKeeps, StartedKeeps, ExpiryKeeps, PollKeeps DEF Next
<1> QED
  BY <1>1, <1>2

-----------------------------------------------------------------------------
(* Theorems.                                                               *)

LEMMA InvAlways == Spec => []Inv
<1>1. Init => Inv
  BY InvInit
<1>2. Inv /\ [Next]_vars => Inv'
  BY InvNext
<1> QED
  BY <1>1, <1>2, PTL DEF Spec

(* Rooms, pubsubs, typing keys and listeners keep their types, whatever    *)
(* clients do and whichever publications and listeners are lost.           *)
THEOREM DeliveryTypeCorrect == Spec => []TypeOK
<1>1. Inv => TypeOK
  BY DEF Inv
<1> QED
  BY <1>1, InvAlways, PTL

(* For any number of connections and documents, who keeps to one document  *)
(* loses nothing that was published there: get_message drops events of     *)
(* other documents only.                                                   *)
THEOREM OneRoomLosesNothing == Spec => []OneRoomIsLossless
<1>1. Inv => OneRoomIsLossless
  BY DEF Inv, Counted, Count, DueIn, OneRoomIsLossless
<1> QED
  BY <1>1, InvAlways, PTL

(* An old event reaches nobody but who came back: the subscription that    *)
(* disconnect leaves behind has no other effect on what a room is sent.    *)
THEOREM OldEventsOfReturners == Spec => []OldEventsAreOfReturners
<1>1. Inv => OldEventsAreOfReturners
  BY DEF Inv, Messages, Waits, OldEventsAreOfReturners
<1> QED
  BY <1>1, InvAlways, PTL

=============================================================================
