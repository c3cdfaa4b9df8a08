---------------------------- MODULE SessionsProofs ----------------------------
(***************************************************************************)
(* Theorems about Sessions.tla for any number of workers, users and        *)
(* tokens, and any display names.                                          *)
(***************************************************************************)
EXTENDS Sessions, TLAPS

-----------------------------------------------------------------------------
(* Type correctness.  It needs to know which locals a step relies on.      *)

\* The locals that are set at each call.
LocalsAreSet ==
    \A w \in Worker :
        /\ pc[w] \in {"get", "revoke"} => TokenAt(w) \in Token
        /\ pc[w] \notin {"idle", "get"} \/ (pc[w] = "get" /\ local[w].op # "refresh")
              => UserAt(w) \in User
        /\ pc[w] = "save" => local[w].row \in User
        /\ pc[w] # "idle" => local[w].op \in Op

TypeInv == TypeOK /\ LocalsAreSet

LEMMA BlankType == Blank \in Local
BY DEF Blank, LocalOf, Local

LEMMA ReceiveType ==
    ASSUME TypeInv, NEW w \in Worker, NEW op \in Op, NEW u \in User \cup {None},
           NEW t \in Token \cup {None}, NEW first \in {"find", "get", "authenticate"},
           first = "get" <=> op = "refresh",
           first = "get" => t \in Token, first # "get" => u \in User,
           Receive(w, op, u, t, first)
    PROVE  TypeInv'
<1> DEFINE new == LocalOf(op, u, t)
<1>1. new \in Local
  BY DEF LocalOf, Local
<1>2. pc' \in [Worker -> Step] /\ local' \in [Worker -> Local]
  BY <1>1 DEF TypeInv, TypeOK, Receive, GoTo, Step
<1>3. new.op = op /\ new.user = u /\ new.token = t
  BY DEF LocalOf
<1>4. LocalsAreSet'
  BY <1>3 DEF TypeInv, TypeOK, LocalsAreSet, Receive, GoTo, UserAt, TokenAt
<1> QED
  BY <1>2, <1>4 DEF TypeInv, TypeOK, Receive, tokens

\* The tables keep their types, and one worker takes a step.
LEMMA MoveType ==
    ASSUME TypeInv, NEW w \in Worker, NEW l \in Local, NEW step \in Step,
           local' = [local EXCEPT ![w] = l], GoTo(w, step),
           step \in {"get", "revoke"} => l.token \in Token,
           step \notin {"idle", "get"} \/ (step = "get" /\ l.op # "refresh")
              => l.user \in User,
           step = "save" => l.row \in User,
           step # "idle" => l.op \in Op
    PROVE  /\ pc' \in [Worker -> Step] /\ local' \in [Worker -> Local]
           /\ LocalsAreSet'
<1>1. pc' \in [Worker -> Step] /\ local' \in [Worker -> Local]
  BY DEF TypeInv, TypeOK, GoTo
<1>2. \A v \in Worker : v # w => pc'[v] = pc[v] /\ local'[v] = local[v]
  BY DEF TypeInv, TypeOK, GoTo
<1>3. pc'[w] = step /\ local'[w] = l
  BY DEF TypeInv, TypeOK, GoTo
<1> QED
  BY <1>1, <1>2, <1>3 DEF TypeInv, LocalsAreSet, UserAt, TokenAt

LEMMA EndType ==
    ASSUME TypeInv, NEW w \in Worker, End(w)
    PROVE  /\ pc' \in [Worker -> Step] /\ local' \in [Worker -> Local]
           /\ LocalsAreSet'
BY BlankType, MoveType DEF End, Step

LEMMA StayType ==
    ASSUME TypeInv, NEW w \in Worker, NEW step \in Step, GoTo(w, step), UNCHANGED local,
           step \in {"get", "revoke"} => TokenAt(w) \in Token,
           step \notin {"idle", "get"} \/ (step = "get" /\ local[w].op # "refresh")
              => UserAt(w) \in User,
           step = "save" => local[w].row \in User,
           step # "idle" => local[w].op \in Op
    PROVE  /\ pc' \in [Worker -> Step] /\ local' \in [Worker -> Local]
           /\ LocalsAreSet'
<1>1. local' = [local EXCEPT ![w] = local[w]] /\ local[w] \in Local
  BY DEF TypeInv, TypeOK
<1> QED
  BY <1>1, MoveType DEF UserAt, TokenAt

LEMMA LoadType ==
    ASSUME TypeInv, NEW w \in Worker, pc[w] \notin {"idle", "get"}, NEW u \in User,
           NEW step \in {"save", "issue"}, Load(w, u), GoTo(w, step)
    PROVE  /\ pc' \in [Worker -> Step] /\ local' \in [Worker -> Local]
           /\ LocalsAreSet'
<1> DEFINE l == [local[w] EXCEPT !.row = u, !.seen = (account[u] = "active")]
<1>1. l \in Local
  BY ZenonT(40) DEF TypeInv, TypeOK, Local
<1>2. local' = [local EXCEPT ![w] = l]
  BY DEF Load, TypeInv, TypeOK, Local
<1>3. l.row = u /\ l.user = local[w].user /\ l.op = local[w].op
  BY DEF TypeInv, TypeOK, Local
<1> HIDE DEF l
<1> QED
  BY <1>1, <1>2, <1>3, MoveType DEF TypeInv, LocalsAreSet, UserAt, TokenAt, Step

LEMMA DisturbType ==
    ASSUME TypeInv, NEW w \in Worker, pc[w] \in {"save logout", "delete"},
           NEW step \in {"idle", "get"}, Disturb(w, step),
           step = "get" => TokenAt(w) # None
    PROVE  /\ pc' \in [Worker -> Step] /\ local' \in [Worker -> Local]
           /\ LocalsAreSet'
<1>1. pc' \in [Worker -> Step]
  BY DEF TypeInv, TypeOK, Disturb, GoTo, Step
<1>2. \A v \in Worker : local[v] \in Local
  BY DEF TypeInv, TypeOK
<1>3. \A v \in Worker : [local[v] EXCEPT !.disturbed = TRUE] \in Local
  BY <1>2 DEF Local
<1>4. local' \in [Worker -> Local]
  BY <1>2, <1>3, BlankType DEF Disturb
<1>5. \A v \in Worker : v # w =>
         /\ pc'[v] = pc[v] /\ local'[v].op = local[v].op /\ local'[v].user = local[v].user
         /\ local'[v].token = local[v].token /\ local'[v].row = local[v].row
  BY <1>2 DEF Disturb, GoTo, TypeInv, TypeOK, Local
<1>6. pc'[w] = step /\ (step = "get" => local'[w] = local[w])
  BY DEF Disturb, GoTo, TypeInv, TypeOK
<1>7. local[w].token \in Token \cup {None}
  BY <1>2 DEF Local
<1>8. LocalsAreSet'
  BY <1>5, <1>6, <1>7 DEF TypeInv, LocalsAreSet, UserAt, TokenAt
<1> QED
  BY <1>1, <1>4, <1>8

LEMMA TypeInit == Init => TypeInv
<1> SUFFICES ASSUME Init PROVE TypeInv
  OBVIOUS
<1>1. TypeOK
  BY BlankType DEF Init, TypeOK, Step
<1>2. LocalsAreSet
  BY DEF Init, LocalsAreSet
<1> QED
  BY <1>1, <1>2 DEF TypeInv

LEMMA HandleType ==
    ASSUME TypeInv, NEW w \in Worker, Handle(w)
    PROVE  TypeInv'
<1> DEFINE Moved == /\ pc' \in [Worker -> Step] /\ local' \in [Worker -> Local]
                    /\ LocalsAreSet'
<1> USE DEF Step
<1>1. local[w] \in Local /\ account \in [User -> {"absent", "inactive", "active"}]
  BY DEF TypeInv, TypeOK
<1>2. CASE Find(w)
  <2>1. UserAt(w) \in User /\ pc[w] = "find" /\ local[w].op \in Op
    BY <1>2 DEF Find, TypeInv, LocalsAreSet
  <2>2. Moved
    <3>1. CASE End(w)
      BY <3>1, EndType
    <3>2. CASE Load(w, UserAt(w)) /\ (GoTo(w, "save") \/ GoTo(w, "issue"))
      BY <2>1, <3>2, LoadType
    <3>3. CASE GoTo(w, "find name") /\ UNCHANGED local
      BY <2>1, <3>3, StayType
    <3> QED
      BY <1>2, <3>1, <3>2, <3>3 DEF Find
  <2> QED
    BY <1>2, <2>2 DEF Find, TypeInv, TypeOK, tokens
<1>3. CASE FindName(w)
  <2>1. UserAt(w) \in User /\ pc[w] = "find name" /\ local[w].op \in Op
    BY <1>3 DEF FindName, TypeInv, LocalsAreSet
  <2>2. Moved
    <3>1. CASE GoTo(w, "create") /\ UNCHANGED local
      BY <2>1, <3>1, StayType
    <3>2. ASSUME NEW v \in User, Load(w, v), GoTo(w, "issue") \/ GoTo(w, "save")
          PROVE  Moved
      BY <2>1, <3>2, LoadType
    <3> QED
      BY <1>3, <3>1, <3>2 DEF FindName, Namesakes
  <2> QED
    BY <1>3, <2>2 DEF FindName, TypeInv, TypeOK, tokens
<1>4. CASE Save(w)
  <2>1. UserAt(w) \in User /\ local[w].op \in Op /\ local[w].row \in User
    BY <1>4 DEF Save, TypeInv, LocalsAreSet
  <2>2. Moved
    BY <1>4, <2>1, EndType, StayType DEF Save, Raise
  <2>3. account' \in [User -> {"absent", "inactive", "active"}]
    BY <1>1, <1>4 DEF Save
  <2> QED
    BY <1>4, <2>2, <2>3 DEF Save, TypeInv, TypeOK, tokens
<1>5. CASE Create(w)
  <2>1. UserAt(w) \in User /\ local[w].op \in Op
    BY <1>5 DEF Create, TypeInv, LocalsAreSet
  <2>2. Moved
    BY <1>5, <2>1, EndType, StayType DEF Create, Raise
  <2>3. account' \in [User -> {"absent", "inactive", "active"}]
    BY <1>1, <1>5 DEF Create
  <2> QED
    BY <1>5, <2>2, <2>3 DEF Create, TypeInv, TypeOK, tokens
<1>6. CASE Issue(w)
  <2>1. UserAt(w) \in User /\ TokenAt(w) \in Token \cup {None}
    BY <1>1, <1>6 DEF Issue, TypeInv, LocalsAreSet, TokenAt, Local
  <2>2. Moved
    BY <1>6, EndType DEF Issue, Raise
  <2>3. /\ entry' \in [Token -> User \cup {None}] /\ issued' \subseteq Token
        /\ parent' \in [Token -> Token \cup {None}] /\ signed' \subseteq User
    <3>1. CASE UNCHANGED tokens
      BY <3>1 DEF TypeInv, TypeOK, tokens
    <3>2. ASSUME NEW t \in Token, entry' = [entry EXCEPT ![t] = UserAt(w)],
                 issued' = issued \cup {t}, parent' = [parent EXCEPT ![t] = TokenAt(w)],
                 signed' = signed \cup {UserAt(w)}
          PROVE  /\ entry' \in [Token -> User \cup {None}] /\ issued' \subseteq Token
                 /\ parent' \in [Token -> Token \cup {None}] /\ signed' \subseteq User
      BY <2>1, <3>2 DEF TypeInv, TypeOK
    <3> QED
      BY <1>6, <3>1, <3>2 DEF Issue
  <2> QED
    BY <1>6, <2>2, <2>3 DEF Issue, TypeInv, TypeOK
<1>7. CASE Get(w)
  <2>1. TokenAt(w) \in Token /\ local[w].op \in Op /\ (local[w].op # "refresh" => UserAt(w) \in User)
    BY <1>7 DEF Get, TypeInv, LocalsAreSet
  <2> DEFINE u == entry[TokenAt(w)]
  <2> DEFINE l == [local[w] EXCEPT !.user = IF local[w].op = "refresh" THEN u ELSE @]
  <2>2. u \in User \cup {None}
    BY <2>1 DEF TypeInv, TypeOK
  <2>3. Moved
    <3>1. CASE u # None /\ GoTo(w, "revoke") /\ local' = [local EXCEPT ![w] = l]
      <4>1. l \in Local /\ l.op = local[w].op /\ l.token = TokenAt(w) /\ l.user \in User
        BY <1>1, <2>1, <2>2, <3>1 DEF Local, TokenAt, UserAt
      <4> HIDE DEF l
      <4> QED
        BY <2>1, <3>1, <4>1, MoveType
    <3>2. CASE End(w)
      BY <3>2, EndType
    <3>3. local' = [local EXCEPT ![w].user = IF local[w].op = "refresh" THEN u ELSE @]
             => local' = [local EXCEPT ![w] = l]
      BY <1>1 DEF TypeInv, TypeOK, Local
    <3> HIDE DEF l
    <3> QED
      BY <1>7, <3>1, <3>2, <3>3 DEF Get
  <2>4. shared' \subseteq Token
    BY <1>7, <2>1 DEF Get, TypeInv, TypeOK
  <2> QED
    BY <1>7, <2>3, <2>4 DEF Get, TypeInv, TypeOK, tokens
<1>8. CASE Revoke(w)
  <2>1. UserAt(w) \in User /\ TokenAt(w) \in Token /\ local[w].op \in Op
    BY <1>8 DEF Revoke, TypeInv, LocalsAreSet
  <2>2. Moved
    BY <1>8, <2>1, EndType, StayType DEF Revoke, Raise
  <2>3. entry' \in [Token -> User \cup {None}]
    BY <1>8 DEF Revoke, TypeInv, TypeOK
  <2> QED
    BY <1>8, <2>2, <2>3 DEF Revoke, TypeInv, TypeOK
<1>9. CASE Authenticate(w)
  <2>1. UserAt(w) \in User /\ local[w].op \in Op /\ TokenAt(w) \in Token \cup {None}
    BY <1>1, <1>9 DEF Authenticate, TypeInv, LocalsAreSet, TokenAt, Local
  <2>2. Moved
    <3>1. CASE End(w)
      BY <3>1, EndType
    <3>2. CASE GoTo(w, "delete") /\ UNCHANGED local
      BY <2>1, <3>2, StayType
    <3>3. CASE GoTo(w, "get") /\ UNCHANGED local /\ TokenAt(w) # None
      BY <2>1, <3>3, StayType
    <3> QED
      BY <1>9, <3>1, <3>2, <3>3 DEF Authenticate
  <2> QED
    BY <1>9, <2>2 DEF Authenticate, TypeInv, TypeOK, tokens
<1>10. CASE SaveLogout(w)
  <2>1. Moved
    BY <1>10, EndType, DisturbType DEF SaveLogout
  <2>2. account' \in [User -> {"absent", "inactive", "active"}]
    BY <1>1, <1>10 DEF SaveLogout
  <2> QED
    BY <1>10, <2>1, <2>2 DEF SaveLogout, TypeInv, TypeOK, tokens
<1>11. CASE Delete(w)
  <2>1. Moved
    BY <1>11, EndType, DisturbType DEF Delete, Raise
  <2>2. account' \in [User -> {"absent", "inactive", "active"}]
    BY <1>1, <1>11 DEF Delete
  <2> QED
    BY <1>11, <2>1, <2>2 DEF Delete, TypeInv, TypeOK, tokens
<1> QED
  BY <1>2, <1>3, <1>4, <1>5, <1>6, <1>7, <1>8, <1>9, <1>10, <1>11 DEF Handle

LEMMA TypeNext == TypeInv /\ [Next]_vars => TypeInv'
<1> SUFFICES ASSUME TypeInv, [Next]_vars PROVE TypeInv'
  OBVIOUS
<1> USE DEF Op
<1>1. ASSUME NEW w \in Worker, NEW u \in User, Login(w, u)
      PROVE  TypeInv'
  BY <1>1, ReceiveType DEF Login
<1>2. ASSUME NEW w \in Worker, NEW u \in User, SignInWithGoogle(w, u)
      PROVE  TypeInv'
  BY <1>2, ReceiveType DEF SignInWithGoogle
<1>3. ASSUME NEW w \in Worker, NEW u \in User, NEW op \in {"use", "logout", "delete"},
             NEW t \in Token \cup {None}, Request(w, op, u, t)
      PROVE  TypeInv'
  BY <1>3, ReceiveType DEF Request
<1>4. ASSUME NEW w \in Worker, NEW t \in Token, Refresh(w, t)
      PROVE  TypeInv'
  BY <1>4, ReceiveType DEF Refresh
<1>5. ASSUME NEW w \in Worker, Handle(w)
      PROVE  TypeInv'
  BY <1>5, HandleType
<1>6. ASSUME NEW u \in User, SignUpAgain(u)
      PROVE  TypeInv'
  BY <1>6 DEF SignUpAgain, TypeInv, TypeOK, LocalsAreSet, UserAt, TokenAt, tokens
<1>7. CASE UNCHANGED vars
  BY <1>7 DEF vars, TypeInv, TypeOK, LocalsAreSet, UserAt, TokenAt
<1> QED
  BY <1>1, <1>2, <1>3, <1>4, <1>5, <1>6, <1>7 DEF Next

(* Every table, entry and local keeps its type, whatever requests run at   *)
(* the same time and whichever call fails (AuthService).                   *)
THEOREM SessionsTypeCorrect == Spec => []TypeOK
<1>1. Init => TypeInv
  BY TypeInit
<1>2. TypeInv /\ [Next]_vars => TypeInv'
  BY TypeNext
<1>3. TypeInv => TypeOK
  BY DEF TypeInv
<1> QED
  BY <1>1, <1>2, <1>3, PTL DEF Spec

-----------------------------------------------------------------------------
(* Refresh tokens.  An entry is of a token that was issued; the token of   *)
(* whoever is about to replace it, and of whatever was given in its place, *)
(* has no entry any more.                                                  *)

EntriesAreIssued == \A t \in Token : entry[t] # None => t \in issued
CookiesAreIssued == \A w \in Worker : TokenAt(w) # None => TokenAt(w) \in issued
LoginsHaveNoCookie ==
    \A w \in Worker : pc[w] \in {"find", "find name", "save", "create"} => TokenAt(w) = None
ReplacedIsGone ==
    \A w \in Worker : pc[w] = "issue" /\ TokenAt(w) # None => entry[TokenAt(w)] = None
ParentsAreGone ==
    \A s \in issued : parent[s] # None => parent[s] \in issued /\ entry[parent[s]] = None

TokensInv ==
    EntriesAreIssued /\ CookiesAreIssued /\ LoginsHaveNoCookie /\ ReplacedIsGone /\ ParentsAreGone

\* Two requests that are, or were, about to revoke one token found it together.
RevokersShare ==
    \A v, w \in Worker : v # w /\ pc[v] = "revoke" /\ pc[w] = "revoke"
        /\ TokenAt(v) = TokenAt(w) => TokenAt(w) \in shared
LateRevokersShare ==
    \A w \in Worker : pc[w] = "revoke" /\ entry[TokenAt(w)] = None => TokenAt(w) \in shared
ReplacersShare ==
    \A v, w \in Worker : v # w /\ pc[v] = "issue" /\ pc[w] = "issue"
        /\ TokenAt(v) = TokenAt(w) /\ TokenAt(w) # None => TokenAt(w) \in shared
LateReplacersShare ==
    \A w \in Worker, s \in issued : pc[w] = "issue" /\ TokenAt(w) # None
        /\ parent[s] = TokenAt(w) => TokenAt(w) \in shared

RacedInv ==
    RevokersShare /\ LateRevokersShare /\ ReplacersShare /\ LateReplacersShare /\ SiblingsWereRaced

RefreshInv == TypeInv /\ TokensInv /\ RacedInv

\* What the other workers see of a step of w.
Others(w) == \A v \in Worker \ {w} : pc'[v] = pc[v] /\ local'[v].token = local[v].token

LEMMA OthersOfHandle ==
    ASSUME TypeInv, NEW w \in Worker, Handle(w)
    PROVE  Others(w)
<1>1. \A v \in Worker : local[v] \in Local
  BY DEF TypeInv, TypeOK
<1>2. \A step : GoTo(w, step) => \A v \in Worker \ {w} : pc'[v] = pc[v]
  BY DEF TypeInv, TypeOK, GoTo
<1>3. ASSUME End(w) PROVE Others(w)
  BY <1>2, <1>3 DEF End, Others, TypeInv, TypeOK
<1>4. ASSUME NEW step, GoTo(w, step), UNCHANGED local PROVE Others(w)
  BY <1>2, <1>4 DEF Others
<1>5. ASSUME NEW step, GoTo(w, step), NEW u, Load(w, u) PROVE Others(w)
  BY <1>2, <1>5 DEF Load, Others, TypeInv, TypeOK
<1>6. ASSUME NEW step, Disturb(w, step) PROVE Others(w)
  <2>1. \A v \in Worker : [local[v] EXCEPT !.disturbed = TRUE].token = local[v].token
    BY <1>1 DEF Local
  <2> QED
    BY <1>2, <1>6, <2>1 DEF Disturb, Others
<1>7. CASE Find(w) \/ FindName(w)
  BY <1>3, <1>4, <1>5, <1>7 DEF Find, FindName
<1>8. CASE Save(w) \/ Create(w) \/ Issue(w) \/ Revoke(w)
  BY <1>3, <1>4, <1>8 DEF Save, Create, Issue, Revoke, Raise
<1>9. CASE Get(w)
  BY <1>2, <1>3, <1>9 DEF Get, Others, TypeInv, TypeOK
<1>10. CASE Authenticate(w)
  BY <1>3, <1>4, <1>10 DEF Authenticate
<1>11. CASE SaveLogout(w) \/ Delete(w)
  BY <1>3, <1>6, <1>11 DEF SaveLogout, Delete, Raise
<1> QED
  BY <1>7, <1>8, <1>9, <1>10, <1>11 DEF Handle

\* A step that touches no token and does not begin to revoke or replace one.
LEMMA QuietStep ==
    ASSUME RefreshInv, NEW w \in Worker, Others(w), UNCHANGED <<tokens, shared>>,
           pc'[w] # "revoke",
           local'[w].token \in issued \cup {None},
           pc'[w] \in {"find", "find name", "save", "create", "issue"}
              => local'[w].token = None
    PROVE  TokensInv' /\ RacedInv'
<1>1. TokensInv'
  <2>1. EntriesAreIssued'
    BY DEF RefreshInv, TokensInv, EntriesAreIssued, Others, tokens, TokenAt
  <2>2. CookiesAreIssued'
    BY DEF RefreshInv, TokensInv, CookiesAreIssued, Others, tokens, TokenAt
  <2>3. LoginsHaveNoCookie'
    BY DEF RefreshInv, TokensInv, LoginsHaveNoCookie, Others, tokens, TokenAt
  <2>4. ReplacedIsGone'
    BY DEF RefreshInv, TokensInv, ReplacedIsGone, Others, tokens, TokenAt
  <2>5. ParentsAreGone'
    BY DEF RefreshInv, TokensInv, ParentsAreGone, Others, tokens, TokenAt
  <2> QED
    BY <2>1, <2>2, <2>3, <2>4, <2>5 DEF TokensInv
<1>2. RacedInv'
  <2>1. RevokersShare'
    BY DEF RefreshInv, RacedInv, RevokersShare, Others, tokens, TokenAt
  <2>2. LateRevokersShare'
    BY DEF RefreshInv, RacedInv, LateRevokersShare, Others, tokens, TokenAt
  <2>3. ReplacersShare'
    BY DEF RefreshInv, RacedInv, ReplacersShare, Others, tokens, TokenAt
  <2>4. LateReplacersShare'
    BY ZenonT(40) DEF RefreshInv, RacedInv, LateReplacersShare, Others, tokens, TokenAt
  <2>5. SiblingsWereRaced'
    BY DEF RefreshInv, RacedInv, SiblingsWereRaced, Others, tokens, TokenAt
  <2> QED
    BY <2>1, <2>2, <2>3, <2>4, <2>5 DEF RacedInv
<1> QED
  BY <1>1, <1>2

LEMMA ReceiveIsQuiet ==
    ASSUME RefreshInv, NEW w \in Worker, NEW op, NEW u, NEW t \in issued \cup {None},
           NEW first \in {"find", "get", "authenticate"}, first = "find" => t = None,
           Receive(w, op, u, t, first)
    PROVE  TokensInv' /\ RacedInv'
<1>1. pc'[w] = first /\ local'[w] = LocalOf(op, u, t) /\ UNCHANGED <<tokens, shared>>
  BY DEF Receive, GoTo, RefreshInv, TypeInv, TypeOK
<1>2. Others(w)
  BY DEF Receive, GoTo, Others, RefreshInv, TypeInv, TypeOK
<1>3. local'[w].token = t
  BY <1>1 DEF LocalOf
<1> QED
  BY <1>1, <1>2, <1>3, QuietStep

LEMMA RefreshInit == Init => TokensInv /\ RacedInv
BY DEF Init, TokensInv, EntriesAreIssued, CookiesAreIssued, LoginsHaveNoCookie, ReplacedIsGone,
   ParentsAreGone, RacedInv, RevokersShare, LateRevokersShare, ReplacersShare,
   LateReplacersShare, SiblingsWereRaced, TokenAt, Blank, LocalOf

LEMMA IssueKeeps ==
    ASSUME RefreshInv, NEW w \in Worker, Issue(w), Others(w)
    PROVE  TokensInv' /\ RacedInv'
<1>1. pc[w] = "issue" /\ pc'[w] = "idle" /\ local'[w].token = None /\ UNCHANGED shared
  BY DEF Issue, Raise, End, GoTo, Blank, LocalOf, RefreshInv, TypeInv, TypeOK
<1>2. CASE UNCHANGED tokens
  BY <1>1, <1>2, QuietStep
<1>3. ASSUME NEW t \in Token \ issued, entry' = [entry EXCEPT ![t] = UserAt(w)],
             issued' = issued \cup {t}, parent' = [parent EXCEPT ![t] = TokenAt(w)]
      PROVE  TokensInv' /\ RacedInv'
  <2>1. /\ \A s \in Token : s # t => entry'[s] = entry[s] /\ parent'[s] = parent[s]
        /\ parent'[t] = TokenAt(w)
    BY <1>3 DEF RefreshInv, TypeInv, TypeOK
  <2>2. issued \subseteq Token
    BY DEF RefreshInv, TypeInv, TypeOK
  <2>3. TokensInv'
    <3>1. EntriesAreIssued'
      BY <1>1, <1>3, <2>1, <2>2 DEF RefreshInv, TokensInv, EntriesAreIssued, Others, TokenAt
    <3>2. CookiesAreIssued'
      BY <1>1, <1>3, <2>1, <2>2 DEF RefreshInv, TokensInv, CookiesAreIssued, Others, TokenAt
    <3>3. LoginsHaveNoCookie'
      BY <1>1, <1>3, <2>1, <2>2 DEF RefreshInv, TokensInv, LoginsHaveNoCookie, Others, TokenAt
    <3>4. ReplacedIsGone'
      BY <1>1, <1>3, <2>1, <2>2 DEF RefreshInv, TokensInv, ReplacedIsGone,
         CookiesAreIssued, Others, TokenAt
    <3>5. ParentsAreGone'
      BY <1>1, <1>3, <2>1, <2>2 DEF RefreshInv, TokensInv, ParentsAreGone,
         CookiesAreIssued, ReplacedIsGone, Others, TokenAt
    <3> QED
      BY <3>1, <3>2, <3>3, <3>4, <3>5 DEF TokensInv
  <2>4. RacedInv'
    <3>1. RevokersShare'
      BY <1>1, <1>3, <2>1, <2>2 DEF RefreshInv, TokensInv, RacedInv, RevokersShare, Others, TokenAt
    <3>2. LateRevokersShare'
      BY <1>1, <1>3, <2>1, <2>2, SessionsAssumption DEF RefreshInv, TokensInv, RacedInv,
         LateRevokersShare, CookiesAreIssued, TypeInv, LocalsAreSet, Others, TokenAt
    <3>3. ReplacersShare'
      BY <1>1, <1>3, <2>1, <2>2 DEF RefreshInv, TokensInv, RacedInv, ReplacersShare, Others, TokenAt
    <3>4. LateReplacersShare'
      BY <1>1, <1>3, <2>1, <2>2 DEF RefreshInv, TokensInv, RacedInv,
         LateReplacersShare, ReplacersShare, CookiesAreIssued, Others, TokenAt
    <3>5. SiblingsWereRaced'
      BY <1>1, <1>3, <2>1, <2>2 DEF RefreshInv, TokensInv, RacedInv,
         SiblingsWereRaced, LateReplacersShare, Others, TokenAt
    <3> QED
      BY <3>1, <3>2, <3>3, <3>4, <3>5 DEF RacedInv
  <2> QED
    BY <2>3, <2>4
<1> QED
  BY <1>2, <1>3 DEF Issue, Fresh

LEMMA GetKeeps ==
    ASSUME RefreshInv, NEW w \in Worker, Get(w), Others(w)
    PROVE  TokensInv' /\ RacedInv'
<1>1. CASE entry[TokenAt(w)] = None
  <2>1. pc'[w] = "idle" /\ local'[w].token = None /\ UNCHANGED <<tokens, shared>>
    BY <1>1 DEF Get, End, GoTo, Blank, LocalOf, RefreshInv, TypeInv, TypeOK
  <2> QED
    BY <2>1, QuietStep
<1>2. CASE entry[TokenAt(w)] # None
  <2>1. /\ pc'[w] = "revoke" /\ local'[w].token = TokenAt(w) /\ UNCHANGED tokens
        /\ shared \subseteq shared'
        /\ (\E v \in Worker \ {w} : pc[v] = "revoke" /\ TokenAt(v) = TokenAt(w))
              => TokenAt(w) \in shared'
    BY <1>2 DEF Get, GoTo, TokenAt, RefreshInv, TypeInv, TypeOK, Local
  <2>2. TokensInv'
    <3>1. EntriesAreIssued'
      BY <2>1 DEF RefreshInv, TokensInv, EntriesAreIssued, Others, tokens, TokenAt
    <3>2. CookiesAreIssued'
      BY <2>1 DEF RefreshInv, TokensInv, CookiesAreIssued, Others, tokens, TokenAt
    <3>3. LoginsHaveNoCookie'
      BY <2>1 DEF RefreshInv, TokensInv, LoginsHaveNoCookie, Others, tokens, TokenAt
    <3>4. ReplacedIsGone'
      BY <2>1 DEF RefreshInv, TokensInv, ReplacedIsGone, Others, tokens, TokenAt
    <3>5. ParentsAreGone'
      BY <2>1 DEF RefreshInv, TokensInv, ParentsAreGone, Others, tokens, TokenAt
    <3> QED
      BY <3>1, <3>2, <3>3, <3>4, <3>5 DEF TokensInv
  <2>3. RacedInv'
    <3>1. RevokersShare'
      BY <1>2, <2>1 DEF RefreshInv, RacedInv, RevokersShare, Others, tokens, TokenAt
    <3>2. LateRevokersShare'
      BY <1>2, <2>1 DEF RefreshInv, RacedInv, LateRevokersShare, Others, tokens, TokenAt
    <3>3. ReplacersShare'
      BY <1>2, <2>1 DEF RefreshInv, RacedInv, ReplacersShare, Others, tokens, TokenAt
    <3>4. LateReplacersShare'
      BY <1>2, <2>1 DEF RefreshInv, RacedInv, LateReplacersShare, Others, tokens, TokenAt
    <3>5. SiblingsWereRaced'
      BY <1>2, <2>1 DEF RefreshInv, RacedInv, SiblingsWereRaced, Others, tokens, TokenAt
    <3> QED
      BY <3>1, <3>2, <3>3, <3>4, <3>5 DEF RacedInv
  <2> QED
    BY <2>2, <2>3
<1> QED
  BY <1>1, <1>2

LEMMA RevokeKeeps ==
    ASSUME RefreshInv, NEW w \in Worker, Revoke(w), Others(w)
    PROVE  TokensInv' /\ RacedInv'
<1>1. TokenAt(w) \in Token /\ TokenAt(w) # None /\ pc[w] = "revoke"
  BY SessionsAssumption DEF Revoke, RefreshInv, TypeInv, LocalsAreSet
<1>2. CASE UNCHANGED entry /\ End(w)
  BY <1>2, QuietStep DEF Revoke, End, GoTo, Blank, LocalOf, RefreshInv, TypeInv, TypeOK, tokens
<1>3. CASE entry' = [entry EXCEPT ![TokenAt(w)] = None]
  <2>1. /\ entry'[TokenAt(w)] = None
        /\ \A t \in Token : t # TokenAt(w) => entry'[t] = entry[t]
        /\ UNCHANGED <<issued, parent, shared>>
    BY <1>1, <1>3 DEF Revoke, RefreshInv, TypeInv, TypeOK
  <2>2. /\ local'[w].token \in {TokenAt(w), None}
        /\ pc'[w] \in {"issue", "save logout", "idle"}
        /\ pc'[w] = "issue" => local'[w].token = TokenAt(w)
    <3>1. CASE GoTo(w, "issue") /\ UNCHANGED local
      BY <3>1 DEF GoTo, TokenAt, RefreshInv, TypeInv, TypeOK
    <3>2. CASE GoTo(w, "save logout") /\ UNCHANGED local
      BY <3>2 DEF GoTo, TokenAt, RefreshInv, TypeInv, TypeOK
    <3>3. CASE End(w)
      BY <3>3 DEF End, GoTo, Blank, LocalOf, RefreshInv, TypeInv, TypeOK
    <3> QED
      BY <3>1, <3>2, <3>3 DEF Revoke, Raise
  <2>3. issued \subseteq Token /\ parent \in [Token -> Token \cup {None}]
    BY DEF RefreshInv, TypeInv, TypeOK
  <2>4. TokensInv'
    <3>1. EntriesAreIssued'
      BY <1>1, <2>1, <2>2, <2>3 DEF RefreshInv, TokensInv, EntriesAreIssued, Others, TokenAt
    <3>2. CookiesAreIssued'
      BY <1>1, <2>1, <2>2, <2>3 DEF RefreshInv, TokensInv, CookiesAreIssued, Others, TokenAt
    <3>3. LoginsHaveNoCookie'
      BY <1>1, <2>1, <2>2, <2>3 DEF RefreshInv, TokensInv, LoginsHaveNoCookie, Others, TokenAt
    <3>4. ReplacedIsGone'
      BY ZenonT(40), <2>1, <2>2, <2>3 DEF RefreshInv, TokensInv, ReplacedIsGone, CookiesAreIssued,
         Others, TokenAt
    <3>5. ParentsAreGone'
      BY <1>1, <2>1, <2>2, <2>3 DEF RefreshInv, TokensInv, ParentsAreGone, Others, TokenAt
    <3> QED
      BY <3>1, <3>2, <3>3, <3>4, <3>5 DEF TokensInv
  <2>5. RacedInv'
    <3>1. RevokersShare'
      BY <2>1, <2>2 DEF RefreshInv, RacedInv, RevokersShare, Others, TokenAt
    <3>2. LateRevokersShare'
      <4> SUFFICES ASSUME NEW v \in Worker, pc'[v] = "revoke", entry'[TokenAt(v)'] = None
                   PROVE  TokenAt(v)' \in shared
        BY <2>1 DEF LateRevokersShare
      <4>1. v # w /\ pc[v] = "revoke" /\ TokenAt(v)' = TokenAt(v)
        BY <2>2 DEF Others, TokenAt
      <4>2. TokenAt(v) \in Token
        BY <4>1 DEF RefreshInv, TypeInv, LocalsAreSet
      <4>3. CASE TokenAt(v) = TokenAt(w)
        BY <1>1, <4>1, <4>3 DEF RefreshInv, RacedInv, RevokersShare
      <4>4. CASE TokenAt(v) # TokenAt(w)
        BY <2>1, <4>1, <4>2, <4>4 DEF RefreshInv, RacedInv, LateRevokersShare
      <4> QED
        BY <4>3, <4>4
    <3>3. ReplacersShare'
      <4> SUFFICES ASSUME NEW u \in Worker, NEW v \in Worker \ {u},
                          pc'[u] = "issue", pc'[v] = "issue",
                          TokenAt(u)' = TokenAt(v)', TokenAt(v)' # None
                   PROVE  TokenAt(v)' \in shared
        BY <2>1 DEF ReplacersShare
      <4>1. \A x \in Worker \ {w} : pc'[x] = pc[x] /\ TokenAt(x)' = TokenAt(x)
        BY DEF Others, TokenAt
      <4>2. pc'[w] = "issue" => TokenAt(w)' = TokenAt(w)
        BY <2>2 DEF TokenAt
      <4>3. CASE u # w /\ v # w
        BY <4>1, <4>3 DEF RefreshInv, RacedInv, ReplacersShare
      <4>4. CASE u = w \/ v = w
        BY <1>1, <4>1, <4>2, <4>4 DEF RefreshInv, TokensInv, ReplacedIsGone,
           RacedInv, LateRevokersShare
      <4> QED
        BY <4>3, <4>4
    <3>4. LateReplacersShare'
      <4> SUFFICES ASSUME NEW v \in Worker, NEW s \in issued, pc'[v] = "issue",
                          TokenAt(v)' # None, parent[s] = TokenAt(v)'
                   PROVE  TokenAt(v)' \in shared
        BY <2>1 DEF LateReplacersShare
      <4>1. CASE v # w
        BY <4>1 DEF Others, TokenAt, RefreshInv, RacedInv, LateReplacersShare
      <4>2. CASE v = w
        BY <1>1, <2>2, <4>2 DEF TokenAt, RefreshInv, TokensInv, ParentsAreGone,
           RacedInv, LateRevokersShare
      <4> QED
        BY <4>1, <4>2
    <3>5. SiblingsWereRaced'
      BY <1>1, <2>1, <2>2, <2>3 DEF RefreshInv, TokensInv, RacedInv, SiblingsWereRaced, Others, TokenAt
    <3> QED
      BY <3>1, <3>2, <3>3, <3>4, <3>5 DEF RacedInv
  <2> QED
    BY <2>4, <2>5
<1> QED
  BY <1>2, <1>3 DEF Revoke, Raise

LEMMA RefreshNext == RefreshInv /\ [Next]_vars => RefreshInv'
<1> SUFFICES ASSUME RefreshInv, [Next]_vars PROVE TokensInv' /\ RacedInv'
  BY TypeNext DEF RefreshInv
<1>1. ASSUME NEW w \in Worker, NEW u \in User, Login(w, u) \/ SignInWithGoogle(w, u)
      PROVE  TokensInv' /\ RacedInv'
  BY <1>1, ReceiveIsQuiet DEF Login, SignInWithGoogle
<1>2. ASSUME NEW w \in Worker, NEW u \in User, NEW op \in {"use", "logout", "delete"},
             NEW t \in Token \cup {None}, Request(w, op, u, t)
      PROVE  TokensInv' /\ RacedInv'
  BY <1>2, ReceiveIsQuiet DEF Request, Decodes
<1>3. ASSUME NEW w \in Worker, NEW t \in Token, Refresh(w, t)
      PROVE  TokensInv' /\ RacedInv'
  BY <1>3, ReceiveIsQuiet DEF Refresh, Decodes
<1>4. ASSUME NEW w \in Worker, Handle(w)
      PROVE  TokensInv' /\ RacedInv'
  <2>1. Others(w)
    BY <1>4, OthersOfHandle DEF RefreshInv
  <2>2. TokenAt(w) \in issued \cup {None}
        /\ (pc[w] \in {"find", "find name", "save", "create"} => TokenAt(w) = None)
    BY DEF RefreshInv, TokensInv, CookiesAreIssued, LoginsHaveNoCookie
  <2>3. ASSUME End(w), UNCHANGED <<tokens, shared>>
        PROVE  TokensInv' /\ RacedInv'
    <3>1. pc'[w] = "idle" /\ local'[w].token = None
      BY <2>3 DEF End, GoTo, Blank, LocalOf, RefreshInv, TypeInv, TypeOK
    <3> QED
      BY <2>1, <2>3, <3>1, QuietStep
  <2>4. ASSUME NEW step, GoTo(w, step), step # "revoke", local'[w].token = TokenAt(w),
               step \in {"find", "find name", "save", "create", "issue"} => TokenAt(w) = None,
               UNCHANGED <<tokens, shared>>
        PROVE  TokensInv' /\ RacedInv'
    <3>1. pc'[w] = step
      BY <2>4 DEF GoTo, RefreshInv, TypeInv, TypeOK
    <3> QED
      BY <2>1, <2>2, <2>4, <3>1, QuietStep
  <2>5. ASSUME NEW u, Load(w, u)
        PROVE  local'[w].token = TokenAt(w)
    BY <2>5 DEF Load, TokenAt, RefreshInv, TypeInv, TypeOK, Local
  <2>6. CASE Find(w)
    BY <2>2, <2>3, <2>4, <2>5, <2>6 DEF Find, TokenAt
  <2>7. CASE FindName(w)
    BY <2>2, <2>3, <2>4, <2>5, <2>7 DEF FindName, TokenAt
  <2>8. CASE Save(w) \/ Create(w)
    BY <2>2, <2>3, <2>4, <2>8 DEF Save, Create, Raise, TokenAt
  <2>9. CASE Authenticate(w)
    BY <2>3, <2>4, <2>9 DEF Authenticate, TokenAt
  <2>10. CASE SaveLogout(w) \/ Delete(w)
    <3>1. ASSUME NEW step \in {"idle", "get"}, Disturb(w, step), UNCHANGED <<tokens, shared>>
          PROVE  TokensInv' /\ RacedInv'
      <4>1. pc'[w] = step /\ local'[w].token \in {TokenAt(w), None}
        BY <3>1 DEF Disturb, GoTo, Blank, LocalOf, TokenAt, RefreshInv, TypeInv, TypeOK
      <4> QED
        BY <2>1, <2>2, <3>1, <4>1, QuietStep
    <3> QED
      BY <2>3, <2>10, <3>1 DEF SaveLogout, Delete, Raise
  <2> QED
    BY <1>4, <2>1, <2>6, <2>7, <2>8, <2>9, <2>10, IssueKeeps, GetKeeps, RevokeKeeps DEF Handle
<1>5. ASSUME NEW u \in User, SignUpAgain(u)
      PROVE  TokensInv' /\ RacedInv'
  BY <1>5 DEF SignUpAgain, tokens, RefreshInv, TokensInv, EntriesAreIssued, CookiesAreIssued,
     LoginsHaveNoCookie, ReplacedIsGone, ParentsAreGone, RacedInv, RevokersShare,
     LateRevokersShare, ReplacersShare, LateReplacersShare, SiblingsWereRaced, TokenAt
<1>6. CASE UNCHANGED vars
  BY <1>6 DEF vars, RefreshInv, TokensInv, EntriesAreIssued, CookiesAreIssued,
     LoginsHaveNoCookie, ReplacedIsGone, ParentsAreGone, RacedInv, RevokersShare,
     LateRevokersShare, ReplacersShare, LateReplacersShare, SiblingsWereRaced, TokenAt
<1> QED
  BY <1>1, <1>2, <1>3, <1>4, <1>5, <1>6 DEF Next

THEOREM RefreshAlways == Spec => []RefreshInv
<1>1. Init => RefreshInv
  BY TypeInit, RefreshInit DEF RefreshInv
<1>2. RefreshInv /\ [Next]_vars => RefreshInv'
  BY RefreshNext
<1> QED
  BY <1>1, <1>2, PTL DEF Spec

(* However many requests use one refresh token at the same time, it is     *)
(* replaced once unless two of them read its entry before either deleted   *)
(* it (_revoke_refresh_token).                                             *)
THEOREM SiblingsRaced == Spec => []SiblingsWereRaced
<1>1. RefreshInv => SiblingsWereRaced
  BY DEF RefreshInv, RacedInv
<1> QED
  BY <1>1, RefreshAlways, PTL

-----------------------------------------------------------------------------
(* Sessions implements Lifecycle: tokens are issued, then revoked.         *)

StageOf(t) == IF t \notin issued THEN 0 ELSE IF entry[t] # None THEN 1 ELSE 2

LEMMA StagesAdvance ==
    ASSUME RefreshInv, [Next]_vars, NEW t \in Token
    PROVE  StageOf(t)' \in {StageOf(t), StageOf(t) + 1}
<1>1. CASE UNCHANGED <<entry, issued>>
  BY <1>1 DEF StageOf
<1>2. ASSUME NEW w \in Worker, Issue(w)
      PROVE  StageOf(t)' \in {StageOf(t), StageOf(t) + 1}
  <2>1. CASE UNCHANGED tokens
    BY <1>1, <2>1 DEF tokens
  <2>2. ASSUME NEW s \in Token \ issued, entry' = [entry EXCEPT ![s] = UserAt(w)],
               issued' = issued \cup {s}
        PROVE  StageOf(t)' \in {StageOf(t), StageOf(t) + 1}
    <3>1. UserAt(w) \in User /\ UserAt(w) # None
      BY <1>2, SessionsAssumption DEF Issue, RefreshInv, TypeInv, LocalsAreSet
    <3> QED
      BY <2>2, <3>1 DEF StageOf, RefreshInv, TypeInv, TypeOK
  <2> QED
    BY <1>2, <2>1, <2>2 DEF Issue, Fresh
<1>3. ASSUME NEW w \in Worker, Revoke(w)
      PROVE  StageOf(t)' \in {StageOf(t), StageOf(t) + 1}
  <2>1. CASE UNCHANGED entry
    BY <1>1, <1>3, <2>1 DEF Revoke
  <2>2. CASE entry' = [entry EXCEPT ![TokenAt(w)] = None]
    <3>1. TokenAt(w) \in issued
      BY <1>3, SessionsAssumption DEF Revoke, RefreshInv, TypeInv, LocalsAreSet,
         TokensInv, CookiesAreIssued
    <3>2. issued' = issued /\ \A s \in Token : s # TokenAt(w) => entry'[s] = entry[s]
      BY <1>3, <2>2 DEF Revoke, RefreshInv, TypeInv, TypeOK
    <3>3. entry'[TokenAt(w)] = None
      BY <2>2, <3>1 DEF RefreshInv, TypeInv, TypeOK
    <3> QED
      BY <3>1, <3>2, <3>3 DEF StageOf
  <2> QED
    BY <1>3, <2>1, <2>2 DEF Revoke, Raise
<1>4. CASE UNCHANGED vars
  BY <1>1, <1>4 DEF vars
<1>5. ASSUME NEW w \in Worker,
             \/ Find(w) \/ FindName(w) \/ Save(w) \/ Create(w) \/ Get(w)
             \/ Authenticate(w) \/ SaveLogout(w) \/ Delete(w)
      PROVE  UNCHANGED <<entry, issued>>
  BY <1>5 DEF Find, FindName, Save, Create, Get, Authenticate, SaveLogout, Delete, tokens
<1>6. ASSUME NEW w \in Worker, NEW op, NEW u, NEW x, NEW first, Receive(w, op, u, x, first)
      PROVE  UNCHANGED <<entry, issued>>
  BY <1>6 DEF Receive, tokens
<1>7. ASSUME NEW u \in User, SignUpAgain(u)
      PROVE  UNCHANGED <<entry, issued>>
  BY <1>7 DEF SignUpAgain, tokens
<1> QED
  BY <1>1, <1>2, <1>3, <1>4, <1>5, <1>6, <1>7
  DEF Next, Handle, Login, SignInWithGoogle, Request, Refresh

LEMMA StageInit == Init => Tokens!Init
BY DEF Init, Tokens!Init

LEMMA StageNext == RefreshInv /\ [Next]_vars => Tokens!Next
<1> SUFFICES ASSUME RefreshInv, [Next]_vars PROVE Tokens!Next
  OBVIOUS
<1>1. \A t \in Token : StageOf(t)' \in {StageOf(t), StageOf(t) + 1}
  BY StagesAdvance
<1>2. \A t \in Token : StageOf(t)' \in 0 .. 2
  BY DEF StageOf
<1> QED
  BY <1>1, <1>2 DEF StageOf, Tokens!Next

(* A revoked refresh token never comes back, whatever refreshes, sign-ins, *)
(* log-outs and deletions run at the same time and fail half-way.          *)
THEOREM TokensLifecycle == Spec => RevokedStays
<1>1. Spec => []RefreshInv
  BY RefreshAlways
<1>2. Init => Tokens!Init
  BY StageInit
<1>3. RefreshInv /\ [Next]_vars => Tokens!Next
  BY StageNext
<1> QED
  BY <1>1, <1>2, <1>3, PTL DEF Spec, RevokedStays, Tokens!Spec

-----------------------------------------------------------------------------
(* A login whose user nobody logged out or deleted since its row was read. *)

LoginOk(w) ==
    local[w].op = "login" /\ ~local[w].disturbed =>
        /\ pc[w] \notin {"find name", "create"}
        /\ pc[w] = "save" => local[w].row = UserAt(w)
        /\ pc[w] = "save" /\ local[w].seen => account[UserAt(w)] = "active"
        /\ pc[w] = "issue" => account[UserAt(w)] = "active"

LoginInv == \A w \in Worker : LoginOk(w)

\* No account that was active stops being so.
ActiveStays == \A u \in User : account[u] = "active" => account'[u] = "active"

LEMMA LoginElsewhere ==
    ASSUME TypeInv, LoginInv, NEW w \in Worker, ActiveStays,
           pc'[w] = pc[w] /\ local'[w] = local[w]
    PROVE  LoginOk(w)'
BY DEF TypeInv, LocalsAreSet, LoginInv, LoginOk, ActiveStays, UserAt

\* A step of v after which v is not about to save or to answer a login.
LEMMA LoginStep ==
    ASSUME TypeInv, LoginInv, NEW v \in Worker, ActiveStays,
           \A w \in Worker \ {v} : pc'[w] = pc[w] /\ local'[w] = local[w],
           LoginOk(v)'
    PROVE  LoginInv'
BY LoginElsewhere DEF LoginInv, LoginOk

LEMMA DisturbLogin ==
    ASSUME TypeInv, LoginInv, NEW v \in Worker, NEW step \in {"idle", "get"}, Disturb(v, step),
           UserAt(v) \in User, \A u \in User : u # UserAt(v) => account'[u] = account[u]
    PROVE  LoginInv'
<1> SUFFICES ASSUME NEW w \in Worker PROVE LoginOk(w)'
  BY DEF LoginInv, LoginOk
<1>1. pc'[v] \in {"idle", "get"} /\ (w # v => pc'[w] = pc[w])
  BY DEF Disturb, GoTo, TypeInv, TypeOK
<1>2. CASE w = v
  BY <1>1, <1>2 DEF LoginOk
<1>3. CASE w # v /\ local[w].op = "login" /\ UserAt(w) = UserAt(v)
  <2>1. local'[w] = [local[w] EXCEPT !.disturbed = TRUE] /\ local[w] \in Local
    BY <1>3 DEF Disturb, TypeInv, TypeOK
  <2>2. local'[w].disturbed
    BY <2>1 DEF Local
  <2> QED
    BY <2>2 DEF LoginOk
<1>4. CASE w # v /\ ~(local[w].op = "login" /\ UserAt(w) = UserAt(v))
  BY <1>1, <1>4 DEF Disturb, LoginInv, LoginOk, UserAt, TypeInv, LocalsAreSet
<1> QED
  BY <1>2, <1>3, <1>4

LEMMA LoginNext == TypeInv /\ LoginInv /\ [Next]_vars => LoginInv'
<1> SUFFICES ASSUME TypeInv, LoginInv, [Next]_vars PROVE LoginInv'
  OBVIOUS
<1>1. ASSUME NEW v \in Worker, NEW op, NEW u, NEW t, NEW first \in {"find", "get", "authenticate"},
             Receive(v, op, u, t, first)
      PROVE  LoginInv'
  <2>1. ActiveStays /\ pc'[v] = first
        /\ \A w \in Worker \ {v} : pc'[w] = pc[w] /\ local'[w] = local[w]
    BY <1>1 DEF Receive, GoTo, ActiveStays, TypeInv, TypeOK
  <2> QED
    BY <2>1, LoginStep DEF LoginOk
<1>2. ASSUME NEW v \in Worker, Handle(v)
      PROVE  LoginInv'
  <2>1. \A step : GoTo(v, step) =>
           pc'[v] = step /\ \A w \in Worker \ {v} : pc'[w] = pc[w]
    BY DEF GoTo, TypeInv, TypeOK
  <2>2. local[v] \in Local
    BY DEF TypeInv, TypeOK
  <2>3. ASSUME End(v), ActiveStays
        PROVE  LoginInv'
    <3>1. pc'[v] = "idle" /\ \A w \in Worker \ {v} : pc'[w] = pc[w] /\ local'[w] = local[w]
      BY <2>1, <2>3 DEF End, TypeInv, TypeOK
    <3> QED
      BY <2>3, <3>1, LoginStep DEF LoginOk
  <2>4. ASSUME NEW step, step \notin {"save", "issue"}, GoTo(v, step), ActiveStays,
               step \in {"find name", "create"} => local'[v].op # "login",
               \A w \in Worker \ {v} : local'[w] = local[w]
        PROVE  LoginInv'
    BY <2>1, <2>4, LoginStep DEF LoginOk
  <2>5. UNCHANGED account => ActiveStays
    BY DEF ActiveStays
  <2>6. CASE Find(v)
    <3>1. CASE /\ Load(v, UserAt(v))
               /\ GoTo(v, "save") \/ (local[v].op = "google" /\ GoTo(v, "issue"))
      <4>1. /\ local'[v].row = UserAt(v) /\ local'[v].user = UserAt(v)
            /\ local'[v].seen => account[UserAt(v)] = "active"
            /\ local'[v].op = local[v].op
            /\ \A w \in Worker \ {v} : local'[w] = local[w]
        BY <2>2, <3>1 DEF Load, UserAt, TypeInv, TypeOK, Local
      <4>2. LoginOk(v)'
        <5>1. account' = account
          BY <2>6 DEF Find
        <5>2. CASE GoTo(v, "save")
          <6>1. pc'[v] = "save"
            BY <2>1, <5>2
          <6>2. local'[v].seen => account'[UserAt(v)'] = "active"
            BY <4>1, <5>1 DEF UserAt
          <6>3. local'[v].row = UserAt(v)'
            BY <4>1 DEF UserAt
          <6> QED
            BY <6>1, <6>2, <6>3 DEF LoginOk
        <5>3. CASE local[v].op = "google" /\ GoTo(v, "issue")
          BY <4>1, <5>3 DEF LoginOk
        <5> QED
          BY <3>1, <5>2, <5>3
      <4> QED
        BY <2>1, <2>5, <2>6, <3>1, <4>1, <4>2, LoginStep DEF Find
    <3>2. CASE local[v].op = "google" /\ GoTo(v, "find name") /\ UNCHANGED local
      BY <2>4, <2>5, <2>6, <3>2 DEF Find
    <3> QED
      <4>1. \/ Load(v, UserAt(v)) /\ GoTo(v, "save")
            \/ local[v].op = "google" /\ Load(v, UserAt(v)) /\ GoTo(v, "issue")
            \/ local[v].op = "google" /\ GoTo(v, "find name") /\ UNCHANGED local
            \/ End(v)
        BY <2>6 DEF Find
      <4>2. ActiveStays
        BY <2>5, <2>6 DEF Find
      <4> QED
        BY <2>3, <3>1, <3>2, <4>1, <4>2
  <2>7. CASE FindName(v)
    <3>1. local[v].op # "login" \/ local[v].disturbed
      BY <2>7 DEF FindName, LoginInv, LoginOk
    <3>2. ASSUME NEW u \in User, Load(v, u)
          PROVE  /\ local'[v].op = local[v].op /\ local'[v].disturbed = local[v].disturbed
                 /\ \A w \in Worker \ {v} : local'[w] = local[w]
      BY <2>2, <3>2 DEF Load, TypeInv, TypeOK, Local
    <3>3. ASSUME NEW step, GoTo(v, step), local'[v].op # "login" \/ local'[v].disturbed,
                 \A w \in Worker \ {v} : local'[w] = local[w]
          PROVE  LoginInv'
      BY <2>1, <2>5, <2>7, <3>3, LoginStep DEF FindName, LoginOk
    <3> QED
      BY <2>7, <3>1, <3>2, <3>3 DEF FindName, Namesakes
  <2>8. CASE Save(v)
    <3>1. ActiveStays
      BY <2>8 DEF Save, ActiveStays, TypeInv, TypeOK
    <3>2. CASE End(v)
      BY <2>3, <3>1, <3>2
    <3>3. CASE /\ Exists(local[v].row) /\ GoTo(v, "issue") /\ UNCHANGED local
               /\ account' = [account EXCEPT ![local[v].row] =
                                 IF local[v].seen THEN @ ELSE "active"]
      <4>1. LoginOk(v)'
        BY ZenonT(40), <2>1, <2>8, <3>3 DEF Save, LoginInv, LoginOk,
           UserAt, TypeInv, TypeOK, LocalsAreSet
      <4> QED
        BY <2>1, <3>1, <3>3, <4>1, LoginStep
    <3> QED
      BY <2>8, <3>2, <3>3 DEF Save, Raise
  <2>9. CASE Create(v)
    <3>1. local[v].op # "login" \/ local[v].disturbed
      BY <2>9 DEF Create, LoginInv, LoginOk
    <3>2. ActiveStays
      BY <2>9 DEF Create, ActiveStays, TypeInv, TypeOK
    <3>3. CASE GoTo(v, "issue") /\ UNCHANGED local
      BY <2>1, <3>1, <3>2, <3>3, LoginStep DEF LoginOk
    <3> QED
      BY <2>3, <2>9, <3>2, <3>3 DEF Create, Raise
  <2>10. CASE Issue(v)
    BY <2>3, <2>5, <2>10 DEF Issue, Raise
  <2>11. CASE Get(v)
    <3>1. CASE entry[TokenAt(v)] # None
      BY <2>4, <2>5, <2>11, <3>1 DEF Get, TypeInv, TypeOK
    <3> QED
      BY <2>3, <2>5, <2>11, <3>1 DEF Get
  <2>12. CASE Revoke(v)
    <3>1. CASE local[v].op = "refresh" /\ GoTo(v, "issue") /\ UNCHANGED local
      BY <2>1, <2>5, <2>12, <3>1, LoginStep DEF Revoke, LoginOk
    <3> QED
      BY <2>3, <2>4, <2>5, <2>12, <3>1 DEF Revoke, Raise
  <2>13. CASE Authenticate(v)
    BY <2>3, <2>4, <2>5, <2>13 DEF Authenticate
  <2>14. CASE SaveLogout(v)
    <3>1. \A u \in User : u # UserAt(v) => account'[u] = account[u]
      BY <2>14 DEF SaveLogout, TypeInv, TypeOK
    <3> QED
      BY <2>3, <2>5, <2>14, <3>1, DisturbLogin DEF SaveLogout, TypeInv, LocalsAreSet
  <2>15. CASE Delete(v)
    <3>1. \A u \in User : u # UserAt(v) => account'[u] = account[u]
      BY <2>15 DEF Delete, TypeInv, TypeOK
    <3> QED
      BY <2>3, <2>5, <2>15, <3>1, DisturbLogin DEF Delete, Raise, TypeInv, LocalsAreSet
  <2> QED
    BY <1>2, <2>6, <2>7, <2>8, <2>9, <2>10, <2>11, <2>12, <2>13, <2>14, <2>15 DEF Handle
<1>3. ASSUME NEW u \in User, SignUpAgain(u)
      PROVE  LoginInv'
  <2>1. account[u] # "active"
    BY <1>3 DEF SignUpAgain, Namesakes, Exists
  <2>2. ActiveStays
    BY <1>3, <2>1 DEF SignUpAgain, ActiveStays, TypeInv, TypeOK
  <2> QED
    BY <1>3, <2>2, LoginElsewhere DEF SignUpAgain, LoginInv, LoginOk
<1>4. CASE UNCHANGED vars
  BY <1>4 DEF vars, LoginInv, LoginOk, UserAt
<1> QED
  BY <1>1, <1>2, <1>3, <1>4 DEF Next, Login, SignInWithGoogle, Request, Refresh

(* The tokens of a login go to an active account, unless its user was      *)
(* logged out or deleted between the read of the row and the answer, even  *)
(* when the login writes nothing (login, update_user).                     *)
THEOREM LoginActive == Spec => []LoginLeavesActive
<1>1. Init => LoginInv
  BY DEF Init, LoginInv, LoginOk, Blank, LocalOf
<1>2. TypeInv /\ LoginInv /\ [Next]_vars => LoginInv'
  BY LoginNext
<1>3. LoginInv => LoginLeavesActive
  BY DEF LoginInv, LoginOk, LoginLeavesActive
<1>4. Init => TypeInv
  BY TypeInit
<1>5. TypeInv /\ [Next]_vars => TypeInv'
  BY TypeNext
<1> QED
  BY <1>1, <1>2, <1>3, <1>4, <1>5, PTL DEF Spec

=============================================================================
