------------------------------- MODULE Sessions -------------------------------
(***************************************************************************)
(* Sign-in, refresh, log-out and deletion of accounts that are verified:   *)
(* app/api/services/auth.py with UserService, the dependencies of          *)
(* app/deps.py that admit a request or a websocket, and the refresh tokens *)
(* in Redis.                                                               *)
(*                                                                         *)
(* A worker handles one request at a time and gives way at every call to   *)
(* Postgres or Redis; an action is such a call with what is done until the *)
(* next one.  A request that is refused or fails leaves its worker idle.   *)
(* A JWT stands for what it names: an access token for its user, a refresh *)
(* token for its jti.  One that has expired is refused before any call.    *)
(***************************************************************************)
EXTENDS Naturals

CONSTANTS
    Worker,
    User,       \* an address
    Google,     \* the users who sign in with Google
    NameOf,     \* the display name of a user
    Token,      \* the jtis that can be drawn
    None,
    Faults      \* what may go wrong in this run

ASSUME SessionsAssumption ==
    /\ None \notin User \cup Token \cup Worker
    /\ Google \subseteq User
    /\ Faults \subseteq {"storage"}

VARIABLES
    account,    \* table users: the verified account of a user
    entry,      \* Redis tokens:{jti}: its user, or None
    issued,     \* the tokens that were given out
    parent,     \* the token in whose place a token was given, or None
    signed,     \* the users with an access token
    pc,         \* the call a worker is at
    local,      \* its locals
    shared      \* tokens two requests found before one of them revoked it

tokens == <<entry, issued, parent, signed>>
vars == <<account, entry, issued, parent, signed, pc, local, shared>>

-----------------------------------------------------------------------------
Step == {"idle", "authenticate", "find", "find name", "save", "create", "issue",
         "get", "revoke", "save logout", "delete"}
Op == {"login", "google", "refresh", "use", "logout", "delete"}

Local == [ op    : Op \cup {None},
           user  : User \cup {None},     \* whose request it is
           row   : User \cup {None},     \* the row to activate
           seen  : BOOLEAN,              \* its is_active when it was read
           token : Token \cup {None},    \* the refresh token of the cookie
           disturbed : BOOLEAN ]         \* its user was logged out or deleted meanwhile

LocalOf(op, u, t) == [ op |-> op, user |-> u, row |-> None, seen |-> FALSE,
                       token |-> t, disturbed |-> FALSE ]
Blank == LocalOf(None, None, None)

Init ==
    /\ account = [u \in User |-> IF u \in Google THEN "absent" ELSE "inactive"]
    /\ entry = [t \in Token |-> None] /\ issued = {}
    /\ parent = [t \in Token |-> None] /\ signed = {}
    /\ pc = [w \in Worker |-> "idle"]
    /\ local = [w \in Worker |-> Blank]
    /\ shared = {}

-----------------------------------------------------------------------------
Exists(u) == account[u] # "absent"
Namesakes(u) == {v \in User : Exists(v) /\ NameOf[v] = NameOf[u]}
UserAt(w) == local[w].user
TokenAt(w) == local[w].token
GoTo(w, step) == pc' = [pc EXCEPT ![w] = step]

Receive(w, op, u, t, first) ==
    /\ pc[w] = "idle"
    /\ local' = [local EXCEPT ![w] = LocalOf(op, u, t)]
    /\ GoTo(w, first)
    /\ UNCHANGED <<account, tokens, shared>>

\* The answer, or an error.
End(w) ==
    /\ GoTo(w, "idle")
    /\ local' = [local EXCEPT ![w] = Blank]
Raise(w) == "storage" \in Faults /\ End(w)

\* The account changes, and w goes on with its request or ends it.
Disturb(w, step) ==
    /\ GoTo(w, step)
    /\ local' = [v \in Worker |->
          IF v = w THEN IF step = "idle" THEN Blank ELSE local[w]
          ELSE IF local[v].op = "login" /\ UserAt(v) = UserAt(w)
          THEN [local[v] EXCEPT !.disturbed = TRUE] ELSE local[v]]

-----------------------------------------------------------------------------
(* login and sign_up_with_google                                           *)

Login(w, u) == u \notin Google /\ Receive(w, "login", u, None, "find")
SignInWithGoogle(w, u) == u \in Google /\ Receive(w, "google", u, None, "find")

Load(w, u) == local' = [local EXCEPT ![w].row = u, ![w].seen = (account[u] = "active")]

\* The password is verified, or not; Google has done so.  An account that
\* Google signs in is saved only when it is not active.
Find(w) ==
    /\ pc[w] = "find"
    /\ LET u == UserAt(w)
           google == local[w].op = "google"
       IN \/ Exists(u) /\ (google => account[u] = "inactive") /\ Load(w, u) /\ GoTo(w, "save")
          \/ google /\ account[u] = "active" /\ Load(w, u) /\ GoTo(w, "issue")
          \/ google /\ ~Exists(u) /\ GoTo(w, "find name") /\ UNCHANGED local
          \/ ~google /\ End(w)
    /\ UNCHANGED <<account, tokens, shared>>

\* The row that bears the name is another user's.
FindName(w) ==
    /\ pc[w] = "find name"
    /\ \/ Namesakes(UserAt(w)) = {} /\ GoTo(w, "create") /\ UNCHANGED local
       \/ \E v \in Namesakes(UserAt(w)) :
             /\ Load(w, v)
             /\ GoTo(w, IF account[v] = "active" THEN "issue" ELSE "save")
    /\ UNCHANGED <<account, tokens, shared>>

\* Mutant: the row is loaded as active, so that no UPDATE is sent.
SaveNothing(w) ==
    /\ pc[w] = "save"
    /\ Exists(local[w].row) /\ GoTo(w, "issue")
    /\ UNCHANGED <<account, local, tokens, shared>>

(* update_user: no column is written when is_active was true in the row    *)
(* that was read.  A row that is gone is an error in both cases.           *)
Save(w) ==
    /\ pc[w] = "save"
    /\ LET v == local[w].row IN
          \/ /\ Exists(v) /\ GoTo(w, "issue") /\ UNCHANGED local
             /\ account' = [account EXCEPT ![v] = IF local[w].seen THEN @ ELSE "active"]
          \/ ~Exists(v) /\ End(w) /\ UNCHANGED account
          \/ Raise(w) /\ UNCHANGED account
    /\ UNCHANGED <<tokens, shared>>

\* Addresses and names are unique columns.
Create(w) ==
    /\ pc[w] = "create"
    /\ LET u == UserAt(w) IN
          \/ /\ Namesakes(u) = {} /\ GoTo(w, "issue") /\ UNCHANGED local
             /\ account' = [account EXCEPT ![u] = "active"]
          \/ Namesakes(u) # {} /\ End(w) /\ UNCHANGED account
          \/ Raise(w) /\ UNCHANGED account
    /\ UNCHANGED <<tokens, shared>>

\* Mutant: a refresh keeps the jti of the token it replaces.
IssueAgain(w) ==
    /\ pc[w] = "issue"
    /\ \E t \in IF TokenAt(w) = None THEN Token \ issued ELSE {TokenAt(w)} :
          /\ entry' = [entry EXCEPT ![t] = UserAt(w)]
          /\ issued' = issued \cup {t}
    /\ signed' = signed \cup {UserAt(w)}
    /\ End(w)
    /\ UNCHANGED <<account, parent, shared>>

\* create_refresh_token draws a new jti.
Fresh(t) == t \in Token \ issued

\* _get_tokens.
Issue(w) ==
    /\ pc[w] = "issue"
    /\ \/ /\ \E t \in Token :
                /\ Fresh(t)
                /\ entry' = [entry EXCEPT ![t] = UserAt(w)]
                /\ issued' = issued \cup {t}
                /\ parent' = [parent EXCEPT ![t] = TokenAt(w)]
          /\ signed' = signed \cup {UserAt(w)}
          /\ End(w)
       \/ Raise(w) /\ UNCHANGED tokens
    /\ UNCHANGED <<account, shared>>

-----------------------------------------------------------------------------
(* create_auth_tokens: the cookie alone says for whom.                     *)

\* decode_token accepts what was issued here.
Decodes(t) == t \in issued

Refresh(w, t) == Decodes(t) /\ Receive(w, "refresh", None, t, "get")

\* Mutant: the tokens are not made out to the user of the entry.
GetForNobody(w) ==
    /\ pc[w] = "get"
    /\ \/ entry[TokenAt(w)] # None /\ GoTo(w, "revoke") /\ UNCHANGED local
       \/ entry[TokenAt(w)] = None /\ End(w)
    /\ UNCHANGED <<account, tokens, shared>>

\* _revoke_refresh_token reads the entry first.
Get(w) ==
    /\ pc[w] = "get"
    /\ LET u == entry[TokenAt(w)] IN
          \/ /\ u # None /\ GoTo(w, "revoke")
             /\ local' = [local EXCEPT ![w].user =
                             IF local[w].op = "refresh" THEN u ELSE @]
             /\ shared' = IF \E v \in Worker \ {w} : pc[v] = "revoke" /\ TokenAt(v) = TokenAt(w)
                          THEN shared \cup {TokenAt(w)} ELSE shared
          \/ u = None /\ End(w) /\ UNCHANGED shared
    /\ UNCHANGED <<account, tokens>>

\* Mutant: a refresh does not delete the entry.
RevokeAtLogout(w) ==
    /\ pc[w] = "revoke"
    /\ entry' = [entry EXCEPT ![TokenAt(w)] = IF local[w].op = "refresh" THEN @ ELSE None]
    /\ \/ local[w].op = "refresh" /\ GoTo(w, "issue") /\ UNCHANGED local
       \/ local[w].op = "logout" /\ GoTo(w, "save logout") /\ UNCHANGED local
       \/ local[w].op = "delete" /\ End(w)
    /\ UNCHANGED <<account, issued, parent, signed, shared>>

\* Nobody looks at how many keys were deleted.
Revoke(w) ==
    /\ pc[w] = "revoke"
    /\ \/ /\ entry' = [entry EXCEPT ![TokenAt(w)] = None]
          /\ \/ local[w].op = "refresh" /\ GoTo(w, "issue") /\ UNCHANGED local
             \/ local[w].op = "logout" /\ GoTo(w, "save logout") /\ UNCHANGED local
             \/ local[w].op = "delete" /\ End(w)
       \/ Raise(w) /\ UNCHANGED entry
    /\ UNCHANGED <<account, issued, parent, signed, shared>>

-----------------------------------------------------------------------------
(* Requests with an access token, and the cookie if there is one: GET      *)
(* /auth/me and a websocket, log-out and deletion.                         *)

Request(w, op, u, t) ==
    /\ u \in signed /\ (t # None => Decodes(t))
    /\ op = "use" => t = None
    /\ Receive(w, op, u, t, "authenticate")

\* get_current_active_user, or authenticate_websocket_connection.
Authenticate(w) ==
    /\ pc[w] = "authenticate"
    /\ LET active == account[UserAt(w)] = "active"
           op == local[w].op
           keyless == op = "logout" /\ TokenAt(w) = None
       IN \/ active /\ op = "delete" /\ GoTo(w, "delete") /\ UNCHANGED local
          \/ active /\ op = "logout" /\ ~keyless /\ GoTo(w, "get") /\ UNCHANGED local
          \/ /\ ~active \/ op = "use" \/ keyless
             /\ End(w)
    /\ UNCHANGED <<account, tokens, shared>>

\* logout, after the token was revoked.
SaveLogout(w) ==
    /\ pc[w] = "save logout"
    /\ LET u == UserAt(w) IN
          \/ /\ Exists(u)
             /\ account' = [account EXCEPT ![u] = "inactive"]
             /\ Disturb(w, "idle")
          \/ (~Exists(u) \/ "storage" \in Faults) /\ End(w) /\ UNCHANGED account
    /\ UNCHANGED <<tokens, shared>>

\* delete_account, before the token is revoked.
Delete(w) ==
    /\ pc[w] = "delete"
    /\ \/ /\ account' = [account EXCEPT ![UserAt(w)] = "absent"]
          /\ Disturb(w, IF TokenAt(w) = None THEN "idle" ELSE "get")
       \/ Raise(w) /\ UNCHANGED account
    /\ UNCHANGED <<tokens, shared>>

\* Verification.tla: the user of an account that was deleted signs up again.
SignUpAgain(u) ==
    /\ u \notin Google /\ Namesakes(u) = {}
    /\ account' = [account EXCEPT ![u] = "inactive"]
    /\ UNCHANGED <<tokens, pc, local, shared>>

-----------------------------------------------------------------------------
Handle(w) ==
    \/ Find(w) \/ FindName(w) \/ Save(w) \/ Create(w) \/ Issue(w)
    \/ Get(w) \/ Revoke(w) \/ Authenticate(w) \/ SaveLogout(w) \/ Delete(w)

Next ==
    \/ \E w \in Worker :
          \/ \E u \in User :
                \/ Login(w, u) \/ SignInWithGoogle(w, u)
                \/ \E op \in {"use", "logout", "delete"}, t \in Token \cup {None} :
                      Request(w, op, u, t)
          \/ \E t \in Token : Refresh(w, t)
          \/ Handle(w)
    \/ \E u \in User : SignUpAgain(u)

Spec == Init /\ [][Next]_vars

-----------------------------------------------------------------------------
TypeOK ==
    /\ account \in [User -> {"absent", "inactive", "active"}]
    /\ entry \in [Token -> User \cup {None}] /\ issued \subseteq Token
    /\ parent \in [Token -> Token \cup {None}] /\ signed \subseteq User
    /\ pc \in [Worker -> Step] /\ local \in [Worker -> Local]
    /\ shared \subseteq Token

(* The entry of a refresh token is read and deleted in two calls.  A token *)
(* is replaced once, unless two requests found it before one deleted it.   *)
SiblingsWereRaced ==
    \A s, t \in issued :
        s # t /\ parent[s] = parent[t] /\ parent[s] # None => parent[s] \in shared

(* login loads the row, and writes is_active only if it was false there.   *)
(* Tokens of a login go to an active account, as long as nobody logs the   *)
(* same user out, or deletes the account, between the read and the answer. *)
LoginLeavesActive ==
    \A w \in Worker :
        pc[w] = "issue" /\ local[w].op = "login" /\ ~local[w].disturbed
            => account[UserAt(w)] = "active"

\* A token is issued, then revoked, for good.
Tokens == INSTANCE Lifecycle WITH
    Item <- Token, Last <- 2,
    stage <- [t \in Token |-> IF t \notin issued THEN 0 ELSE IF entry[t] # None THEN 1 ELSE 2]

(* No request brings a revoked token back.                                 *)
RevokedStays == Tokens!Spec

=============================================================================
