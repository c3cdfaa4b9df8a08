-------------------------- MODULE VerificationProofs --------------------------
(***************************************************************************)
(* Theorems about Verification.tla for any number of requests, addresses   *)
(* and names, any limit on retries and deliveries and any faults.          *)
(***************************************************************************)
EXTENDS Verification, TLAPS

-----------------------------------------------------------------------------
(* Type correctness.  A handler has what its next call needs, and a task   *)
(* is not queued before its request has ended.                             *)

ReadyAt(p, l) ==
    /\ p \in {"find email", "find name", "create user", "find", "find code"}
          => l.address \in Address
    /\ p \in {"find email", "find name", "create user"} => l.name \in Name
    /\ p \in {"find code", "save verified"} => l.code \in Code
    /\ p \in {"save password", "create user", "retire", "create email", "save verified"}
          => l.target \in Address
    /\ p \in {"save password", "save verified"} => Exists(l.target)

Ended == {"answered", "refused"}

Ready == \A r \in Request : ReadyAt(pc[r], local[r])
TaskIsLast ==
    \A r \in Request : pc[r] \notin Ended => \A x \in RunsOf(r) : step[x] = "none"

TypeInv == TypeOK /\ Ready /\ TaskIsLast

\* Runs and the requests they belong to.
LEMMA RunFacts ==
    /\ \A x \in Run : x[1] \in Request /\ x \in RunsOf(x[1])
    /\ \A t \in Request : /\ RunsOf(t) \subseteq Run /\ <<t, 1>> \in RunsOf(t)
                           /\ \A x \in RunsOf(t) : x[1] = t
    /\ Code = Run /\ \A t \in Request : CodesOf(t) = RunsOf(t)
<1>1. \A t \in Request : Tries[t] \in Nat \ {0}
  BY VerificationAssumption
<1>2. \A t \in Request : <<t, 1>> \in RunsOf(t) /\ \A x \in RunsOf(t) : x[1] = t
  BY <1>1 DEF RunsOf
<1>3. \A t \in Request : RunsOf(t) \subseteq Run
  BY DEF Run
<1>4. \A x \in Run : x[1] \in Request /\ x \in RunsOf(x[1])
  BY <1>2 DEF Run
<1> QED
  BY <1>2, <1>3, <1>4 DEF Code, CodesOf

LEMMA CodesAreRuns == \A t \in Request : CodesOf(t) \subseteq Code
BY DEF CodesOf, Code, Run

LEMMA MaxRetriesIsNat == MaxRetries \in Nat
BY VerificationAssumption

\* Handler r goes on with locals l.
Moves(r, p, l) ==
    /\ pc' = [pc EXCEPT ![r] = p]
    /\ local' = [local EXCEPT ![r] = l]

AccountsStay ==
    /\ account' \in [Address -> Account \cup {None}]
    /\ \A a \in Address : Exists(a) => Exists(a)'

LEMMA MoveType ==
    ASSUME TypeInv, NEW r \in Request, NEW p \in HandlerPC, NEW l \in Local,
           Moves(r, p, l), AccountsStay, ReadyAt(p, l)'
    PROVE  /\ pc' \in [Request -> HandlerPC] /\ local' \in [Request -> Local]
           /\ Ready'
<1>1. pc \in [Request -> HandlerPC] /\ local \in [Request -> Local]
  BY DEF TypeInv, TypeOK
<1>2. Ready'
  <2> SUFFICES ASSUME NEW s \in Request PROVE ReadyAt(pc[s], local[s])'
    BY DEF Ready
  <2>1. CASE s = r
    <3>1. pc'[s] = p /\ local'[s] = l
      BY <1>1, <2>1 DEF Moves
    <3> QED
      BY <3>1 DEF ReadyAt
  <2>2. CASE s # r
    <3>1. pc'[s] = pc[s] /\ local'[s] = local[s]
      BY <1>1, <2>2 DEF Moves
    <3>2. ReadyAt(pc[s], local[s])
      BY DEF TypeInv, Ready
    <3> QED
      BY <3>1, <3>2 DEF ReadyAt, AccountsStay
  <2> QED
    BY <2>1, <2>2
<1> QED
  BY <1>1, <1>2 DEF Moves

\* A step of a handler that queues no task.
LEMMA HandlerType ==
    ASSUME TypeInv, NEW r \in Request, pc[r] \notin Ended,
           NEW p \in HandlerPC, NEW l \in Local, Moves(r, p, l), AccountsStay,
           ReadyAt(p, l)', code' \in [Code -> CodeStatus], UNCHANGED <<email, task>>
    PROVE  TypeInv'
<1>1. /\ pc' \in [Request -> HandlerPC] /\ local' \in [Request -> Local]
      /\ Ready'
  BY MoveType
<1>2. TaskIsLast'
  BY DEF TypeInv, TypeOK, TaskIsLast, Moves, task
<1>3. TypeOK'
  BY <1>1 DEF TypeInv, TypeOK, AccountsStay, task, history
<1> QED
  BY <1>1, <1>2, <1>3 DEF TypeInv

LEMMA LocalOfType ==
    ASSUME NEW kind \in {"none", "sign up", "resend", "verify"},
           NEW a \in Address \cup {None}, NEW n \in Name \cup {None},
           NEW c \in Code \cup {None}, NEW verified \in SUBSET Address,
           NEW spent \in SUBSET Code
    PROVE  LocalOf(kind, a, n, c, verified, spent) \in Local
BY DEF LocalOf, Local

Blank(l) == l.retired = {} /\ l.verified = {} /\ l.spent = {}

\* Refusals and steps to the next call with a target.
LEMMA MoveForms ==
    ASSUME TypeInv, NEW r \in Request
    PROVE  /\ local[r] \in Local
           /\ \A p \in HandlerPC : GoTo(r, p) /\ UNCHANGED local => Moves(r, p, local[r])
           /\ \A p \in HandlerPC : GoTo(r, p) /\ Forget(r) =>
                 \E l \in Local : Moves(r, p, l) /\ Blank(l)
           /\ \A p \in HandlerPC, a \in Address : Target(r, a, p) =>
                 /\ [local[r] EXCEPT !.target = a] \in Local
                 /\ Moves(r, p, [local[r] EXCEPT !.target = a])
<1>1. local \in [Request -> Local] /\ local[r] \in Local
  BY DEF TypeInv, TypeOK
<1>2. \A p \in HandlerPC : GoTo(r, p) /\ UNCHANGED local => Moves(r, p, local[r])
  BY <1>1 DEF GoTo, Moves
<1>3. ASSUME NEW p \in HandlerPC, GoTo(r, p), Forget(r)
      PROVE  \E l \in Local : Moves(r, p, l) /\ Blank(l)
  <2> DEFINE l == NoLocal
  <2>1. l \in Local
    BY LocalOfType DEF NoLocal
  <2>2. Moves(r, p, l) /\ Blank(l)
    BY <1>3 DEF GoTo, Forget, Moves, NoLocal, LocalOf, Blank
  <2> HIDE DEF l
  <2> QED
    BY <2>1, <2>2
<1>4. ASSUME NEW p \in HandlerPC, NEW a \in Address, Target(r, a, p)
      PROVE  /\ [local[r] EXCEPT !.target = a] \in Local
             /\ Moves(r, p, [local[r] EXCEPT !.target = a])
  BY <1>1, <1>4 DEF Target, GoTo, Moves, Local
<1> QED
  BY <1>1, <1>2, <1>3, <1>4

-----------------------------------------------------------------------------
(* What the handlers and the tasks know of codes, mails and accounts.      *)

KnownAt(p, l) ==
    /\ p = "save verified" => /\ code[l.code] # "none" /\ Owner(l.code) = l.target
                              /\ l.code \notin l.spent
    /\ \A c \in l.retired : code[c] # "none" /\ (p = "answered" => code[c] = "used")
    /\ \A c \in l.spent : code[c] = "used"
    /\ l.verified \subseteq VerifiedAddresses
    /\ p = "save password" => l.target \notin l.verified

Known == \A r \in Request : KnownAt(pc[r], local[r])

Sending == {"mark", "deliver", "store"}
Active == InProgress \cup {"queued"}
\* Without an overlap a task has one run at a time.
Single(t) == RunsOf(t) \cap doubled = {}

StoredIsOver ==
    \A x \in Run : /\ code[x] # "none" => step[x] = "over" \/ x \in unsure
                   /\ x \in unsure => step[x] \in {"fail", "over"}
SentIsMailed ==
    \A x \in Run : /\ step[x] \in Sending => x \in mailed
                   /\ step[x] \in {"none", "queued"} => x \notin mailed
StoredIsMailed == \A c \in Code : code[c] # "none" => c \in mailed
LateIsNotSent ==
    \A x \in late : /\ x[1] \in marked /\ x \notin mailed
                    /\ step[x] \notin Sending \cup {"send"}
OneRun ==
    \A t \in Request : Single(t) =>
        \A x, y \in RunsOf(t) : step[x] \in Active /\ step[y] \in Active => x = y
ActiveHasNoCode ==
    \A t \in Request : Single(t) =>
        \A x \in RunsOf(t) : step[x] \in Active =>
            email[t] # "failed" /\ \A c \in RunsOf(t) \ unsure : code[c] = "none"

TaskInv ==
    /\ StoredIsOver /\ SentIsMailed /\ StoredIsMailed /\ LateIsNotSent
    /\ OneRun /\ ActiveHasNoCode

Inv == TypeInv /\ Known /\ TaskInv /\ VerifiedByOwnMail /\ FailedLeftNoCode

\* What a step that changes no run has to leave alone.
LEMMA TasksStay ==
    ASSUME Inv, \A c \in Code : code'[c] = "none" <=> code[c] = "none",
           UNCHANGED <<email, task>>
    PROVE  TaskInv' /\ FailedLeftNoCode'
<1>1. \A t \in Request : Single(t)' = Single(t)
  BY DEF Single, task, history
<1>2. StoredIsOver' /\ SentIsMailed' /\ StoredIsMailed'
  BY RunFacts DEF Inv, TaskInv, StoredIsOver, SentIsMailed, StoredIsMailed, task, history
<1>3. LateIsNotSent'
  BY DEF Inv, TaskInv, LateIsNotSent, task, history
<1>4. OneRun'
  BY <1>1 DEF Inv, TaskInv, OneRun, task
<1>5. ActiveHasNoCode'
  BY <1>1, RunFacts DEF Inv, TaskInv, ActiveHasNoCode, task, history
<1>6. FailedLeftNoCode'
  <2> SUFFICES ASSUME NEW t \in Request, email'[t] = "failed",
                      RunsOf(t) \cap doubled' = {}, NEW c \in CodesOf(t) \ unsure'
               PROVE  code'[c] = "none"
    BY DEF FailedLeftNoCode
  <2>1. UNCHANGED <<doubled, unsure>> /\ email'[t] = email[t]
    BY DEF task, history
  <2>2. c \in Code
    BY CodesAreRuns
  <2>3. code[c] = "none"
    BY <2>1 DEF Inv, FailedLeftNoCode
  <2> QED
    BY <2>2, <2>3
<1> QED
  BY <1>2, <1>3, <1>4, <1>5, <1>6 DEF TaskInv

LEMMA InvInit == Init => Inv
<1> SUFFICES ASSUME Init PROVE Inv
  OBVIOUS
<1>1. \A r \in Request : local[r] \in Local /\ Blank(local[r])
  <2>1. NoLocal \in Local
    BY LocalOfType DEF NoLocal
  <2> QED
    BY <2>1 DEF Init, NoLocal, LocalOf, Blank
<1>2. TypeInv
  <2>1. TypeOK
    <3>1. account \in [Address -> Account \cup {None}] /\ to \in [Request -> Address \cup {None}]
      BY DEF Init
    <3>2. code \in [Code -> CodeStatus] /\ email \in [Request -> EmailStatus]
      BY DEF Init, CodeStatus, EmailStatus
    <3>3. pc \in [Request -> HandlerPC] /\ step \in [Run -> TaskPC]
      BY DEF Init, HandlerPC, TaskPC
    <3>4. local \in [Request -> Local]
      BY <1>1 DEF Init
    <3>5. retries \in [Run -> 0 .. MaxRetries]
      BY MaxRetriesIsNat DEF Init
    <3> QED
      BY <3>1, <3>2, <3>3, <3>4, <3>5 DEF Init, TypeOK
  <2>2. TaskIsLast
    BY RunFacts DEF Init, TaskIsLast
  <2> QED
    BY <2>1, <2>2 DEF Init, TypeInv, Ready, ReadyAt, Ended
<1>3. Known
  BY <1>1 DEF Init, Known, KnownAt, Blank
<1>4. TaskInv
  BY RunFacts DEF Init, TaskInv, StoredIsOver, SentIsMailed, StoredIsMailed, LateIsNotSent,
     OneRun, ActiveHasNoCode, Sending, Active, InProgress
<1>5. VerifiedByOwnMail /\ FailedLeftNoCode
  BY DEF Init, VerifiedByOwnMail, VerifiedAddresses, Exists, FailedLeftNoCode
<1> QED
  BY <1>2, <1>3, <1>4, <1>5 DEF Inv

\* A step of a handler that verifies nobody and writes no code and no mail.
LEMMA HandlerKeeps ==
    ASSUME Inv, NEW r \in Request, pc[r] \notin Ended,
           NEW p \in HandlerPC, NEW l \in Local, Moves(r, p, l), AccountsStay,
           VerifiedAddresses' = VerifiedAddresses,
           ReadyAt(p, l)', KnownAt(p, l), UNCHANGED <<code, email, task>>
    PROVE  Inv'
<1>1. TypeInv'
  <2>1. code' \in [Code -> CodeStatus]
    BY DEF Inv, TypeInv, TypeOK
  <2> QED
    BY <2>1, HandlerType DEF Inv
<1>2. Known'
  <2> SUFFICES ASSUME NEW s \in Request PROVE KnownAt(pc[s], local[s])'
    BY DEF Known
  <2>1. pc \in [Request -> HandlerPC] /\ local \in [Request -> Local]
    BY DEF Inv, TypeInv, TypeOK
  <2>2. KnownAt(pc'[s], local'[s])
    BY <2>1 DEF Moves, Inv, Known
  <2> QED
    BY <2>2 DEF KnownAt, Owner, task
<1>3. TaskInv' /\ FailedLeftNoCode'
  BY TasksStay
<1>4. VerifiedByOwnMail'
  BY DEF Inv, VerifiedByOwnMail, Owner, task
<1> QED
  BY <1>1, <1>2, <1>3, <1>4 DEF Inv

\* A step of a handler that writes nothing at all.
LEMMA ReadKeeps ==
    ASSUME Inv, NEW r \in Request, pc[r] \notin Ended,
           NEW p \in HandlerPC, NEW l \in Local, Moves(r, p, l),
           ReadyAt(p, l), KnownAt(p, l), UNCHANGED <<tables, task>>
    PROVE  Inv'
<1>1. AccountsStay /\ ReadyAt(p, l)' /\ VerifiedAddresses' = VerifiedAddresses
  BY DEF Inv, TypeInv, TypeOK, AccountsStay, ReadyAt, Exists, VerifiedAddresses, tables
<1> QED
  BY <1>1, HandlerKeeps DEF tables

LEMMA RefuseKeeps ==
    ASSUME Inv, NEW r \in Request, pc[r] \notin Ended, Refuse(r), UNCHANGED <<tables, task>>
    PROVE  Inv'
<1>1. PICK l \in Local : Moves(r, "refused", l) /\ Blank(l)
  BY MoveForms DEF Refuse, HandlerPC, Inv
<1>2. ReadyAt("refused", l) /\ KnownAt("refused", l) /\ "refused" \in HandlerPC
  BY <1>1 DEF ReadyAt, KnownAt, HandlerPC, Blank
<1> QED
  BY <1>1, <1>2, ReadKeeps

LEMMA ReceiveKeeps ==
    ASSUME Inv, NEW r \in Request, NEW a \in Address
    PROVE  /\ \A n \in Name : SignUp(r, a, n) => Inv'
           /\ Resend(r, a) => Inv'
           /\ \A c \in Code : Verify(r, a, c) => Inv'
<1>1. ASSUME NEW kind \in {"sign up", "resend", "verify"}, NEW n \in Name \cup {None},
             NEW c \in Code \cup {None}, NEW first \in {"find email", "find", "find code"},
             NEW spent \in {{}, Spent},
             Receive(r, first, LocalOf(kind, a, n, c, VerifiedAddresses, spent)),
             first = "find email" => n \in Name, first = "find code" => c \in Code
      PROVE  Inv'
  <2> DEFINE l == LocalOf(kind, a, n, c, VerifiedAddresses, spent)
  <2>0. spent \subseteq Code /\ \A k \in spent : code[k] = "used"
    <3>1. \A s \in Request : /\ local[s].retired \subseteq Code
                              /\ KnownAt(pc[s], local[s])
      BY DEF Inv, TypeInv, TypeOK, Local, Known
    <3>2. \A s \in Request : pc[s] = "answered" =>
              \A k \in local[s].retired : code[k] = "used"
      BY <3>1 DEF KnownAt
    <3>3. \A k \in Spent : \/ k \in Code /\ code[k] = "used"
                           \/ \E s \in Request : pc[s] = "answered" /\ k \in local[s].retired
      BY DEF Spent
    <3> QED
      BY <3>1, <3>2, <3>3
  <2>1. l \in Local
    BY <2>0, LocalOfType DEF VerifiedAddresses
  <2>2. /\ l.address = a /\ l.name = n /\ l.code = c /\ l.retired = {}
        /\ l.verified = VerifiedAddresses /\ l.spent = spent
    BY DEF LocalOf
  <2>3. Moves(r, first, l) /\ pc[r] = "new" /\ UNCHANGED <<tables, task>>
    BY <1>1 DEF Receive, GoTo, Moves
  <2> HIDE DEF l
  <2>4. ReadyAt(first, l) /\ KnownAt(first, l)
    BY <1>1, <2>0, <2>2 DEF ReadyAt, KnownAt
  <2> QED
    BY <2>1, <2>3, <2>4, ReadKeeps DEF HandlerPC, Ended
<1> QED
  BY <1>1 DEF SignUp, Resend, Verify

\* The locals of a handler that goes on with a target.
LEMMA TargetKeeps ==
    ASSUME Inv, NEW r \in Request, pc[r] \notin Ended, NEW a \in Address,
           NEW p \in {"save password", "create user", "retire", "save verified"},
           Target(r, a, p), UNCHANGED <<tables, task>>,
           p = "save password" => Exists(a) /\ a \notin VerifiedAddresses,
           p = "create user" => local[r].address \in Address /\ local[r].name \in Name,
           p = "save verified" => /\ Exists(a) /\ local[r].code \in Code
                                  /\ Matches(local[r].code, a)
    PROVE  Inv'
<1> DEFINE l == [local[r] EXCEPT !.target = a]
<1>1. l \in Local /\ Moves(r, p, l) /\ p \in HandlerPC
  <2>1. p \in HandlerPC /\ TypeInv
    BY DEF HandlerPC, Inv
  <2> QED
    BY <2>1, MoveForms
<1>2. /\ l.target = a /\ l.address = local[r].address /\ l.name = local[r].name
      /\ l.code = local[r].code /\ l.retired = local[r].retired
      /\ l.verified = local[r].verified /\ l.spent = local[r].spent
  BY ZenonT(40) DEF Inv, TypeInv, TypeOK, Local
<1> HIDE DEF l
<1>3. ReadyAt(p, l)
  BY <1>2 DEF ReadyAt
<1>4. KnownAt(p, l)
  <2>1. KnownAt(pc[r], local[r])
    BY DEF Inv, Known
  <2>2. p = "save verified" => code[local[r].code] = "valid" /\ Owner(local[r].code) = a
    BY DEF Matches
  <2> QED
    BY <1>2, <2>1, <2>2 DEF KnownAt
<1> QED
  BY <1>1, <1>3, <1>4, ReadKeeps

LEMMA FindKeeps ==
    ASSUME Inv, NEW r \in Request,
           \/ FindEmail(r) \/ FindName(r) \/ FindUnverified(r) \/ Retire(r) \/ FindCode(r)
    PROVE  Inv'
<1>1. pc[r] \notin Ended /\ UNCHANGED <<tables, task>>
  BY DEF FindEmail, FindName, FindUnverified, Retire, FindCode, Ended
<1>2. ReadyAt(pc[r], local[r]) /\ KnownAt(pc[r], local[r]) /\ local[r] \in Local
  BY DEF Inv, TypeInv, TypeOK, Ready, Known
<1>3. CASE Refuse(r)
  BY <1>1, <1>3, RefuseKeeps
<1>4. CASE FindEmail(r) /\ ~Refuse(r)
  <2>1. local[r].address \in Address /\ local[r].name \in Name
    BY <1>2, <1>4 DEF ReadyAt, FindEmail
  <2>2. CASE GoTo(r, "find name") /\ UNCHANGED local
    <3>1. Moves(r, "find name", local[r]) /\ "find name" \in HandlerPC
      BY <2>2, MoveForms DEF HandlerPC, Inv
    <3>2. ReadyAt("find name", local[r]) /\ KnownAt("find name", local[r])
      BY <1>2, <1>4, <2>1 DEF ReadyAt, KnownAt, FindEmail
    <3> QED
      BY <1>1, <1>2, <3>1, <3>2, ReadKeeps
  <2>3. CASE /\ Exists(local[r].address) /\ ~account[local[r].address].verified
             /\ Target(r, local[r].address, "save password")
    BY <1>1, <2>1, <2>3, TargetKeeps DEF VerifiedAddresses
  <2> QED
    BY <1>4, <2>2, <2>3 DEF FindEmail
<1>5. CASE FindName(r) /\ ~Refuse(r)
  <2>1. local[r].address \in Address /\ local[r].name \in Name
    BY <1>2, <1>5 DEF ReadyAt, FindName
  <2>2. CASE Target(r, local[r].address, "create user")
    BY <1>1, <2>1, <2>2, TargetKeeps
  <2>3. ASSUME NEW b \in Address, Exists(b), ~account[b].verified,
               Target(r, b, "save password")
        PROVE  Inv'
    BY <1>1, <2>3, TargetKeeps DEF VerifiedAddresses
  <2> QED
    BY <1>5, <2>2, <2>3 DEF FindName
<1>6. CASE FindUnverified(r) /\ ~Refuse(r)
  <2>1. local[r].address \in Address /\ Target(r, local[r].address, "retire")
    BY <1>2, <1>6 DEF ReadyAt, FindUnverified
  <2> QED
    BY <1>1, <2>1, TargetKeeps
<1>7. CASE Retire(r) /\ ~Refuse(r)
  <2> DEFINE l == [local[r] EXCEPT !.retired =
                       {c \in Code : code[c] = "valid" /\ Owner(c) = local[r].target}]
  <2>1. Moves(r, "create email", l) /\ "create email" \in HandlerPC
    <3>1. /\ GoTo(r, "create email")
          /\ local' = [local EXCEPT ![r].retired =
                {c \in Code : code[c] = "valid" /\ Owner(c) = local[r].target}]
      BY <1>7 DEF Retire
    <3> QED
      BY <3>1 DEF GoTo, Moves, HandlerPC, Inv, TypeInv, TypeOK
  <2>2. /\ l \in Local /\ l.target = local[r].target /\ l.verified = local[r].verified
        /\ l.spent = local[r].spent /\ \A c \in l.retired : code[c] = "valid"
    BY <1>2 DEF Local
  <2>3. local[r].target \in Address
    BY <1>2, <1>7 DEF ReadyAt, Retire
  <2> HIDE DEF l
  <2>4. ReadyAt("create email", l) /\ KnownAt("create email", l)
    BY <1>2, <2>2, <2>3 DEF ReadyAt, KnownAt
  <2> QED
    BY <1>1, <2>1, <2>2, <2>4, ReadKeeps
<1>8. CASE FindCode(r) /\ ~Refuse(r)
  <2>1. local[r].address \in Address /\ local[r].code \in Code
    BY <1>2, <1>8 DEF ReadyAt, FindCode
  <2>2. /\ Exists(local[r].address) /\ Matches(local[r].code, local[r].address)
        /\ Target(r, local[r].address, "save verified")
    BY <1>8 DEF FindCode
  <2> QED
    BY <1>1, <2>1, <2>2, TargetKeeps
<1> QED
  BY <1>3, <1>4, <1>5, <1>6, <1>7, <1>8

LEMMA SaveKeeps ==
    ASSUME Inv, NEW r \in Request, SavePassword(r) \/ CreateUser(r)
    PROVE  Inv'
<1>1. pc[r] \notin Ended /\ UNCHANGED <<code, email, task>>
  BY DEF SavePassword, CreateUser, Ended
<1>2. ReadyAt(pc[r], local[r]) /\ KnownAt(pc[r], local[r]) /\ local[r] \in Local
  BY DEF Inv, TypeInv, TypeOK, Ready, Known
<1>3. account \in [Address -> Account \cup {None}] /\ pc \in [Request -> HandlerPC]
  BY DEF Inv, TypeInv, TypeOK
<1>4. CASE Refuse(r) /\ UNCHANGED account
  BY <1>1, <1>4, RefuseKeeps DEF tables
<1>5. ASSUME (GoTo(r, "create email") /\ UNCHANGED local) \/ Refuse(r), AccountsStay,
             VerifiedAddresses' = VerifiedAddresses, local[r].target \in Address
      PROVE  Inv'
  <2>1. CASE GoTo(r, "create email") /\ UNCHANGED local
    <3>1. PICK l \in Local : l = local[r]
      BY <1>2
    <3>2. Moves(r, "create email", l) /\ "create email" \in HandlerPC
      BY <2>1, <3>1, MoveForms DEF HandlerPC, Inv
    <3>3. l.target \in Address /\ KnownAt("create email", l)
      BY <1>2, <1>5, <3>1 DEF KnownAt
    <3>4. ReadyAt("create email", l)'
      BY <3>3 DEF ReadyAt
    <3> QED
      BY <1>1, <1>5, <3>2, <3>3, <3>4, HandlerKeeps
  <2>2. CASE Refuse(r)
    <3>1. PICK l \in Local : Moves(r, "refused", l) /\ Blank(l)
      BY <2>2, MoveForms DEF Refuse, HandlerPC, Inv
    <3>2. ReadyAt("refused", l)' /\ KnownAt("refused", l) /\ "refused" \in HandlerPC
      BY <3>1 DEF ReadyAt, KnownAt, HandlerPC, Blank
    <3> QED
      BY <1>1, <1>5, <3>1, <3>2, HandlerKeeps
  <2> QED
    BY <1>5, <2>1, <2>2
<1>6. CASE /\ SavePassword(r)
           /\ account' = [account EXCEPT ![local[r].target].password = r]
  <2> DEFINE a == local[r].target
  <2>1. a \in Address /\ Exists(a) /\ account[a] \in Account
    BY <1>2, <1>3, <1>6 DEF ReadyAt, SavePassword, Exists
  <2>2. /\ account'[a] \in Account /\ account'[a].verified = account[a].verified
        /\ \A b \in Address : b # a => account'[b] = account[b]
    BY <1>3, <1>6, <2>1 DEF Account
  <2>3. account' \in [Address -> Account \cup {None}] /\ account'[a] # None
    BY <1>3, <1>6, <2>1, <2>2, VerificationAssumption
  <2>4. (GoTo(r, "create email") /\ UNCHANGED local) \/ Refuse(r)
    BY <1>6 DEF SavePassword
  <2> HIDE DEF a
  <2>5. AccountsStay
    BY <2>1, <2>2, <2>3 DEF AccountsStay, Exists
  <2>6. VerifiedAddresses' = VerifiedAddresses
    <3>1. \A b \in Address : b \in VerifiedAddresses' <=> b \in VerifiedAddresses
      <4> TAKE b \in Address
      <4>1. CASE b = a
        BY <2>1, <2>2, <2>3, <4>1 DEF VerifiedAddresses, Exists
      <4>2. CASE b # a
        BY <2>2, <4>2 DEF VerifiedAddresses, Exists
      <4> QED
        BY <4>1, <4>2
    <3> QED
      BY <3>1 DEF VerifiedAddresses
  <2> QED
    BY <1>5, <2>1, <2>4, <2>5, <2>6 DEF a
<1>7. CASE /\ CreateUser(r) /\ ~Exists(local[r].address)
           /\ (GoTo(r, "create email") /\ UNCHANGED local) \/ Refuse(r)
           /\ account' = [account EXCEPT ![local[r].address] =
                 [name |-> local[r].name, verified |-> FALSE, password |-> r]]
  <2> DEFINE a == local[r].address
  <2> DEFINE row == [name |-> local[r].name, verified |-> FALSE, password |-> r]
  <2>1. a \in Address /\ local[r].name \in Name /\ local[r].target \in Address
    BY <1>2, <1>7 DEF ReadyAt, CreateUser
  <2>2. row \in Account /\ row.verified = FALSE
    BY <2>1 DEF Account
  <2>3. /\ account'[a] = row /\ ~Exists(a)
        /\ \A b \in Address : b # a => account'[b] = account[b]
        /\ account' \in [Address -> Account \cup {None}]
    BY <1>3, <1>7, <2>1, <2>2
  <2> HIDE DEF a, row
  <2>4. AccountsStay
    BY <2>3 DEF AccountsStay, Exists
  <2>5. VerifiedAddresses' = VerifiedAddresses
    <3>1. \A b \in Address : b \in VerifiedAddresses' <=> b \in VerifiedAddresses
      BY <2>2, <2>3 DEF VerifiedAddresses, Exists
    <3> QED
      BY <3>1 DEF VerifiedAddresses
  <2> QED
    BY <1>5, <1>7, <2>1, <2>4, <2>5
<1>8. SavePassword(r) /\ UNCHANGED account /\ pc'[r] = "refused" => Refuse(r)
  BY <1>3 DEF SavePassword, GoTo
<1> QED
  BY <1>4, <1>6, <1>7, <1>8 DEF SavePassword, CreateUser

\* CreateEmail retires codes and queues the first run of a task.
LEMMA CreateEmailKeeps ==
    ASSUME Inv, NEW r \in Request, CreateEmail(r)
    PROVE  Inv'
<1>1. /\ pc[r] = "create email" /\ pc[r] \notin Ended
      /\ UNCHANGED <<account, retries, marked, mailed, history>>
      /\ UNCHANGED <<broken, doubled, unsure, late>>
  BY DEF CreateEmail, Ended, history
<1>2. ReadyAt(pc[r], local[r]) /\ KnownAt(pc[r], local[r]) /\ local[r] \in Local
  BY DEF Inv, TypeInv, TypeOK, Ready, Known
<1>3. local[r].target \in Address /\ \A x \in RunsOf(r) : step[x] = "none"
  BY <1>1, <1>2 DEF Inv, TypeInv, TaskIsLast, ReadyAt
<1>4. CASE Refuse(r) /\ UNCHANGED <<email, code, to, step>>
  BY <1>1, <1>4, RefuseKeeps DEF tables, task
<1>5. CASE /\ email' = [email EXCEPT ![r] = "pending"]
           /\ code' = [c \in Code |-> IF c \in local[r].retired THEN "used" ELSE code[c]]
           /\ Answer(r)
  <2>1. /\ step' = step \/ step' = [step EXCEPT ![<<r, 1>>] = "queued"]
        /\ to' = to \/ to' = [to EXCEPT ![r] = local[r].target]
    BY <1>5 DEF Answer, Queue
  <2>2. /\ code' \in [Code -> CodeStatus] /\ email' \in [Request -> EmailStatus]
        /\ to' \in [Request -> Address \cup {None}] /\ step' \in [Run -> TaskPC]
    BY <1>3, <1>5, <2>1 DEF Inv, TypeInv, TypeOK, CodeStatus, EmailStatus, TaskPC
  <2>3. /\ \A x \in Run : x[1] # r => step'[x] = step[x]
        /\ \A x \in RunsOf(r) : /\ step'[x] \in {"none", "queued"}
                                /\ step'[x] = "queued" => x = <<r, 1>>
    <3>1. step \in [Run -> TaskPC] /\ RunsOf(r) \subseteq Run /\ <<r, 1>>[1] = r
      BY RunFacts DEF Inv, TypeInv, TypeOK
    <3> QED
      BY <1>3, <2>1, <3>1
  <2>4. /\ \A s \in Request : s # r => to'[s] = to[s] /\ email'[s] = email[s]
        /\ email'[r] = "pending"
    BY <1>5, <2>1 DEF Inv, TypeInv, TypeOK
  <2>5. \A c \in Code : /\ code'[c] = "none" <=> code[c] = "none"
                        /\ code[c] = "used" => code'[c] = "used"
                        /\ c \in local[r].retired => code'[c] = "used"
    BY <1>2, <1>5 DEF KnownAt
  <2>6. \A c \in RunsOf(r) : code[c] = "none" /\ c \notin unsure
    BY <1>3, RunFacts DEF Inv, TaskInv, StoredIsOver
  <2>7. \A c \in Code : code[c] # "none" => Owner(c)' = Owner(c)
    BY <2>4, <2>6, RunFacts DEF Owner
  <2>8. PICK p \in {"answered", "refused"}, l \in Local :
          /\ Moves(r, p, l) /\ l.retired \subseteq local[r].retired
          /\ l.verified \subseteq local[r].verified /\ l.spent \subseteq local[r].spent
    <3>1. CASE GoTo(r, "answered") /\ UNCHANGED local
      BY <1>2, <3>1, MoveForms DEF HandlerPC, Inv
    <3>2. CASE Refuse(r)
      BY <3>2, MoveForms DEF Refuse, HandlerPC, Inv, Blank
    <3> QED
      BY <1>5, <3>1, <3>2 DEF Answer
  <2>9. AccountsStay /\ ReadyAt(p, l)' /\ VerifiedAddresses' = VerifiedAddresses
    BY <1>1 DEF Inv, TypeInv, TypeOK, AccountsStay, ReadyAt, Exists, VerifiedAddresses
  <2>10. TypeInv'
    <3>1. /\ pc' \in [Request -> HandlerPC] /\ local' \in [Request -> Local] /\ Ready'
      BY <2>8, <2>9, MoveType DEF HandlerPC, Inv
    <3>2. TypeOK'
      BY <1>1, <2>2, <2>9, <3>1 DEF Inv, TypeInv, TypeOK, AccountsStay
    <3>3. TaskIsLast'
      <4> SUFFICES ASSUME NEW s \in Request, pc'[s] \notin Ended, NEW x \in RunsOf(s)
                   PROVE  step'[x] = "none"
        BY DEF TaskIsLast
      <4>1. s # r /\ pc'[s] = pc[s]
        BY <2>8 DEF Moves, Inv, TypeInv, TypeOK, Ended
      <4>2. x \in Run /\ x[1] = s
        BY RunFacts
      <4> QED
        BY <2>3, <4>1, <4>2 DEF Inv, TypeInv, TaskIsLast
    <3> QED
      BY <3>1, <3>2, <3>3 DEF TypeInv
  <2>11. Known'
    <3> SUFFICES ASSUME NEW s \in Request PROVE KnownAt(pc[s], local[s])'
      BY DEF Known
    <3>1. pc \in [Request -> HandlerPC] /\ local \in [Request -> Local]
      BY DEF Inv, TypeInv, TypeOK
    <3>2. CASE s = r
      <4>1. /\ pc'[s] = p /\ local'[s] = l
            /\ l.retired \subseteq Code /\ l.spent \subseteq Code
        BY <2>8, <3>1, <3>2 DEF Moves, Local
      <4> QED
        BY <1>2, <2>5, <2>8, <2>9, <4>1 DEF KnownAt
    <3>3. CASE s # r
      <4>1. /\ pc'[s] = pc[s] /\ local'[s] = local[s]
            /\ local[s].retired \subseteq Code /\ local[s].spent \subseteq Code
            /\ KnownAt(pc[s], local[s]) /\ ReadyAt(pc[s], local[s])
        BY <2>8, <3>1, <3>3 DEF Moves, Local, Inv, Known, TypeInv, Ready
      <4> QED
        BY <2>5, <2>7, <2>9, <4>1 DEF KnownAt, ReadyAt
    <3> QED
      BY <3>2, <3>3
  <2>12. TaskInv'
    <3>0. \A x \in Run : x[1] = r => x \in RunsOf(r)
      BY RunFacts
    <3>1. StoredIsOver'
      <4> SUFFICES ASSUME NEW x \in Run
                   PROVE  /\ code'[x] # "none" => step'[x] = "over" \/ x \in unsure
                          /\ x \in unsure => step'[x] \in {"fail", "over"}
        BY <1>1 DEF StoredIsOver
      <4>1. CASE x[1] = r
        BY <2>5, <2>6, <3>0, <4>1, RunFacts
      <4>2. CASE x[1] # r
        BY <2>3, <2>5, <4>2, RunFacts DEF Inv, TaskInv, StoredIsOver
      <4> QED
        BY <4>1, <4>2
    <3>2. SentIsMailed'
      <4> SUFFICES ASSUME NEW x \in Run
                   PROVE  /\ step'[x] \in Sending => x \in mailed
                          /\ step'[x] \in {"none", "queued"} => x \notin mailed
        BY <1>1 DEF SentIsMailed
      <4>1. CASE x[1] = r
        BY <1>3, <2>3, <3>0, <4>1 DEF Inv, TaskInv, SentIsMailed, Sending
      <4>2. CASE x[1] # r
        BY <2>3, <4>2 DEF Inv, TaskInv, SentIsMailed
      <4> QED
        BY <4>1, <4>2
    <3>3. StoredIsMailed'
      BY <1>1, <2>5 DEF Inv, TaskInv, StoredIsMailed
    <3>4. LateIsNotSent'
      <4> SUFFICES ASSUME NEW x \in late PROVE step'[x] \notin Sending \cup {"send"}
        BY <1>1 DEF Inv, TaskInv, LateIsNotSent
      <4>1. x \in Run /\ step[x] \notin Sending \cup {"send"}
        BY DEF Inv, TypeInv, TypeOK, TaskInv, LateIsNotSent
      <4> QED
        BY <2>3, <3>0, <4>1 DEF Sending
    <3>5. OneRun'
      <4> SUFFICES ASSUME NEW t \in Request, Single(t), NEW x \in RunsOf(t), NEW y \in RunsOf(t),
                          step'[x] \in Active, step'[y] \in Active
                   PROVE  x = y
        BY <1>1 DEF OneRun, Single
      <4>1. CASE t = r
        BY <2>3, <4>1 DEF Active, InProgress
      <4>2. CASE t # r
        BY <2>3, <4>2, RunFacts DEF Inv, TaskInv, OneRun
      <4> QED
        BY <4>1, <4>2
    <3>6. ActiveHasNoCode'
      <4> SUFFICES ASSUME NEW t \in Request, Single(t), NEW x \in RunsOf(t), step'[x] \in Active
                   PROVE  email'[t] # "failed" /\ \A c \in RunsOf(t) \ unsure : code'[c] = "none"
        BY <1>1 DEF ActiveHasNoCode, Single
      <4>1. CASE t = r
        BY <2>4, <2>5, <2>6, <4>1, RunFacts
      <4>2. CASE t # r
        <5>1. step[x] \in Active
          BY <2>3, <4>2, RunFacts
        <5>2. email[t] # "failed" /\ \A c \in RunsOf(t) \ unsure : code[c] = "none"
          BY <5>1 DEF Inv, TaskInv, ActiveHasNoCode
        <5> QED
          BY <2>4, <2>5, <4>2, <5>2, RunFacts
      <4> QED
        BY <4>1, <4>2
    <3> QED
      BY <3>1, <3>2, <3>3, <3>4, <3>5, <3>6 DEF TaskInv
  <2>13. VerifiedByOwnMail'
    BY <1>1, <2>5, <2>7, <2>9 DEF Inv, VerifiedByOwnMail
  <2>14. FailedLeftNoCode'
    <3> SUFFICES ASSUME NEW t \in Request, email'[t] = "failed",
                        RunsOf(t) \cap doubled = {}, NEW c \in CodesOf(t) \ unsure
                 PROVE  code'[c] = "none"
      BY <1>1 DEF FailedLeftNoCode
    <3>1. email[t] = "failed"
      BY <2>4
    <3>2. c \in Code
      BY CodesAreRuns
    <3>3. code[c] = "none"
      BY <3>1 DEF Inv, FailedLeftNoCode
    <3> QED
      BY <2>5, <3>2, <3>3
  <2> QED
    BY <2>10, <2>11, <2>12, <2>13, <2>14 DEF Inv
<1> QED
  BY <1>4, <1>5 DEF CreateEmail

LEMMA SaveVerifiedKeeps ==
    ASSUME Inv, NEW r \in Request, SaveVerified(r)
    PROVE  Inv'
<1>1. pc[r] = "save verified" /\ pc[r] \notin Ended /\ UNCHANGED <<email, task>>
  BY DEF SaveVerified, Ended
<1>2. ReadyAt(pc[r], local[r]) /\ KnownAt(pc[r], local[r]) /\ local[r] \in Local
  BY DEF Inv, TypeInv, TypeOK, Ready, Known
<1>3. CASE pc'[r] = "refused" /\ UNCHANGED <<account, code>>
  <2>1. Refuse(r)
    BY <1>3 DEF SaveVerified, Refuse, GoTo, Inv, TypeInv, TypeOK
  <2> QED
    BY <1>1, <1>3, <2>1, RefuseKeeps DEF tables
<1>4. CASE /\ account' = [account EXCEPT ![local[r].target].verified = TRUE]
           /\ code' = [code EXCEPT ![local[r].code] = "used"]
  <2> DEFINE a == local[r].target
  <2> DEFINE k == local[r].code
  <2>1. /\ a \in Address /\ Exists(a) /\ k \in Code /\ code[k] # "none" /\ Owner(k) = a
        /\ account \in [Address -> Account \cup {None}] /\ account[a] \in Account
        /\ code \in [Code -> CodeStatus]
    BY <1>1, <1>2 DEF ReadyAt, KnownAt, Inv, TypeInv, TypeOK, Exists
  <2>2. /\ account'[a] \in Account /\ account'[a].verified
        /\ \A b \in Address : b # a => account'[b] = account[b]
    BY <1>4, <2>1 DEF Account
  <2>3. account' \in [Address -> Account \cup {None}] /\ account'[a] # None
    BY <1>4, <2>1, <2>2, VerificationAssumption
  <2>4. code'[k] = "used" /\ \A c \in Code : c # k => code'[c] = code[c]
    BY <1>4, <2>1
  <2>5. code' \in [Code -> CodeStatus]
    BY <1>4, <2>1 DEF CodeStatus
  <2> HIDE DEF a, k
  <2>6. AccountsStay
    BY <2>2, <2>3 DEF AccountsStay, Exists
  <2>7. VerifiedAddresses' = VerifiedAddresses \cup {a}
    <3>1. \A b \in Address : b \in VerifiedAddresses' <=> b \in VerifiedAddresses \/ b = a
      BY <2>1, <2>2, <2>3 DEF VerifiedAddresses, Exists
    <3> QED
      BY <2>1, <3>1 DEF VerifiedAddresses
  <2>8. PICK p \in Ended, l \in Local : Moves(r, p, l) /\ Blank(l)
    BY MoveForms DEF SaveVerified, Ended, HandlerPC, Inv
  <2>9. TypeInv'
    <3>1. ReadyAt(p, l)' /\ p \in HandlerPC
      BY DEF ReadyAt, HandlerPC, Ended
    <3> QED
      BY <1>1, <2>5, <2>6, <2>8, <3>1, HandlerType DEF Inv
  <2>10. Known'
    <3> SUFFICES ASSUME NEW s \in Request PROVE KnownAt(pc[s], local[s])'
      BY DEF Known
    <3>1. pc \in [Request -> HandlerPC] /\ local \in [Request -> Local]
      BY DEF Inv, TypeInv, TypeOK
    <3>2. CASE s = r
      <4>1. pc'[s] = p /\ local'[s] = l
        BY <2>8, <3>1, <3>2 DEF Moves
      <4> QED
        BY <2>8, <4>1 DEF KnownAt, Blank, Ended
    <3>3. CASE s # r
      <4>1. /\ pc'[s] = pc[s] /\ local'[s] = local[s]
            /\ local[s].retired \subseteq Code /\ local[s].spent \subseteq Code
            /\ KnownAt(pc[s], local[s]) /\ ReadyAt(pc[s], local[s])
        BY <2>8, <3>1, <3>3 DEF Moves, Local, Inv, Known, TypeInv, Ready
      <4>2. pc[s] = "save password" => a # local[s].target \/ a \notin local[s].verified
        BY <4>1 DEF KnownAt
      <4> QED
        BY <1>1, <2>4, <2>7, <4>1, <4>2 DEF KnownAt, ReadyAt, Owner, task
    <3> QED
      BY <3>2, <3>3
  <2>11. \A c \in Code : code'[c] = "none" <=> code[c] = "none"
    BY <2>1, <2>4
  <2>12. TaskInv' /\ FailedLeftNoCode'
    BY <1>1, <2>11, TasksStay
  <2>13. VerifiedByOwnMail'
    <3> SUFFICES ASSUME NEW b \in VerifiedAddresses'
                 PROVE  \E c \in Code : code'[c] = "used" /\ Owner(c)' = b /\ c \in mailed'
      BY DEF VerifiedByOwnMail
    <3>1. UNCHANGED mailed /\ \A c \in Code : Owner(c)' = Owner(c)
      BY <1>1 DEF Owner, task
    <3>2. CASE b = a
      <4>1. k \in mailed
        BY <2>1 DEF Inv, TaskInv, StoredIsMailed
      <4> QED
        BY <2>1, <2>4, <3>1, <3>2, <4>1
    <3>3. CASE b # a
      <4>1. PICK c \in Code : code[c] = "used" /\ Owner(c) = b /\ c \in mailed
        BY <2>7, <3>3 DEF Inv, VerifiedByOwnMail
      <4> QED
        BY <2>4, <3>1, <4>1
    <3> QED
      BY <3>2, <3>3
  <2> QED
    BY <2>9, <2>10, <2>12, <2>13 DEF Inv
<1> QED
  BY <1>3, <1>4 DEF SaveVerified

-----------------------------------------------------------------------------
(* The worker.                                                             *)

\* What the runs leave alone.
LEMMA WorkerKnown ==
    ASSUME Inv, UNCHANGED <<account, handler, to>>,
           \A c \in Code : code[c] # "none" => code'[c] = code[c], mailed \subseteq mailed'
    PROVE  Ready' /\ Known' /\ VerifiedByOwnMail'
<1>1. UNCHANGED <<pc, local>> /\ VerifiedAddresses' = VerifiedAddresses
  BY DEF handler, VerifiedAddresses, Exists
<1>2. \A c \in Code : Owner(c)' = Owner(c)
  BY DEF Owner
<1>3. Ready'
  BY <1>1 DEF Inv, TypeInv, Ready, ReadyAt, Exists
<1>4. Known'
  <2> SUFFICES ASSUME NEW r \in Request PROVE KnownAt(pc[r], local[r])'
    BY DEF Known
  <2>1. /\ KnownAt(pc[r], local[r]) /\ ReadyAt(pc[r], local[r])
        /\ local[r].retired \subseteq Code /\ local[r].spent \subseteq Code
    BY DEF Inv, Known, TypeInv, TypeOK, Local, Ready
  <2> QED
    BY ZenonT(40), <1>1, <1>2, <2>1 DEF KnownAt, ReadyAt
<1>5. VerifiedByOwnMail'
  BY <1>1, <1>2 DEF Inv, VerifiedByOwnMail
<1> QED
  BY <1>3, <1>4, <1>5

\* Runs that are under way belong to requests that were answered or refused.
LEMMA ActiveIsLast ==
    ASSUME Inv, NEW x \in Run, step[x] # "none"
    PROVE  x[1] \in Request /\ pc[x[1]] \in Ended
BY RunFacts DEF Inv, TypeInv, TaskIsLast

\* Run x goes on or ends; the code that it stores was not there.
LEMMA RunKeeps ==
    ASSUME Inv, NEW x \in Run, step[x] \in Active,
           UNCHANGED <<account, handler, to, doubled>>,
           NEW next \in TaskPC \ {"none", "queued"}, step' = [step EXCEPT ![x] = next],
           retries' \in [Run -> 0 .. MaxRetries],
           email' \in [Request -> EmailStatus],
           \A t \in Request : t # x[1] => email'[t] = email[t],
           email'[x[1]] = "failed" => \/ email[x[1]] = "failed"
                                      \/ next = "over" /\ UNCHANGED code,
           code' \in [Code -> CodeStatus],
           \A c \in Code : code'[c] # code[c] =>
               c = x /\ code[x] = "none" /\ x \in mailed /\ (next = "over" \/ x \in unsure'),
           unsure \subseteq unsure', unsure' \subseteq unsure \cup {x},
           x \in unsure' => next \in {"fail", "over"},
           mailed \subseteq mailed', mailed' \subseteq mailed \cup {x},
           next \in Sending => x \in mailed',
           x \in late => next \in {"fail", "over"} /\ UNCHANGED mailed,
           marked \subseteq marked', marked' \subseteq Request,
           late' \subseteq Run,
           \A y \in late' \ late : /\ y[1] \in marked' /\ y # x
                                   /\ step[y] \in {"none", "queued"},
           broken' \subseteq Request
    PROVE  Inv'
<1>1. step' \in [Run -> TaskPC] /\ step'[x] = next /\ \A y \in Run : y # x => step'[y] = step[y]
  BY DEF Inv, TypeInv, TypeOK
<1>2. mailed' \subseteq Code /\ unsure' \subseteq Code /\ Code = Run
  BY DEF Inv, TypeInv, TypeOK, Code
<1>3. Ready' /\ Known' /\ VerifiedByOwnMail'
  <2>1. \A c \in Code : code[c] # "none" => code'[c] = code[c]
    OBVIOUS
  <2> QED
    BY <2>1, WorkerKnown
<1>4. TypeInv'
  <2>1. TypeOK'
    BY <1>1, <1>2 DEF Inv, TypeInv, TypeOK, handler
  <2>2. TaskIsLast'
    <3> SUFFICES ASSUME NEW r \in Request, pc[r] \notin Ended, NEW y \in RunsOf(r)
                 PROVE  step'[y] = "none"
      BY DEF TaskIsLast, handler
    <3>1. y \in Run /\ y[1] = r
      BY RunFacts
    <3>2. y # x
      BY <3>1, ActiveIsLast DEF Active, InProgress
    <3> QED
      BY <1>1, <3>1, <3>2 DEF Inv, TypeInv, TaskIsLast
  <2> QED
    BY <1>3, <2>1, <2>2 DEF TypeInv
<1>5. StoredIsOver'
  <2> SUFFICES ASSUME NEW y \in Run
               PROVE  /\ code'[y] # "none" => step'[y] = "over" \/ y \in unsure'
                      /\ y \in unsure' => step'[y] \in {"fail", "over"}
    BY DEF StoredIsOver
  <2>1. /\ code[y] # "none" => step[y] = "over" \/ y \in unsure
        /\ y \in unsure => step[y] \in {"fail", "over"}
    BY DEF Inv, TaskInv, StoredIsOver
  <2>2. CASE y = x
    BY <1>1, <1>2, <2>1, <2>2 DEF Active, InProgress
  <2>3. CASE y # x
    BY <1>1, <1>2, <2>1, <2>3
  <2> QED
    BY <2>2, <2>3
<1>6. SentIsMailed'
  <2> SUFFICES ASSUME NEW y \in Run
               PROVE  /\ step'[y] \in Sending => y \in mailed'
                      /\ step'[y] \in {"none", "queued"} => y \notin mailed'
    BY DEF SentIsMailed
  <2>1. CASE y = x
    BY <1>1, <2>1
  <2>2. CASE y # x
    BY <1>1, <2>2 DEF Inv, TaskInv, SentIsMailed
  <2> QED
    BY <2>1, <2>2
<1>7. StoredIsMailed'
  BY DEF Inv, TaskInv, StoredIsMailed
<1>8. LateIsNotSent'
  <2> SUFFICES ASSUME NEW y \in late'
               PROVE  /\ y[1] \in marked' /\ y \notin mailed'
                      /\ step'[y] \notin Sending \cup {"send"}
    BY DEF LateIsNotSent
  <2>1. y \in Run
    OBVIOUS
  <2>2. CASE y \in late
    <3>1. y[1] \in marked /\ y \notin mailed /\ step[y] \notin Sending \cup {"send"}
      BY <2>2 DEF Inv, TaskInv, LateIsNotSent
    <3> QED
      BY <1>1, <2>1, <2>2, <3>1 DEF Sending
  <2>3. CASE y \notin late
    <3>1. y \notin mailed /\ y # x /\ step'[y] = step[y]
      BY <1>1, <2>1, <2>3 DEF Inv, TaskInv, SentIsMailed
    <3> QED
      BY <2>3, <3>1 DEF Sending
  <2> QED
    BY <2>2, <2>3
<1>9. \A y \in Run : step'[y] \in Active => step[y] \in Active
  BY <1>1
<1>10. OneRun'
  BY <1>9, RunFacts DEF Inv, TaskInv, OneRun, Single
<1>11. ASSUME NEW t \in Request, Single(t), NEW y \in RunsOf(t), step'[y] \in Active
       PROVE  email'[t] # "failed" /\ \A c \in RunsOf(t) \ unsure' : code'[c] = "none"
  <2>1. step[y] \in Active /\ y \in Run /\ y[1] = t /\ RunsOf(t) \subseteq Run
    BY <1>9, <1>11, RunFacts
  <2>2. email[t] # "failed" /\ \A c \in RunsOf(t) \ unsure : code[c] = "none"
    BY <1>11, <2>1 DEF Inv, TaskInv, ActiveHasNoCode
  <2>3. CASE t = x[1]
    <3>1. x \in RunsOf(t)
      BY <2>3, RunFacts
    <3>2. y = x
      BY <1>11, <2>1, <3>1 DEF Inv, TaskInv, OneRun
    <3>3. next # "over"
      BY <1>1, <1>11, <3>2 DEF Active, InProgress
    <3> QED
      BY <1>2, <2>1, <2>2, <2>3, <3>3
  <2>4. CASE t # x[1]
    <3>1. x \notin RunsOf(t)
      BY <2>4, RunFacts
    <3> QED
      BY <1>2, <2>1, <2>2, <2>4, <3>1
  <2> QED
    BY <2>3, <2>4
<1>12. ActiveHasNoCode'
  BY <1>11 DEF ActiveHasNoCode, Single
<1>13. FailedLeftNoCode'
  <2> SUFFICES ASSUME NEW t \in Request, email'[t] = "failed",
                      RunsOf(t) \cap doubled = {}, NEW c \in CodesOf(t) \ unsure'
               PROVE  code'[c] = "none"
    BY DEF FailedLeftNoCode
  <2>1. c \in Run /\ c \in RunsOf(t) /\ c \notin unsure /\ Single(t)
    BY <1>2, CodesAreRuns DEF CodesOf, Single
  <2>2. CASE t = x[1]
    <3>1. x \in RunsOf(t)
      BY <2>2, RunFacts
    <3>2. email[t] # "failed" /\ code[c] = "none"
      BY <2>1, <3>1 DEF Inv, TaskInv, ActiveHasNoCode
    <3> QED
      BY <2>2, <3>2
  <2>3. CASE t # x[1]
    <3>1. email[t] = "failed"
      BY <2>3
    <3>2. code[c] = "none"
      BY <2>1, <3>1 DEF Inv, FailedLeftNoCode, Single
    <3>3. c[1] = t
      BY <2>1, RunFacts
    <3> QED
      BY <1>2, <2>1, <2>3, <3>2, <3>3
  <2> QED
    BY <2>2, <2>3
<1> QED
  BY <1>3, <1>4, <1>5, <1>6, <1>7, <1>8, <1>10, <1>12, <1>13 DEF Inv, TaskInv

\* Run x, which ends or overlaps from now on, has its task delivered again.
LEMMA PublishKeeps ==
    ASSUME Inv, NEW x \in Run, NEW y \in Run, Unused(x, y), step[x] \in InProgress,
           NEW next \in {"over", step[x]}, NEW count \in 0 .. MaxRetries,
           Publish(x, next, y, count), next = "over" \/ x \in doubled',
           doubled \subseteq doubled', doubled' \subseteq doubled \cup {x},
           UNCHANGED <<tables, handler, to, marked, late, unsure>>,
           mailed \subseteq mailed', mailed' \subseteq mailed \cup {x},
           x \in late => UNCHANGED mailed, broken' \subseteq Request
    PROVE  Inv'
<1>1. step[y] = "none" /\ y # x /\ y \in RunsOf(x[1]) /\ x[1] \in Request /\ y[1] = x[1]
  <2>1. step[y] = "none" /\ y \in RunsOf(x[1])
    BY DEF Unused
  <2> QED
    BY <2>1, RunFacts DEF InProgress
<1>2. /\ step' \in [Run -> TaskPC] /\ step'[x] = next /\ step'[y] = "queued"
      /\ \A z \in Run : z # x /\ z # y => step'[z] = step[z]
      /\ retries' \in [Run -> 0 .. MaxRetries]
  BY <1>1 DEF Publish, Inv, TypeInv, TypeOK, TaskPC
<1>3. /\ UNCHANGED <<account, code, email, pc, local>> /\ mailed' \subseteq Code
      /\ doubled' \subseteq Run
  BY DEF tables, handler, Inv, TypeInv, TypeOK, Code
<1>4. Ready' /\ Known' /\ VerifiedByOwnMail'
  BY <1>3, WorkerKnown
<1>5. TypeInv'
  <2>1. TypeOK'
    BY <1>2, <1>3 DEF Inv, TypeInv, TypeOK
  <2>2. TaskIsLast'
    <3> SUFFICES ASSUME NEW r \in Request, pc[r] \notin Ended, NEW z \in RunsOf(r)
                 PROVE  step'[z] = "none"
      BY <1>3 DEF TaskIsLast
    <3>1. z \in Run /\ z[1] = r
      BY RunFacts
    <3>2. z # x /\ z # y
      BY <1>1, <3>1, ActiveIsLast DEF InProgress
    <3> QED
      BY <1>2, <3>1, <3>2 DEF Inv, TypeInv, TaskIsLast
  <2> QED
    BY <1>4, <2>1, <2>2 DEF TypeInv
<1>6. StoredIsOver'
  <2> SUFFICES ASSUME NEW z \in Run
               PROVE  /\ code[z] # "none" => step'[z] = "over" \/ z \in unsure
                      /\ z \in unsure => step'[z] \in {"fail", "over"}
    BY <1>3 DEF StoredIsOver
  <2>1. /\ code[z] # "none" => step[z] = "over" \/ z \in unsure
        /\ z \in unsure => step[z] \in {"fail", "over"}
    BY DEF Inv, TaskInv, StoredIsOver
  <2>2. CASE z = x
    BY <1>2, <2>1, <2>2 DEF InProgress
  <2>3. CASE z = y
    BY <1>1, <2>1, <2>3
  <2>4. CASE z # x /\ z # y
    BY <1>2, <2>1, <2>4
  <2> QED
    BY <2>2, <2>3, <2>4
<1>7. SentIsMailed'
  <2> SUFFICES ASSUME NEW z \in Run
               PROVE  /\ step'[z] \in Sending => z \in mailed'
                      /\ step'[z] \in {"none", "queued"} => z \notin mailed'
    BY DEF SentIsMailed
  <2>1. /\ step[z] \in Sending => z \in mailed
        /\ step[z] \in {"none", "queued"} => z \notin mailed
    BY DEF Inv, TaskInv, SentIsMailed
  <2>2. CASE z = x
    BY <1>2, <2>1, <2>2 DEF InProgress, Sending
  <2>3. CASE z = y
    BY <1>1, <1>2, <2>1, <2>3 DEF Sending
  <2>4. CASE z # x /\ z # y
    BY <1>2, <2>1, <2>4
  <2> QED
    BY <2>2, <2>3, <2>4
<1>8. StoredIsMailed'
  BY <1>3 DEF Inv, TaskInv, StoredIsMailed
<1>9. LateIsNotSent'
  <2> SUFFICES ASSUME NEW z \in late
               PROVE  /\ z[1] \in marked /\ z \notin mailed'
                      /\ step'[z] \notin Sending \cup {"send"}
    BY DEF LateIsNotSent
  <2>1. /\ z[1] \in marked /\ z \notin mailed /\ step[z] \notin Sending \cup {"send"}
        /\ z \in Run
    BY DEF Inv, TypeInv, TypeOK, TaskInv, LateIsNotSent
  <2> QED
    BY <1>2, <2>1 DEF Sending
<1>10. \A t \in Request : Single(t)' => Single(t)
  BY DEF Single
<1>11. \A t \in Request : t # x[1] => \A z \in RunsOf(t) : z \in Run /\ z # x /\ z # y
  BY <1>1, RunFacts
<1>12. x \in RunsOf(x[1]) /\ step[x] \in Active
  BY RunFacts DEF Active
<1>13. Single(x[1])' => next = "over"
  BY <1>12 DEF Single
<1>14. OneRun'
  <2> SUFFICES ASSUME NEW t \in Request, Single(t)', NEW v \in RunsOf(t), NEW w \in RunsOf(t),
                      step'[v] \in Active, step'[w] \in Active
               PROVE  v = w
    BY DEF OneRun
  <2>1. CASE t = x[1]
    <3>1. \A z \in RunsOf(t) : step'[z] \in Active => z = y
      <4> SUFFICES ASSUME NEW z \in RunsOf(t), step'[z] \in Active, z # y PROVE FALSE
        OBVIOUS
      <4>1. z \in Run
        BY RunFacts
      <4>2. z # x
        BY <1>2, <1>13, <2>1 DEF Active, InProgress
      <4>3. step[z] \in Active
        BY <1>2, <4>1, <4>2
      <4> QED
        BY <1>10, <1>12, <2>1, <4>2, <4>3 DEF Inv, TaskInv, OneRun
    <3> QED
      BY <3>1
  <2>2. CASE t # x[1]
    BY <1>2, <1>10, <1>11, <2>2 DEF Inv, TaskInv, OneRun
  <2> QED
    BY <2>1, <2>2
<1>15. ActiveHasNoCode'
  <2> SUFFICES ASSUME NEW t \in Request, Single(t), NEW z \in RunsOf(t), step'[z] \in Active
               PROVE  email[t] # "failed" /\ \A c \in RunsOf(t) \ unsure : code[c] = "none"
    BY <1>3, <1>10 DEF ActiveHasNoCode
  <2>1. CASE t = x[1]
    BY <1>12, <2>1 DEF Inv, TaskInv, ActiveHasNoCode
  <2>2. CASE t # x[1]
    BY <1>2, <1>11, <2>2 DEF Inv, TaskInv, ActiveHasNoCode
  <2> QED
    BY <2>1, <2>2
<1>16. FailedLeftNoCode'
  BY <1>3 DEF Inv, FailedLeftNoCode
<1> QED
  BY <1>4, <1>5, <1>6, <1>7, <1>8, <1>9, <1>14, <1>15, <1>16 DEF Inv, TaskInv

\* What the actions of a run have in common.
LEMMA RunTypes ==
    ASSUME Inv, NEW x \in Run
    PROVE  /\ code \in [Code -> CodeStatus] /\ email \in [Request -> EmailStatus]
           /\ retries \in [Run -> 0 .. MaxRetries] /\ marked \subseteq Request
           /\ mailed \subseteq Code /\ broken \subseteq Request /\ late \subseteq Run
           /\ doubled \subseteq Run /\ unsure \subseteq Code
           /\ x \in Code /\ x[1] \in Request
           /\ step[x] \in Sending => x \in mailed /\ x \notin late
           /\ step[x] = "send" => x \notin late
           /\ x \in late => x[1] \in marked
           /\ step[x] # "over" => (code[x] # "none" => x \in unsure)
           /\ x \in unsure => step[x] \in {"fail", "over"}
BY RunFacts DEF Inv, TypeInv, TypeOK, TaskInv, SentIsMailed, LateIsNotSent, StoredIsOver

LEMMA TakeKeeps ==
    ASSUME Inv, NEW x \in Run, Take(x)
    PROVE  Inv'
<1>1. /\ step[x] = "queued" /\ UNCHANGED <<account, code, email, handler, to, retries>>
      /\ UNCHANGED <<marked, mailed, broken, doubled, unsure, late>>
  BY DEF Take, At, Raises, tables, history
<1>2. PICK next \in {"over", "send", "fail"} :
        step' = [step EXCEPT ![x] = next] /\ (next = "send" => x[1] \notin marked)
  BY DEF Take, At, Raises
<1>3. next \in TaskPC \ {"none", "queued"} /\ next \notin Sending
  BY DEF TaskPC, Sending
<1>4. x \in late => next \in {"fail", "over"}
  BY <1>2, RunTypes
<1>5. x \in unsure' => next \in {"fail", "over"}
  BY <1>1, RunTypes
<1> QED
  BY <1>1, <1>2, <1>3, <1>4, <1>5, RunTypes, RunKeeps DEF Active

LEMMA RetryKeeps ==
    ASSUME Inv, NEW x \in Run, step[x] = "send", Retry(x),
           mailed' \in {mailed, mailed \cup {x}},
           UNCHANGED <<tables, handler, to, marked, doubled, unsure, late>>
    PROVE  Inv'
<1>1. broken' \subseteq Request
  BY RunTypes DEF Retry
<1>2. ASSUME NEW y \in Run, Unused(x, y), retries[x] < MaxRetries,
             Publish(x, "over", y, retries[x] + 1)
      PROVE  Inv'
  <2>1. retries[x] + 1 \in 0 .. MaxRetries
    BY <1>2, RunTypes, MaxRetriesIsNat
  <2>2. step[x] \in InProgress /\ x \notin late
    BY RunTypes DEF InProgress
  <2> QED
    BY <1>1, <1>2, <2>1, <2>2, PublishKeeps
<1>3. CASE step' = [step EXCEPT ![x] = "over"] /\ UNCHANGED retries
  <2>1. "over" \in TaskPC \ {"none", "queued"} /\ "over" \notin Sending
    BY DEF TaskPC, Sending
  <2>2. step[x] \in Active /\ x \notin late /\ x \notin unsure
    BY RunTypes DEF Active, InProgress
  <2>3. UNCHANGED <<account, code, email>>
    BY DEF tables
  <2> QED
    BY <1>1, <1>3, <2>1, <2>2, <2>3, RunTypes, RunKeeps
<1> QED
  BY <1>2, <1>3 DEF Retry

LEMMA SendKeeps ==
    ASSUME Inv, NEW x \in Run, Send(x)
    PROVE  Inv'
<1>1. /\ step[x] = "send"
      /\ UNCHANGED <<tables, handler, to, marked, doubled, unsure, late>>
      /\ UNCHANGED <<account, code, email>> /\ mailed' \in {mailed, mailed \cup {x}}
  BY DEF Send, tables
<1>2. ASSUME NEW next \in {"mark", "fail"}, step' = [step EXCEPT ![x] = next],
             UNCHANGED <<retries, broken>>, next = "mark" => x \in mailed'
      PROVE  Inv'
  <2>1. next \in TaskPC \ {"none", "queued"} /\ (next \in Sending => next = "mark")
    BY DEF TaskPC, Sending
  <2>2. step[x] \in Active /\ x \notin late /\ x \notin unsure
    BY <1>1, RunTypes DEF Active, InProgress
  <2> QED
    BY <1>1, <1>2, <2>1, <2>2, RunTypes, RunKeeps
<1>3. CASE Retry(x)
  BY <1>1, <1>3, RetryKeeps
<1>4. CASE ~Retry(x)
  <2>1. PICK next \in {"mark", "fail"} :
          /\ step' = [step EXCEPT ![x] = next] /\ UNCHANGED <<retries, broken>>
          /\ next = "mark" => x \in mailed'
    BY <1>4 DEF Send, At
  <2> QED
    BY <1>2, <2>1
<1> QED
  BY <1>3, <1>4

LEMMA WorkKeeps ==
    ASSUME Inv, NEW x \in Run, Mark(x) \/ Deliver(x) \/ Store(x) \/ HandleFailure(x)
    PROVE  Inv'
<1>1. UNCHANGED <<account, handler, to, doubled, retries, mailed>>
  BY DEF Mark, Deliver, Store, HandleFailure, tables, history
<1>2. /\ step[x] \in Active /\ step[x] # "over" /\ x \in Run
      /\ step \in [Run -> TaskPC]
  BY DEF Mark, Deliver, Store, HandleFailure, At, Raises, Active, InProgress, Inv, TypeInv, TypeOK
<1>3. {"deliver", "store", "over", "fail"} \subseteq TaskPC \ {"none", "queued"}
  BY DEF TaskPC
<1>4. CASE Mark(x)
  <2>1. step[x] = "mark" /\ UNCHANGED <<code, email, broken, unsure>>
    BY <1>4 DEF Mark, At, Raises, tables
  <2>2. x \in mailed /\ x \notin late /\ x \notin unsure
    BY <2>1, RunTypes DEF Sending
  <2>3. PICK next \in {"deliver", "fail"} : step' = [step EXCEPT ![x] = next]
    BY <1>4 DEF Mark, At, Raises
  <2>4. /\ marked \subseteq marked' /\ marked' \subseteq Request /\ late' \subseteq Run
        /\ \A y \in late' \ late : /\ y[1] \in marked' /\ y # x
                                   /\ step[y] \in {"none", "queued"}
    <3>1. CASE UNCHANGED <<marked, late>>
      BY <3>1, RunTypes
    <3>2. CASE /\ marked' = marked \cup {x[1]}
               /\ late' = late \cup {y \in RunsOf(x[1]) : step[y] \in {"none", "queued"}}
      <4>1. \A y \in RunsOf(x[1]) : y \in Run /\ y[1] = x[1]
        BY RunFacts
      <4> QED
        BY <2>1, <3>2, <4>1, RunTypes
    <3> QED
      BY <1>4, <3>1, <3>2 DEF Mark
  <2>5. next \in TaskPC \ {"none", "queued"}
    BY <1>3
  <2> QED
    BY <1>1, <1>2, <2>1, <2>2, <2>3, <2>4, <2>5, RunTypes, RunKeeps
<1>5. CASE Deliver(x)
  <2>1. step[x] = "deliver" /\ UNCHANGED <<code, marked, broken, unsure, late>>
    BY <1>5 DEF Deliver, At, Raises, history
  <2>2. x \in mailed /\ x \notin late /\ x \notin unsure
    BY <2>1, RunTypes DEF Sending
  <2>3. PICK next \in {"store", "fail"} : step' = [step EXCEPT ![x] = next]
    BY <1>5 DEF Deliver, At, Raises
  <2>4. /\ email' \in [Request -> EmailStatus]
        /\ \A t \in Request : t # x[1] => email'[t] = email[t]
        /\ email'[x[1]] = "failed" => email[x[1]] = "failed"
    <3>1. CASE UNCHANGED email
      BY <3>1, RunTypes
    <3>2. CASE email' = [email EXCEPT ![x[1]] = "delivered"]
      BY <3>2, RunTypes DEF EmailStatus
    <3> QED
      BY <1>5, <3>1, <3>2 DEF Deliver
  <2>5. next \in TaskPC \ {"none", "queued"}
    BY <1>3
  <2> QED
    BY <1>1, <1>2, <2>1, <2>2, <2>3, <2>4, <2>5, RunTypes, RunKeeps
<1>6. CASE Store(x)
  <2>1. step[x] = "store" /\ UNCHANGED <<email, marked, broken, late>>
    BY <1>6 DEF Store, At, Raises
  <2>2. x \in mailed /\ x \notin late /\ x \notin unsure /\ code[x] = "none" /\ x \in Code
    BY <2>1, RunTypes DEF Sending
  <2>3. PICK next \in {"over", "fail"} :
          /\ step' = [step EXCEPT ![x] = next]
          /\ \/ next = "over" /\ code' = [code EXCEPT ![x] = "valid"] /\ UNCHANGED unsure
             \/ /\ next = "fail" /\ code' = [code EXCEPT ![x] = "valid"]
                /\ unsure' = unsure \cup {x}
             \/ next = "fail" /\ UNCHANGED <<code, unsure>>
    BY <1>6 DEF Store, At, Raises
  <2>4. code' \in [Code -> CodeStatus] /\ \A c \in Code : code'[c] # code[c] => c = x
    BY <2>3, RunTypes DEF CodeStatus
  <2>5. /\ unsure \subseteq unsure' /\ unsure' \subseteq unsure \cup {x}
        /\ code' # code => next = "over" \/ x \in unsure'
    BY <2>3
  <2>6. next \in TaskPC \ {"none", "queued"} /\ next \notin Sending
    BY <1>3 DEF Sending
  <2>7. email'[x[1]] = "failed" => email[x[1]] = "failed"
    BY <2>1
  <2>8. \A c \in Code : code'[c] # code[c] =>
            c = x /\ code[x] = "none" /\ x \in mailed /\ (next = "over" \/ x \in unsure')
    BY <2>2, <2>4, <2>5
  <2> QED
    BY <1>1, <1>2, <2>1, <2>2, <2>3, <2>4, <2>5, <2>6, <2>7, <2>8, RunTypes, RunKeeps
<1>7. CASE HandleFailure(x)
  <2>1. /\ step' = [step EXCEPT ![x] = "over"] /\ UNCHANGED <<code, marked, unsure, late>>
    BY <1>7 DEF HandleFailure, At
  <2>2. /\ email' \in [Request -> EmailStatus]
        /\ \A t \in Request : t # x[1] => email'[t] = email[t]
        /\ broken' \subseteq Request
    <3>1. broken' \in {broken, broken \cup {x[1]}}
      BY <1>7 DEF HandleFailure
    <3>2. email' = email \/ email' = [email EXCEPT ![x[1]] = "failed"]
      BY <1>7 DEF HandleFailure
    <3> QED
      BY <3>1, <3>2, RunTypes DEF EmailStatus
  <2>3. "over" \in TaskPC \ {"none", "queued"} /\ "over" \notin Sending
    BY <1>3 DEF Sending
  <2> QED
    BY <1>1, <1>2, <2>1, <2>2, <2>3, RunTypes, RunKeeps
<1> QED
  BY <1>4, <1>5, <1>6, <1>7

LEMMA WorkerDiesKeeps ==
    ASSUME Inv, NEW x \in Run, WorkerDies(x)
    PROVE  Inv'
<1>1. /\ step[x] \in InProgress /\ UNCHANGED <<account, code, email>>
      /\ UNCHANGED <<tables, handler, to, marked, mailed, doubled, unsure, late>>
      /\ broken' \subseteq Request
  BY RunTypes DEF WorkerDies, tables
<1>2. ASSUME NEW y \in Run, Unused(x, y), Publish(x, "over", y, retries[x])
      PROVE  Inv'
  BY <1>1, <1>2, RunTypes, PublishKeeps
<1>3. CASE step' = [step EXCEPT ![x] = "over"] /\ UNCHANGED retries
  <2>1. "over" \in TaskPC \ {"none", "queued"} /\ "over" \notin Sending
    BY DEF TaskPC, Sending
  <2> QED
    BY <1>1, <1>3, <2>1, RunTypes, RunKeeps DEF Active
<1> QED
  BY <1>2, <1>3 DEF WorkerDies

LEMMA RedeliverKeeps ==
    ASSUME Inv, NEW x \in Run, Redeliver(x)
    PROVE  Inv'
<1>1. /\ step[x] \in InProgress
      /\ UNCHANGED <<tables, handler, to, marked, mailed, broken, unsure, late>>
      /\ doubled' = doubled \cup {x} /\ broken \subseteq Request
  BY RunTypes DEF Redeliver
<1>2. PICK y \in Run : Unused(x, y) /\ Publish(x, step[x], y, retries[x])
  BY DEF Redeliver
<1> QED
  BY <1>1, <1>2, RunTypes, PublishKeeps

LEMMA KeyExpiresKeeps ==
    ASSUME Inv, NEW t \in Request, KeyExpires(t)
    PROVE  Inv'
<1>1. /\ UNCHANGED <<account, code, email, pc, local, to, step, retries>>
      /\ UNCHANGED <<mailed, broken, doubled, unsure>>
      /\ marked' = marked \ {t} /\ late' = late \ RunsOf(t)
  BY DEF KeyExpires, tables, handler
<1>2. TypeInv'
  BY <1>1 DEF Inv, TypeInv, TypeOK, Ready, ReadyAt, TaskIsLast, Exists
<1>3. Known'
  BY <1>1 DEF Inv, Known, KnownAt, Owner, VerifiedAddresses, Exists
<1>4. StoredIsOver' /\ SentIsMailed' /\ StoredIsMailed'
  BY <1>1 DEF Inv, TaskInv, StoredIsOver, SentIsMailed, StoredIsMailed
<1>5. LateIsNotSent'
  <2> SUFFICES ASSUME NEW x \in late'
               PROVE  x[1] \in marked' /\ x \notin mailed /\ step[x] \notin Sending \cup {"send"}
    BY <1>1 DEF LateIsNotSent
  <2>1. /\ x[1] \in marked /\ x \notin mailed /\ step[x] \notin Sending \cup {"send"}
        /\ x \in Run /\ x \notin RunsOf(t)
    BY <1>1 DEF Inv, TypeInv, TypeOK, TaskInv, LateIsNotSent
  <2>2. x[1] # t
    BY <2>1, RunFacts
  <2> QED
    BY <1>1, <2>1, <2>2
<1>6. OneRun' /\ ActiveHasNoCode'
  BY <1>1 DEF Inv, TaskInv, OneRun, ActiveHasNoCode, Single
<1>7. VerifiedByOwnMail' /\ FailedLeftNoCode'
  BY <1>1 DEF Inv, VerifiedByOwnMail, FailedLeftNoCode, VerifiedAddresses, Exists, Owner
<1> QED
  BY <1>2, <1>3, <1>4, <1>5, <1>6, <1>7 DEF Inv, TaskInv

LEMMA InvNext == Inv /\ [Next]_vars => Inv'
<1> SUFFICES ASSUME Inv, [Next]_vars PROVE Inv'
  OBVIOUS
<1>1. CASE UNCHANGED vars
  <2>0. /\ UNCHANGED <<account, code, email, pc, local, to, step, retries>>
        /\ UNCHANGED <<marked, mailed, broken, doubled, unsure, late>>
    BY <1>1 DEF vars, tables, handler, task, history
  <2>1. TypeInv'
    BY <2>0 DEF Inv, TypeInv, TypeOK, Ready, ReadyAt, TaskIsLast, Exists
  <2>2. Known'
    BY <2>0 DEF Inv, Known, KnownAt, Owner, VerifiedAddresses, Exists
  <2>3. TaskInv'
    BY <2>0 DEF Inv, TaskInv, StoredIsOver, SentIsMailed, StoredIsMailed, LateIsNotSent,
       OneRun, ActiveHasNoCode, Single
  <2>4. VerifiedByOwnMail' /\ FailedLeftNoCode'
    BY <2>0 DEF Inv, VerifiedByOwnMail, FailedLeftNoCode, VerifiedAddresses, Exists, Owner
  <2> QED
    BY <2>1, <2>2, <2>3, <2>4 DEF Inv
<1>2. CASE Next
  BY <1>2, ReceiveKeeps, FindKeeps, SaveKeeps, CreateEmailKeeps, SaveVerifiedKeeps,
     TakeKeeps, SendKeeps, WorkKeeps, WorkerDiesKeeps, RedeliverKeeps, KeyExpiresKeeps
  DEF Next, Handle, Work
<1> QED
  BY <1>1, <1>2

-----------------------------------------------------------------------------
(* Theorems: invariants.                                                   *)

LEMMA InvAlways == Spec => []Inv
<1>1. Init => Inv
  BY InvInit
<1>2. Inv /\ [Next]_vars => Inv'
  BY InvNext
<1> QED
  BY <1>1, <1>2, PTL DEF Spec

(* Whatever sign-ups, resends and verifications run at the same time, and  *)
(* however often tasks are delivered, rows and handlers keep their types.      *)
THEOREM VerificationTypeCorrect == Spec => []TypeOK
<1>1. Inv => TypeOK
  BY DEF Inv, TypeInv
<1> QED
  BY <1>1, InvAlways, PTL

(* No interleaving of handlers and tasks verifies an account without a     *)
(* code that was mailed to its address (verify_account).                   *)
THEOREM VerifiedOwnMail == Spec => []VerifiedByOwnMail
<1>1. Inv => VerifiedByOwnMail
  BY DEF Inv
<1> QED
  BY <1>1, InvAlways, PTL

(* A mail that is recorded as failed has no code, through retries, lost    *)
(* replies and redeliveries of its task, as long as no two runs of the     *)
(* task overlap and apart from an insertion that was carried out and       *)
(* raised (send_verification_email, _handle_failure).                      *)
THEOREM FailedHasNoCode == Spec => []FailedLeftNoCode
<1>1. Inv => FailedLeftNoCode
  BY DEF Inv
<1> QED
  BY <1>1, InvAlways, PTL

(* A verification that arrives after a resend was answered, or after a     *)
(* code was used, never gets as far as to write with the retired or used   *)
(* code, whatever other requests and tasks write meanwhile (resend_otp,    *)
(* verify_account).                                                        *)
THEOREM RetiredRemain == Spec => []RetiredStayRetired
<1>1. Inv => RetiredStayRetired
  BY DEF Inv, Known, KnownAt, RetiredStayRetired
<1> QED
  BY <1>1, InvAlways, PTL

(* The idempotency key: no delivery that begins while the key lives sends  *)
(* a mail, however often the broker delivers a task, also beside a run     *)
(* that goes on, and wherever runs fail (send_verification_email).         *)
THEOREM MarkedOnce == Spec => []MarkedIsNotSentAgain
<1>1. Inv => MarkedIsNotSentAgain
  BY DEF Inv, TaskInv, LateIsNotSent, MarkedIsNotSentAgain
<1> QED
  BY <1>1, InvAlways, PTL

-----------------------------------------------------------------------------
(* Theorems: steps.                                                        *)

\* Passwords of accounts are written by SavePassword only.
LEMMA OnlySaveWritesPasswords ==
    ASSUME Inv, Next, NEW a \in Address, Exists(a), account'[a] # None,
           account'[a].password # account[a].password
    PROVE  \E r \in Request : /\ pc[r] = "save password" /\ local[r].target = a
                              /\ account'[a].password = r
<1>1. /\ account \in [Address -> Account \cup {None}] /\ account[a] \in Account
      /\ \A r \in Request : ReadyAt(pc[r], local[r])
  BY DEF Inv, TypeInv, TypeOK, Ready, Exists
<1>2. PICK r \in Request : SavePassword(r) \/ CreateUser(r) \/ SaveVerified(r)
  <2>1. ASSUME NEW r \in Request,
               \/ FindEmail(r) \/ FindName(r) \/ FindUnverified(r) \/ Retire(r)
               \/ CreateEmail(r) \/ FindCode(r) \/ \E p, l : Receive(r, p, l)
        PROVE  UNCHANGED account
    BY <2>1 DEF FindEmail, FindName, FindUnverified, Retire, CreateEmail, FindCode,
       Receive, tables
  <2>2. ASSUME NEW x \in Run,
               \/ Take(x) \/ Send(x) \/ Mark(x) \/ Deliver(x) \/ Store(x)
               \/ HandleFailure(x) \/ WorkerDies(x) \/ Redeliver(x)
        PROVE  UNCHANGED account
    BY <2>2 DEF Take, Send, Mark, Deliver, Store, HandleFailure, WorkerDies, Redeliver, tables
  <2>3. ASSUME NEW t \in Request, KeyExpires(t) PROVE UNCHANGED account
    BY <2>3 DEF KeyExpires, tables
  <2>4. ~UNCHANGED account
    OBVIOUS
  <2> QED
    BY <2>1, <2>2, <2>3, <2>4 DEF Next, Handle, Work, SignUp, Resend, Verify
<1>3. CASE SavePassword(r)
  <2>1. account' = [account EXCEPT ![local[r].target].password = r]
    <3>1. account' # account
      OBVIOUS
    <3> QED
      BY <1>3, <3>1 DEF SavePassword
  <2> QED
    BY <1>1, <1>3, <2>1 DEF SavePassword, Account
<1>4. CASE CreateUser(r)
  <2>1. /\ ~Exists(local[r].address)
        /\ \A b \in Address : b # local[r].address => account'[b] = account[b]
    BY <1>1, <1>4 DEF CreateUser
  <2> QED
    BY <2>1
<1>5. CASE SaveVerified(r)
  <2>1. account' = account \/ account' = [account EXCEPT ![local[r].target].verified = TRUE]
    BY <1>5 DEF SaveVerified
  <2>2. account'[a] = account[a] \/ account'[a] = [account[a] EXCEPT !.verified = TRUE]
    BY <1>1, <2>1
  <2>3. account'[a].password = account[a].password
    BY <1>1, <2>2 DEF Account
  <2> QED
    BY <2>3
<1> QED
  BY <1>2, <1>3, <1>4, <1>5

(* A sign-up leaves the password of an account alone that was verified     *)
(* when its request arrived, whatever runs between its reads and its write *)
(* (sign_up_with_email).                                                   *)
THEOREM VerifiedPasswordIsKept == Spec => VerifiedKeepsPassword
<1>1. Inv /\ [Next]_vars =>
        [\A a \in Address : Exists(a) /\ account'[a] # None
            /\ account'[a].password # account[a].password
            => a \notin local[account'[a].password].verified]_vars
  <2> SUFFICES ASSUME Inv, Next, NEW a \in Address, Exists(a), account'[a] # None,
                      account'[a].password # account[a].password
               PROVE  a \notin local[account'[a].password].verified
    OBVIOUS
  <2>1. PICK r \in Request : /\ pc[r] = "save password" /\ local[r].target = a
                             /\ account'[a].password = r
    BY OnlySaveWritesPasswords
  <2> QED
    BY <2>1 DEF Inv, Known, KnownAt
<1> QED
  BY <1>1, InvAlways, PTL DEF Spec, VerifiedKeepsPassword

-----------------------------------------------------------------------------
(* Verification implements Lifecycle: codes are drawn, mailed, stored and  *)
(* used.                                                                   *)

StageOf(c) == IF code[c] = "used" THEN 3 ELSE IF code[c] = "valid" THEN 2
              ELSE IF c \in mailed THEN 1 ELSE 0

\* A code that was not there is stored once it was mailed.
LEMMA CodeSteps ==
    ASSUME Inv, Next, NEW c \in Code
    PROVE  /\ code[c] = "used" => code'[c] = "used"
           /\ code[c] = "valid" => code'[c] \in {"valid", "used"}
           /\ code[c] = "none" => \/ code'[c] = "none"
                                  \/ code'[c] = "valid" /\ c \in mailed
           /\ mailed \subseteq mailed'
<1>1. code \in [Code -> CodeStatus]
  BY DEF Inv, TypeInv, TypeOK
<1>2. \A r \in Request : KnownAt(pc[r], local[r]) /\ ReadyAt(pc[r], local[r])
  BY DEF Inv, Known, TypeInv, Ready
<1>3. CASE UNCHANGED code /\ mailed \subseteq mailed'
  BY <1>1, <1>3 DEF CodeStatus
<1>4. ASSUME NEW r \in Request, CreateEmail(r)
      PROVE  /\ code[c] = "used" => code'[c] = "used"
             /\ code[c] = "valid" => code'[c] \in {"valid", "used"}
             /\ code[c] = "none" => code'[c] = "none"
             /\ UNCHANGED mailed
  BY <1>1, <1>2, <1>4 DEF CreateEmail, KnownAt
<1>5. ASSUME NEW r \in Request, SaveVerified(r)
      PROVE  /\ code[c] = "used" => code'[c] = "used"
             /\ code[c] = "valid" => code'[c] \in {"valid", "used"}
             /\ code[c] = "none" => code'[c] = "none"
             /\ UNCHANGED mailed
  BY <1>1, <1>2, <1>5 DEF SaveVerified, KnownAt, ReadyAt, task
<1>6. ASSUME NEW x \in Run, Store(x)
      PROVE  /\ code[c] = "used" => code'[c] = "used"
             /\ code[c] = "valid" => code'[c] \in {"valid", "used"}
             /\ code[c] = "none" => \/ code'[c] = "none"
                                    \/ code'[c] = "valid" /\ c \in mailed
             /\ UNCHANGED mailed
  <2>1. step[x] = "store" /\ x \in mailed /\ x \in Code /\ code[x] = "none"
    BY <1>6, RunTypes DEF Store, At, Raises, Sending
  <2>2. code' = code \/ code' = [code EXCEPT ![x] = "valid"]
    BY <1>6 DEF Store
  <2> QED
    BY <1>1, <1>6, <2>1, <2>2 DEF Store, CodeStatus
<1>7. ASSUME ~(\E r \in Request : CreateEmail(r) \/ SaveVerified(r)),
             ~(\E x \in Run : Store(x))
      PROVE  UNCHANGED code /\ mailed \subseteq mailed'
  <2>1. ASSUME NEW r \in Request,
               \/ FindEmail(r) \/ FindName(r) \/ SavePassword(r) \/ CreateUser(r)
               \/ FindUnverified(r) \/ Retire(r) \/ FindCode(r)
               \/ \E p, l : Receive(r, p, l)
        PROVE  UNCHANGED <<code, mailed>>
    BY <2>1 DEF FindEmail, FindName, SavePassword, CreateUser, FindUnverified, Retire, FindCode,
       Receive, tables, task
  <2>2. ASSUME NEW x \in Run,
               \/ Take(x) \/ Send(x) \/ Mark(x) \/ Deliver(x) \/ HandleFailure(x)
               \/ WorkerDies(x) \/ Redeliver(x)
        PROVE  UNCHANGED code /\ mailed \subseteq mailed'
    BY <2>2 DEF Take, Send, Mark, Deliver, HandleFailure, WorkerDies, Redeliver, tables
  <2>3. ASSUME NEW t \in Request, KeyExpires(t) PROVE UNCHANGED <<code, mailed>>
    BY <2>3 DEF KeyExpires, tables
  <2> QED
    BY <1>7, <2>1, <2>2, <2>3 DEF Next, Handle, Work, SignUp, Resend, Verify
<1> QED
  BY <1>3, <1>4, <1>5, <1>6, <1>7

LEMMA StagesAdvance ==
    ASSUME Inv, [Next]_vars, NEW c \in Code
    PROVE  StageOf(c)' \in {StageOf(c), StageOf(c) + 1}
<1>1. code[c] \in CodeStatus /\ (code[c] # "none" => c \in mailed)
  BY DEF Inv, TypeInv, TypeOK, TaskInv, StoredIsMailed
<1>2. CASE UNCHANGED vars
  BY <1>2 DEF vars, tables, task, StageOf
<1>3. CASE Next
  <2>1. /\ code[c] = "used" => code'[c] = "used"
        /\ code[c] = "valid" => code'[c] \in {"valid", "used"}
        /\ code[c] = "none" => \/ code'[c] = "none"
                               \/ code'[c] = "valid" /\ c \in mailed
        /\ mailed \subseteq mailed'
    BY <1>3, CodeSteps
  <2> QED
    BY <1>1, <2>1 DEF StageOf, CodeStatus
<1> QED
  BY <1>2, <1>3

LEMMA StageInit == Init => Codes!Init
BY DEF Init, Codes!Init

LEMMA StageNext == Inv /\ [Next]_vars => Codes!Next
<1> SUFFICES ASSUME Inv, [Next]_vars PROVE Codes!Next
  OBVIOUS
<1>1. \A c \in Code : StageOf(c)' \in {StageOf(c), StageOf(c) + 1}
  BY StagesAdvance
<1>2. \A c \in Code : StageOf(c)' \in 0 .. 3
  BY DEF StageOf
<1> QED
  BY <1>1, <1>2 DEF StageOf, Codes!Next

(* Sign-up implements the abstract life of a code: no interleaving of      *)
(* handlers, runs and redeliveries stores a code that was not mailed, or   *)
(* brings back one that was used or retired.                               *)
THEOREM CodesLifecycle == Spec => CodesAdvance
<1>1. Init => Codes!Init
  BY StageInit
<1>2. Inv /\ [Next]_vars => Codes!Next
  BY StageNext
<1> QED
  BY <1>1, <1>2, InvAlways, PTL DEF Spec, CodesAdvance, Codes!Spec

===============================================================================
