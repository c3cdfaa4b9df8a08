----------------------------- MODULE Verification -----------------------------
(***************************************************************************)
(* Sign-up with email and password: sign_up_with_email, resend_otp and     *)
(* verify_account of app/api/services/auth.py, and the Celery task         *)
(* send_verification_email of app/worker/tasks/email.py, which mails a     *)
(* code and stores it.                                                     *)
(*                                                                         *)
(* A request is one HTTP call.  A sign-up or a resend queues one task,     *)
(* known by the request's email_id, so that one identifier names both.     *)
(* The broker delivers a task once and again for each retry and each       *)
(* redelivery: every delivery is a run of its own, and a late              *)
(* acknowledgement lets two runs of a task overlap.  An action is what a   *)
(* handler or a run does between two calls to Postgres, Redis, the broker  *)
(* or the mail service.  A query whose answer has no influence is left     *)
(* out.                                                                    *)
(*                                                                         *)
(* A write that raises may have been carried out: its reply was lost.      *)
(***************************************************************************)
EXTENDS Naturals, FiniteSets

CONSTANTS
    Request,
    Asks,        \* what a request may ask for
    Address,
    Name,        \* display names
    None,
    MaxRetries,  \* BaseTaskWithFailure.max_retries
    Tries,       \* bound: how often the task of a request is delivered
    Faults       \* what may go wrong with a request and its task

Account == [name : Name, verified : BOOLEAN, password : Request]

ApiFaults == {"database", "queue", "expiry"}
WorkerFaults == {"storage", "broker", "mail", "worker", "key expiry"}

ASSUME VerificationAssumption ==
    /\ None \notin Request \cup Address \cup Name \cup Account
    /\ Asks \in [Request ->
          SUBSET ({"sign up", "resend", "verify"} \X Address \X (Name \cup {None}))]
    /\ MaxRetries \in Nat /\ Tries \in [Request -> Nat \ {0}]
    /\ Faults \in [Request -> SUBSET (ApiFaults \cup WorkerFaults)]

\* The deliveries of a task; each draws a code of its own.
RunsOf(t) == {t} \X (1 .. Tries[t])
Run == UNION {RunsOf(t) : t \in Request}
Code == Run
CodesOf(t) == RunsOf(t)

VARIABLES
    account,  \* table users: the row of an address
    code,     \* table otp: the row of a code
    email,    \* table emails: the row of a request
    pc,       \* the call a request's handler is at
    local,    \* its locals
    to,       \* the recipient of a request's task
    step,     \* the call the worker is at with a run
    retries,  \* header of a run's message: the retries before it
    marked,   \* Redis idempotency:{email_id} exists
    mailed,   \* the codes that reached the mailbox of their task's recipient
    \* Histories that only the properties read.
    broken,   \* tasks with a run that ended without a record: its worker died,
              \* or the failure or the retry could not be written
    doubled,  \* runs whose message was delivered again while they went on
    unsure,   \* codes that were stored although the call raised
    late      \* runs that had not begun when their mail was marked

tables == <<account, code, email>>
handler == <<pc, local>>
history == <<broken, doubled, unsure, late>>
task == <<to, step, retries, marked, mailed, history>>
vars == <<tables, handler, task>>

-----------------------------------------------------------------------------
CodeStatus == {"none", "valid", "used"}
EmailStatus == {"none", "pending", "delivered", "failed"}
HandlerPC == {"new", "find email", "find name", "save password", "create user",
              "find", "retire", "create email", "find code", "save verified",
              "answered", "refused"}
TaskPC == {"none", "queued", "send", "mark", "deliver", "store", "fail", "over"}

Local == [ kind     : {"none", "sign up", "resend", "verify"},
           address  : Address \cup {None},
           name     : Name \cup {None},
           target   : Address \cup {None},  \* the row that is being worked on
           code     : Code \cup {None},     \* otp_code of a verification
           retired  : SUBSET Code,          \* the codes a resend sets to "used"
           verified : SUBSET Address,       \* when the request arrived
           spent    : SUBSET Code ]         \* when a verification arrived

LocalOf(kind, a, n, c, verified, spent) ==
    [ kind |-> kind, address |-> a, name |-> n, target |-> None,
      code |-> c, retired |-> {}, verified |-> verified, spent |-> spent ]
NoLocal == LocalOf("none", None, None, None, {}, {})

Init ==
    /\ account = [a \in Address |-> None]
    /\ code = [c \in Code |-> "none"] /\ email = [r \in Request |-> "none"]
    /\ pc = [r \in Request |-> "new"]
    /\ local = [r \in Request |-> NoLocal]
    /\ to = [r \in Request |-> None]
    /\ step = [x \in Run |-> "none"] /\ retries = [x \in Run |-> 0]
    /\ marked = {} /\ mailed = {}
    /\ broken = {} /\ doubled = {} /\ unsure = {} /\ late = {}

-----------------------------------------------------------------------------
Exists(a) == account[a] # None
VerifiedAddresses == {a \in Address : Exists(a) /\ account[a].verified}
Owner(c) == to[c[1]]

GoTo(r, next) == pc' = [pc EXCEPT ![r] = next]
Forget(r) == local' = [local EXCEPT ![r] = NoLocal]
Refuse(r) == GoTo(r, "refused") /\ Forget(r)
Target(r, a, next) ==
    /\ local' = [local EXCEPT ![r].target = a]
    /\ GoTo(r, next)

Receive(r, first, new) ==
    /\ pc[r] = "new" /\ <<new.kind, new.address, new.name>> \in Asks[r]
    /\ local' = [local EXCEPT ![r] = new]
    /\ GoTo(r, first)
    /\ UNCHANGED <<tables, task>>

-----------------------------------------------------------------------------
(* sign_up_with_email                                                      *)

SignUp(r, a, n) ==
    Receive(r, "find email", LocalOf("sign up", a, n, None, VerifiedAddresses, {}))

FindEmail(r) ==
    /\ pc[r] = "find email"
    /\ LET a == local[r].address IN
          \/ ~Exists(a) /\ GoTo(r, "find name") /\ UNCHANGED local
          \/ Exists(a) /\ ~account[a].verified /\ Target(r, a, "save password")
          \/ Exists(a) /\ account[a].verified /\ Refuse(r)
    /\ UNCHANGED <<tables, task>>

\* Mutant: a name that is taken by a verified account is not refused.
FindNameOfAnyone(r) ==
    /\ pc[r] = "find name"
    /\ LET holders == {b \in Address : Exists(b) /\ account[b].name = local[r].name} IN
          \/ holders = {} /\ Target(r, local[r].address, "create user")
          \/ \E b \in holders : Target(r, b, "save password")
    /\ UNCHANGED <<tables, task>>

\* The row that bears the name is another user's.
FindName(r) ==
    /\ pc[r] = "find name"
    /\ LET holders == {b \in Address : Exists(b) /\ account[b].name = local[r].name} IN
          \/ holders = {} /\ Target(r, local[r].address, "create user")
          \/ \E b \in holders : ~account[b].verified /\ Target(r, b, "save password")
          \/ \E b \in holders : account[b].verified /\ Refuse(r)
    /\ UNCHANGED <<tables, task>>

SavePassword(r) ==
    /\ pc[r] = "save password"
    /\ \/ GoTo(r, "create email") /\ UNCHANGED local
       \/ "database" \in Faults[r] /\ Refuse(r)
    /\ \/ account' = [account EXCEPT ![local[r].target].password = r]
       \/ pc'[r] = "refused" /\ UNCHANGED account
    /\ UNCHANGED <<code, email, task>>

\* Address and name are unique columns.
CreateUser(r) ==
    /\ pc[r] = "create user"
    /\ LET a == local[r].address
           taken == Exists(a) \/ \E b \in Address :
                       Exists(b) /\ account[b].name = local[r].name
       IN \/ /\ ~taken
             /\ account' = [account EXCEPT ![a] =
                   [name |-> local[r].name, verified |-> FALSE, password |-> r]]
             /\ \/ GoTo(r, "create email") /\ UNCHANGED local
                \/ "database" \in Faults[r] /\ Refuse(r)
          \/ /\ taken \/ "database" \in Faults[r]
             /\ Refuse(r) /\ UNCHANGED account
    /\ UNCHANGED <<code, email, task>>

-----------------------------------------------------------------------------
(* resend_otp                                                              *)

Resend(r, a) ==
    Receive(r, "find", LocalOf("resend", a, None, None, VerifiedAddresses, {}))

FindUnverified(r) ==
    /\ pc[r] = "find"
    /\ LET a == local[r].address IN
          \/ Exists(a) /\ ~account[a].verified /\ Target(r, a, "retire")
          \/ (Exists(a) => account[a].verified) /\ Refuse(r)
    /\ UNCHANGED <<tables, task>>

\* The UPDATE; it is committed with the row of the mail.
Retire(r) ==
    /\ pc[r] = "retire"
    /\ \/ /\ local' = [local EXCEPT ![r].retired =
                {c \in Code : code[c] = "valid" /\ Owner(c) = local[r].target}]
          /\ GoTo(r, "create email")
       \/ "database" \in Faults[r] /\ Refuse(r)
    /\ UNCHANGED <<tables, task>>

\* apply_async.
Queue(r) ==
    /\ to' = [to EXCEPT ![r] = local[r].target]
    /\ step' = [step EXCEPT ![<<r, 1>>] = "queued"]

\* The answer, when the rows are written.
Answer(r) ==
    \/ Queue(r) /\ GoTo(r, "answered") /\ UNCHANGED local
    \/ "queue" \in Faults[r] /\ Refuse(r) /\ (Queue(r) \/ UNCHANGED <<to, step>>)
    \/ "database" \in Faults[r] /\ Refuse(r) /\ UNCHANGED <<to, step>>

\* Mutant: the codes are retired in a session of their own, which is closed.
CreateEmailOnly(r) ==
    /\ pc[r] = "create email"
    /\ email' = [email EXCEPT ![r] = "pending"]
    /\ Answer(r)
    /\ UNCHANGED <<account, code, retries, marked, mailed, history>>

\* EmailService.create_email, for a sign-up and a resend.
CreateEmail(r) ==
    /\ pc[r] = "create email"
    /\ \/ /\ email' = [email EXCEPT ![r] = "pending"]
          /\ code' = [c \in Code |-> IF c \in local[r].retired THEN "used" ELSE code[c]]
          /\ Answer(r)
       \/ "database" \in Faults[r] /\ Refuse(r) /\ UNCHANGED <<email, code, to, step>>
    /\ UNCHANGED <<account, retries, marked, mailed, history>>

-----------------------------------------------------------------------------
(* verify_account                                                          *)

\* The codes that were used, or that an answered resend retired.
Spent == {c \in Code : code[c] = "used"}
            \cup UNION {local[r].retired : r \in {s \in Request : pc[s] = "answered"}}

\* Any number that was not mailed is refused.
Verify(r, a, c) ==
    /\ c \in mailed
    /\ Receive(r, "find code", LocalOf("verify", a, None, c, VerifiedAddresses, Spent))

\* Mutant: a code is looked for without its user.
FindAnyCode(r) ==
    /\ pc[r] = "find code"
    /\ LET a == local[r].address IN
          \/ Exists(a) /\ code[local[r].code] = "valid" /\ Target(r, a, "save verified")
          \/ Refuse(r)
    /\ UNCHANGED <<tables, task>>

\* The filters "otp", "user_id" and "status".
Matches(c, a) == code[c] = "valid" /\ Owner(c) = a

\* The account and a code of its own that is valid and has not expired by now.
FindCode(r) ==
    /\ pc[r] = "find code"
    /\ LET a == local[r].address
           found == Exists(a) /\ Matches(local[r].code, a)
       IN  \/ found /\ Target(r, a, "save verified")
           \/ (~found \/ "expiry" \in Faults[r]) /\ Refuse(r)
    /\ UNCHANGED <<tables, task>>

\* The unit of work commits both rows.
SaveVerified(r) ==
    /\ pc[r] = "save verified"
    /\ Forget(r)
    /\ \/ GoTo(r, "answered")
       \/ "database" \in Faults[r] /\ GoTo(r, "refused")
    /\ \/ /\ account' = [account EXCEPT ![local[r].target].verified = TRUE]
          /\ code' = [code EXCEPT ![local[r].code] = "used"]
       \/ pc'[r] = "refused" /\ UNCHANGED <<account, code>>
    /\ UNCHANGED <<email, task>>

-----------------------------------------------------------------------------
(* send_verification_email, in run x of task x[1]                          *)

At(x, here, next) == step[x] = here /\ step' = [step EXCEPT ![x] = next]
\* "except Exception": a call to Redis or Postgres raises.
Raises(x, here) == "storage" \in Faults[x[1]] /\ At(x, here, "fail")

InProgress == {"send", "mark", "deliver", "store", "fail"}

\* The next delivery of run x's task.
Unused(x, y) ==
    /\ y \in RunsOf(x[1]) /\ step[y] = "none"
    /\ \A z \in RunsOf(x[1]) : z[2] < y[2] => step[z] # "none"

\* A message is put into the task queue; run x is at "next".
Publish(x, next, y, count) ==
    /\ step' = [step EXCEPT ![x] = next, ![y] = "queued"]
    /\ retries' = [retries EXCEPT ![y] = count]

\* Mutant: the idempotency key is not looked up.
TakeUnchecked(x) ==
    /\ At(x, "queued", "send")
    /\ UNCHANGED <<tables, handler, to, retries, marked, mailed, history>>

Take(x) ==
    /\ \/ At(x, "queued", IF x[1] \in marked THEN "over" ELSE "send")
       \/ Raises(x, "queued")
    /\ UNCHANGED <<tables, handler, to, retries, marked, mailed, history>>

\* Mutant: an error of the mail service is ignored.
SendUnchecked(x) ==
    /\ At(x, "send", "mark")
    /\ \/ mailed' = mailed \cup {x}
       \/ "mail" \in Faults[x[1]] /\ UNCHANGED mailed
    /\ UNCHANGED <<tables, handler, to, retries, marked, history>>

(* self.retry publishes a message and ends the run.  When the publication  *)
(* fails, whether or not the broker has the message, it raises Reject,     *)
(* which "except MaxRetriesError" does not catch: nothing is recorded.     *)
Retry(x) ==
    \/ \E y \in Run :
          /\ Unused(x, y) /\ retries[x] < MaxRetries
          /\ Publish(x, "over", y, retries[x] + 1)
          /\ UNCHANGED broken \/ ("broker" \in Faults[x[1]] /\ broken' = broken \cup {x[1]})
    \/ /\ "broker" \in Faults[x[1]] /\ retries[x] < MaxRetries
       /\ step' = [step EXCEPT ![x] = "over"] /\ broken' = broken \cup {x[1]}
       /\ UNCHANGED retries

(* The mail service may raise whether or not the mail goes out: a          *)
(* ResendError is tried again as long as retries are left, any other error *)
(* is final.                                                               *)
Send(x) ==
    /\ step[x] = "send"
    /\ \/ /\ At(x, "send", "mark") /\ mailed' = mailed \cup {x}
          /\ UNCHANGED <<retries, broken>>
       \/ /\ "mail" \in Faults[x[1]]
          /\ Retry(x) \/ (At(x, "send", "fail") /\ UNCHANGED <<retries, broken>>)
          /\ mailed' = mailed \cup {x} \/ UNCHANGED mailed
    /\ UNCHANGED <<tables, handler, to, marked, doubled, unsure, late>>

Mark(x) ==
    /\ At(x, "mark", "deliver") \/ Raises(x, "mark")
    /\ \/ /\ marked' = marked \cup {x[1]}
          /\ late' = late \cup {y \in RunsOf(x[1]) : step[y] \in {"none", "queued"}}
       \/ step'[x] = "fail" /\ UNCHANGED <<marked, late>>
    /\ UNCHANGED <<tables, handler, to, retries, mailed, broken, doubled, unsure>>

\* The key's time to live is over.
KeyExpires(t) ==
    /\ "key expiry" \in Faults[t] /\ t \in marked
    /\ marked' = marked \ {t} /\ late' = late \ RunsOf(t)
    /\ UNCHANGED <<tables, handler, to, step, retries, mailed, broken, doubled, unsure>>

\* Mutant: the code is stored before the row of the mail is updated.
DeliverStored(x) ==
    /\ code' = [code EXCEPT ![x] = "valid"]
    /\ At(x, "deliver", "over") \/ Raises(x, "deliver")
    /\ \/ email' = [email EXCEPT ![x[1]] = "delivered"]
       \/ step'[x] = "fail" /\ UNCHANGED email
    /\ UNCHANGED <<account, handler, to, retries, marked, mailed, history>>

\* Mutant: the row is given a status that its column does not know.
DeliverSent(x) ==
    /\ At(x, "deliver", "store")
    /\ email' = [email EXCEPT ![x[1]] = "sent"]
    /\ UNCHANGED <<account, code, handler, to, retries, marked, mailed, history>>

Deliver(x) ==
    /\ At(x, "deliver", "store") \/ Raises(x, "deliver")
    /\ \/ email' = [email EXCEPT ![x[1]] = "delivered"]
       \/ step'[x] = "fail" /\ UNCHANGED email
    /\ UNCHANGED <<account, code, handler, to, retries, marked, mailed, history>>

\* The insertion also fails on a number that another code has.
Store(x) ==
    /\ \/ /\ At(x, "store", "over")
          /\ code' = [code EXCEPT ![x] = "valid"] /\ UNCHANGED unsure
       \/ /\ Raises(x, "store")
          /\ \/ code' = [code EXCEPT ![x] = "valid"] /\ unsure' = unsure \cup {x}
             \/ UNCHANGED <<code, unsure>>
    /\ UNCHANGED <<account, email, handler, to, retries, marked, mailed, broken, doubled, late>>

\* Mutant: a failure is rejected without a trace.
RejectOnly(x) ==
    /\ At(x, "fail", "over")
    /\ UNCHANGED <<tables, handler, to, retries, marked, mailed, history>>

\* _handle_failure and Reject.
HandleFailure(x) ==
    /\ At(x, "fail", "over")
    /\ \/ email' = [email EXCEPT ![x[1]] = "failed"] /\ UNCHANGED broken
       \/ /\ "storage" \in Faults[x[1]] /\ broken' = broken \cup {x[1]}
          /\ email' = [email EXCEPT ![x[1]] = "failed"] \/ UNCHANGED email
    /\ UNCHANGED <<account, code, handler, to, retries, marked, mailed, doubled, unsure, late>>

(* task_acks_late: the broker delivers the task of a worker that is gone   *)
(* again.  When only the worker's pool process dies, the task is           *)
(* acknowledged (Celery's setting is task_reject_on_worker_lost).          *)
WorkerDies(x) ==
    /\ "worker" \in Faults[x[1]] /\ step[x] \in InProgress
    /\ \/ /\ x \notin doubled
          /\ \E y \in Run : Unused(x, y) /\ Publish(x, "over", y, retries[x])
       \/ step' = [step EXCEPT ![x] = "over"] /\ UNCHANGED retries
    /\ broken' = broken \cup {x[1]}
    /\ UNCHANGED <<tables, handler, to, marked, mailed, doubled, unsure, late>>

(* The worker loses the broker, or a heartbeat, with the task              *)
(* unacknowledged: the broker delivers it again while the run goes on.     *)
Redeliver(x) ==
    /\ "worker" \in Faults[x[1]] /\ step[x] \in InProgress /\ x \notin doubled
    /\ \E y \in Run : Unused(x, y) /\ Publish(x, step[x], y, retries[x])
    /\ doubled' = doubled \cup {x}
    /\ UNCHANGED <<tables, handler, to, marked, mailed, broken, unsure, late>>

-----------------------------------------------------------------------------
Handle(r) ==
    \/ FindEmail(r) \/ FindName(r) \/ SavePassword(r) \/ CreateUser(r)
    \/ FindUnverified(r) \/ Retire(r) \/ CreateEmail(r)
    \/ FindCode(r) \/ SaveVerified(r)

Work(x) ==
    Take(x) \/ Send(x) \/ Mark(x) \/ Deliver(x) \/ Store(x) \/ HandleFailure(x)

Next ==
    \/ \E r \in Request :
          \/ \E a \in Address :
                \/ \E n \in Name : SignUp(r, a, n)
                \/ Resend(r, a)
                \/ \E c \in Code : Verify(r, a, c)
          \/ Handle(r) \/ KeyExpires(r)
    \/ \E x \in Run : Work(x) \/ WorkerDies(x) \/ Redeliver(x)

Spec == Init /\ [][Next]_vars

(* Calls return or raise, and the worker takes the tasks that are queued.  *)
FairSpec == Spec /\ WF_vars((\E r \in Request : Handle(r)) \/ \E x \in Run : Work(x))

-----------------------------------------------------------------------------
TypeOK ==
    /\ account \in [Address -> Account \cup {None}]
    /\ code \in [Code -> CodeStatus]
    /\ email \in [Request -> EmailStatus]
    /\ pc \in [Request -> HandlerPC] /\ local \in [Request -> Local]
    /\ to \in [Request -> Address \cup {None}]
    /\ step \in [Run -> TaskPC] /\ retries \in [Run -> 0 .. MaxRetries]
    /\ marked \subseteq Request /\ mailed \subseteq Code
    /\ broken \subseteq Request /\ doubled \subseteq Run /\ unsure \subseteq Code
    /\ late \subseteq Run

(* A verified account was verified with a code that was mailed to it.      *)
VerifiedByOwnMail ==
    \A a \in VerifiedAddresses :
        \E c \in Code : code[c] = "used" /\ Owner(c) = a /\ c \in mailed

(* A mail whose row says "failed" left no code behind: whoever holds such  *)
(* a mail needs a new one.  Two cases of the code are exempt: a code whose *)
(* insertion was carried out although it raised, and a task of which two   *)
(* runs overlapped, where one may store its code and the other fail.       *)
FailedLeftNoCode ==
    \A t \in Request : email[t] = "failed" /\ RunsOf(t) \cap doubled = {}
        => \A c \in CodesOf(t) \ unsure : code[c] = "none"

(* "invalidate all existing codes": a verification that arrives after a    *)
(* resend was answered, or after a code was used, is not accepted with a   *)
(* code that the resend retired, or with that code again.  (One that had   *)
(* looked its code up before is; verify_account does not look again.  And  *)
(* a code that an older task stores after the resend's update works.)      *)
RetiredStayRetired ==
    \A r \in Request : pc[r] = "save verified" => local[r].code \notin local[r].spent

(* The idempotency key: of a mail that was marked as processed, no run     *)
(* that begins while the key lives sends another, be it a retry, a         *)
(* redelivery or a task whose first run still goes on.  (A run that looked *)
(* the key up before it was set does.)                                     *)
MarkedIsNotSentAgain == late \cap mailed = {}

(* A sign-up does not touch the password of an account that was verified   *)
(* when the request arrived.  (One that is verified after the sign-up read *)
(* its row gets the new password.)                                         *)
VerifiedKeepsPassword ==
    [][\A a \in Address : Exists(a) /\ account'[a] # None
          /\ account'[a].password # account[a].password
          => a \notin local[account'[a].password].verified]_vars

\* A code is drawn, mailed, stored and used.
Codes == INSTANCE Lifecycle WITH
    Item <- Code, Last <- 3,
    stage <- [c \in Code |-> IF code[c] = "used" THEN 3 ELSE IF code[c] = "valid" THEN 2
                             ELSE IF c \in mailed THEN 1 ELSE 0]

(* A code in the table reached a mailbox first, through retries, failures, *)
(* redeliveries and overlapping runs of its task, and the status of a code *)
(* that was used or retired never goes back, whichever handler writes its  *)
(* row last.                                                               *)
CodesAdvance == Codes!Spec

\* Answered requests without a stored code or a mail recorded as failed.
Unsettled ==
    {r \in Request : pc[r] = "answered" /\ to[r] # None /\ email[r] # "failed"
                      /\ r \notin broken /\ \A c \in CodesOf(r) : code[c] = "none"}

(* Every sign-up and resend that was answered ends in a stored code or a   *)
(* mail recorded as failed, unless its worker died, or could not write the *)
(* failure or publish the retry.                                           *)
AnsweredIsSettled == []<>(Unsettled = {})

-----------------------------------------------------------------------------
(* What the documentation says                                             *)

(* Sign up with email, routers/auth.py: "A verification code is sent to    *)
(* the user's email on completion".                                        *)
SignUpMailsItsAddress ==
    \A r \in Request : pc[r] = "answered" /\ local[r].kind = "sign up"
        => to[r] = local[r].address

=============================================================================
