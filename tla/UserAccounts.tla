---------------------------- MODULE UserAccounts ----------------------------
(***************************************************************************)
(* Registration and login: app/services/user_service.py over the table of  *)
(* users, with the semaphore of app/security.py around every bcrypt call.  *)
(* The worker processes share the table, each has a semaphore of its own.  *)
(*                                                                         *)
(* A handler is interrupted at every await: before and after the thread    *)
(* that runs bcrypt, and at each statement.  A user is named after the     *)
(* request that inserted it; a password stands for its hash.               *)
(***************************************************************************)
EXTENDS Integers, FiniteSets

CONSTANTS Workers, Requests, WorkerOf,
          Names, Emails, Passwords,
          Bodies,    \* the request bodies that may arrive
          MaxBcrypt  \* bcrypt_max_concurrent

Registration == [kind : {"register"}, name : Names, email : Emails, password : Passwords]
Login        == [kind : {"login"}, name : Names, password : Passwords]

ASSUME BodiesAssumption  == Bodies \subseteq Registration \cup Login
ASSUME WorkersAssumption == WorkerOf \in [Requests -> Workers] /\ IsFiniteSet(Requests)
ASSUME BcryptAssumption  == MaxBcrypt \in Nat \ {0}

VARIABLES
  users,    \* the committed rows of users
  permits,  \* what is left of each worker's bcrypt_semaphore
  at,       \* where each request stands
  form,     \* its body
  found,    \* the rows a login has read: one or none
  answer,   \* its response
  inactive  \* history: the accounts that were inactive when it arrived

vars == <<users, permits, at, form, found, answer, inactive>>

NoForm == [kind |-> "none"]

Init == /\ users = {}
        /\ permits = [w \in Workers |-> MaxBcrypt]
        /\ at = [r \in Requests |-> "idle"]
        /\ form = [r \in Requests |-> NoForm]
        /\ found = [r \in Requests |-> {}]
        /\ answer = [r \in Requests |-> "none"]
        /\ inactive = [r \in Requests |-> {}]

Goto(r, stage) == at' = [at EXCEPT ![r] = stage]

Answer(r, a) == Goto(r, "answered") /\ answer' = [answer EXCEPT ![r] = a]

Named(n) == {u \in users : u.name = n}

\* A registration hashes first, a login reads first.
Arrive(r, f) ==
  /\ at[r] = "idle"
  /\ Goto(r, IF f.kind = "register" THEN "queued" ELSE "looking")
  /\ form' = [form EXCEPT ![r] = f]
  /\ inactive' = [inactive EXCEPT ![r] = {u.by : u \in {v \in users : ~v.active}}]
  /\ UNCHANGED <<users, permits, found, answer>>
-----------------------------------------------------------------------------
(* hash_password_async, verify_password_async *)

Acquire(r) ==
  /\ at[r] = "queued" /\ permits[WorkerOf[r]] > 0
  /\ permits' = [permits EXCEPT ![WorkerOf[r]] = @ - 1]
  /\ Goto(r, "hashing")
  /\ UNCHANGED <<users, form, found, answer, inactive>>

\* A mutant of Release: the permit is kept.
KeepPermit(r) == UNCHANGED permits

Release(r) == permits' = [permits EXCEPT ![WorkerOf[r]] = @ + 1]

Hashed(r) ==
  /\ at[r] = "hashing" /\ form[r].kind = "register"
  /\ Release(r)
  /\ Goto(r, "naming")
  /\ UNCHANGED <<users, form, found, answer, inactive>>

\* bcrypt refuses the password, which may be longer than what it accepts.
HashFails(r) ==
  /\ at[r] = "hashing" /\ form[r].kind = "register"
  /\ Release(r)
  /\ Answer(r, "error")
  /\ UNCHANGED <<users, form, found, inactive>>

\* A mutant of Verdict: the account's state is not looked at.
VerdictOfPassword(u, password) == IF u.password # password THEN "denied" ELSE "token"

\* What login makes of the row it has read: 401, 403 or a token.
Verdict(u, password) == IF u.password # password THEN "denied"
                        ELSE IF ~u.active THEN "inactive" ELSE "token"

Verified(r) ==
  /\ at[r] = "hashing" /\ form[r].kind = "login"
  /\ Release(r)
  /\ \E u \in found[r] : Answer(r, Verdict(u, form[r].password))
  /\ UNCHANGED <<users, form, found, inactive>>
-----------------------------------------------------------------------------
(* login *)

\* The session is closed with the row in memory; without one, the answer is 401.
LookUp(r) ==
  /\ at[r] = "looking"
  /\ found' = [found EXCEPT ![r] = Named(form[r].name)]
  /\ IF found'[r] = {} THEN Answer(r, "denied") ELSE Goto(r, "queued") /\ UNCHANGED answer
  /\ UNCHANGED <<users, permits, form, inactive>>
-----------------------------------------------------------------------------
(* register_with_hash *)

CheckName(r) ==
  /\ at[r] = "naming"
  /\ IF Named(form[r].name) # {} THEN Answer(r, "taken")
     ELSE Goto(r, "mailing") /\ UNCHANGED answer
  /\ UNCHANGED <<users, permits, form, found, inactive>>

WithEmail(e) == {u \in users : u.email = e}

CheckEmail(r) ==
  /\ at[r] = "mailing"
  /\ IF WithEmail(form[r].email) # {} THEN Answer(r, "taken")
     ELSE Goto(r, "inserting") /\ UNCHANGED answer
  /\ UNCHANGED <<users, permits, form, found, inactive>>

\* A mutant of Unique: nothing but the checks above guards the name.
UniqueEmail(r) == WithEmail(form[r].email) = {}

\* The unique constraints of the table.
Unique(r) == Named(form[r].name) = {} /\ WithEmail(form[r].email) = {}

Row(r) == [by |-> r, name |-> form[r].name, email |-> form[r].email,
           password |-> form[r].password, active |-> TRUE]

Insert(r) ==
  /\ at[r] = "inserting" /\ Unique(r)
  /\ users' = users \cup {Row(r)}
  /\ Goto(r, "refreshing")
  /\ UNCHANGED <<permits, form, found, answer, inactive>>

\* IntegrityError, whatever the checks have found: rolled back, a 400.
Refused(r) ==
  /\ at[r] = "inserting" /\ ~Unique(r)
  /\ Answer(r, "taken")
  /\ UNCHANGED <<users, permits, form, found, inactive>>

\* A mutant of CommitFails: every exception of the commit becomes a 400.
CommitRefused(r) ==
  /\ at[r] = "inserting"
  /\ \/ UNCHANGED users
     \/ Unique(r) /\ users' = users \cup {Row(r)}
  /\ Answer(r, "taken")
  /\ UNCHANGED <<permits, form, found, inactive>>

\* The connection is lost in the commit, which may have been applied if the
\* database had nothing against the row.
CommitFails(r) ==
  /\ at[r] = "inserting"
  /\ \/ UNCHANGED users
     \/ Unique(r) /\ users' = users \cup {Row(r)}
  /\ Answer(r, "error")
  /\ UNCHANGED <<permits, form, found, inactive>>

Refresh(r) ==
  /\ at[r] = "refreshing"
  /\ Answer(r, "token")
  /\ UNCHANGED <<users, permits, form, found, inactive>>

\* Any other statement fails; after the commit there is nothing to roll back.
StatementFails(r) ==
  /\ at[r] \in {"looking", "naming", "mailing", "refreshing"}
  /\ Answer(r, "error")
  /\ UNCHANGED <<users, permits, form, found, inactive>>

\* An administrator deactivates an account in the database.
Deactivate(u) ==
  /\ u \in users /\ u.active
  /\ users' = (users \ {u}) \cup {[u EXCEPT !.active = FALSE]}
  /\ UNCHANGED <<permits, at, form, found, answer, inactive>>
-----------------------------------------------------------------------------
Register(r) == Hashed(r) \/ CheckName(r) \/ CheckEmail(r) \/ Insert(r) \/ Refused(r) \/ Refresh(r)

Proceed(r) == Acquire(r) \/ Register(r) \/ LookUp(r) \/ Verified(r)

Break(r) == HashFails(r) \/ CommitFails(r) \/ StatementFails(r)

Next == \/ \E r \in Requests : \/ \E f \in Bodies : Arrive(r, f)
                               \/ Proceed(r) \/ Break(r)
        \/ \E u \in users : Deactivate(u)

\* The database and the threads answer, and the event loop resumes the handler.
Spec == Init /\ [][Next]_vars /\ \A r \in Requests : WF_vars(Proceed(r))
-----------------------------------------------------------------------------
(* Properties *)

Users == [by : Requests, name : Names, email : Emails, password : Passwords, active : BOOLEAN]

Stages == {"idle", "queued", "hashing", "naming", "mailing", "inserting", "refreshing",
           "looking", "answered"}

Hashing(w) == {r \in Requests : at[r] = "hashing" /\ WorkerOf[r] = w}

\* Every variable holds values the program can store in it.
TypeOK ==
  /\ users \subseteq Users
  /\ permits \in [Workers -> 0..MaxBcrypt]
  /\ at \in [Requests -> Stages]
  /\ form \in [Requests -> Bodies \cup {NoForm}]
  /\ found \in [Requests -> SUBSET Users]
  /\ answer \in [Requests -> {"none", "token", "taken", "denied", "inactive", "error"}]
  /\ inactive \in [Requests -> SUBSET Requests]

\* However registrations interleave between their checks and their inserts, no
\* two accounts share a name or an address.
UniqueAccounts ==
  \A u, v \in users : u # v => u.name # v.name /\ u.email # v.email

Mine(r) == {u \in users : u.by = r}

\* A registration that was answered with a token has its account, with its own
\* password; one that was refused has none, and some other account has the name
\* or the address it asked for.
RepliesTrue ==
  \A r \in Requests : form[r].kind = "register" /\ at[r] = "answered" =>
    /\ answer[r] = "token" => \E u \in Mine(r) : u.name = form[r].name /\ u.password = form[r].password
    /\ answer[r] = "taken" => /\ Mine(r) = {}
                              /\ Named(form[r].name) \cup WithEmail(form[r].email) # {}

\* A login gets a token only for an account that has its name and password and
\* was not yet deactivated when the request arrived, although it is decided on
\* a row read before an unbounded wait for bcrypt.
TokensEarned ==
  \A r \in Requests : form[r].kind = "login" /\ answer[r] = "token" =>
    \E u \in users : /\ u.name = form[r].name /\ u.password = form[r].password
                     /\ u.by \notin inactive[r]

\* No path through bcrypt, its failure included, keeps a permit: everyone who
\* queues for one is answered in the end.
EveryoneAnswered == \A r \in Requests : at[r] # "idle" ~> at[r] = "answered"
=============================================================================
