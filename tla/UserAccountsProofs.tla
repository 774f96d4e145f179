------------------------- MODULE UserAccountsProofs -------------------------
(***************************************************************************)
(* Theorems about UserAccounts, for any requests, any bodies they may have *)
(* and any number of permits for bcrypt.                                   *)
(***************************************************************************)
EXTENDS UserAccounts, FiniteSetTheorems, TLAPS

\* What a request is at each stage.
Formed ==
  \A r \in Requests :
    /\ at[r] = "idle" => form[r] = NoForm
    /\ at[r] # "idle" => form[r] \in Bodies
    /\ at[r] \in {"naming", "mailing", "inserting", "refreshing"} => form[r].kind = "register"
    /\ at[r] \in {"idle", "looking"} => found[r] = {}
    /\ at[r] = "looking" => form[r].kind = "login"
    /\ at[r] # "answered" => answer[r] = "none"

\* A registration has no account before its insert, and its own after it.
Accounts ==
  \A r \in Requests :
    /\ at[r] \notin {"refreshing", "answered"} => Mine(r) = {}
    /\ at[r] = "refreshing" =>
         \E u \in Mine(r) : u.name = form[r].name /\ u.password = form[r].password

\* What a login has read is still true but for the account's state, which was
\* not inactive when the login arrived if it was active when it was read.
ReadRows ==
  \A r \in Requests : \A u \in found[r] :
    /\ u.name = form[r].name
    /\ u.active => u.by \notin inactive[r]
    /\ \E v \in users : v.by = u.by /\ v.name = u.name /\ v.password = u.password

\* An account that was inactive once is inactive.
Deactivated ==
  \A r \in Requests : \A b \in inactive[r] :
    /\ \E u \in users : u.by = b
    /\ \A u \in users : u.by = b => ~u.active

\* A request inserts one account at most.
OneEach == \A u, v \in users : u.by = v.by => u = v

\* Free permits and the threads that run bcrypt add up, on every worker.
Conserved == \A w \in Workers : permits[w] + Cardinality(Hashing(w)) = MaxBcrypt

IInv == /\ TypeOK /\ Formed /\ Accounts /\ ReadRows /\ Deactivated /\ OneEach
        /\ Conserved /\ UniqueAccounts /\ RepliesTrue /\ TokensEarned
-----------------------------------------------------------------------------
\* A body is a registration or a login, as its kind says.
LEMMA Kinds ==
  ASSUME NEW f \in Bodies
  PROVE  /\ f.kind \in {"register", "login"}
         /\ f.kind = "register" => f.name \in Names /\ f.email \in Emails /\ f.password \in Passwords
         /\ f.kind = "login" => f.name \in Names /\ f.password \in Passwords
BY BodiesAssumption DEF Registration, Login

\* The row that a registration inserts.
LEMMA RowType ==
  ASSUME NEW r \in Requests, form[r] \in Bodies, form[r].kind = "register"
  PROVE  /\ Row(r) \in Users /\ Row(r).by = r /\ Row(r).name = form[r].name
         /\ Row(r).email = form[r].email /\ Row(r).password = form[r].password
         /\ Row(r).active = TRUE
<1>1. form[r].name \in Names /\ form[r].email \in Emails /\ form[r].password \in Passwords
  BY Kinds
<1> QED BY <1>1 DEF Row, Users

\* Someone who starts to hash is counted, and a worker's count says who hashes.
LEMMA HashingFinite ==
  ASSUME NEW w
  PROVE  /\ IsFiniteSet(Hashing(w)) /\ IsFiniteSet(Hashing(w)')
         /\ Cardinality(Hashing(w)) \in Nat /\ Cardinality(Hashing(w)') \in Nat
<1>1. Hashing(w) \subseteq Requests /\ Hashing(w)' \subseteq Requests
  BY DEF Hashing
<1> QED BY <1>1, WorkersAssumption, FS_Subset, FS_CardinalityType

\* A request that begins to hash takes a permit.
LEMMA Entered ==
  ASSUME NEW r \in Requests, at \in [Requests -> Stages], at[r] # "hashing",
         Goto(r, "hashing")
  PROVE  /\ Cardinality(Hashing(WorkerOf[r])') = Cardinality(Hashing(WorkerOf[r])) + 1
         /\ \A w \in Workers : w # WorkerOf[r] => Hashing(w)' = Hashing(w)
<1>1. Hashing(WorkerOf[r])' = Hashing(WorkerOf[r]) \cup {r} /\ r \notin Hashing(WorkerOf[r])
  BY DEF Hashing, Goto
<1>2. Cardinality(Hashing(WorkerOf[r])') = Cardinality(Hashing(WorkerOf[r])) + 1
  BY <1>1, HashingFinite, FS_AddElement
<1>3. \A w \in Workers : w # WorkerOf[r] => Hashing(w)' = Hashing(w)
  BY DEF Hashing, Goto
<1> QED BY <1>2, <1>3

\* A request that ends hashing gives its permit back.
LEMMA Left ==
  ASSUME NEW r \in Requests, NEW stage, at \in [Requests -> Stages], at[r] = "hashing",
         stage # "hashing", Goto(r, stage)
  PROVE  /\ Cardinality(Hashing(WorkerOf[r])') = Cardinality(Hashing(WorkerOf[r])) - 1
         /\ \A w \in Workers : w # WorkerOf[r] => Hashing(w)' = Hashing(w)
<1>1. Hashing(WorkerOf[r])' = Hashing(WorkerOf[r]) \ {r} /\ r \in Hashing(WorkerOf[r])
  BY DEF Hashing, Goto
<1>2. Cardinality(Hashing(WorkerOf[r])') = Cardinality(Hashing(WorkerOf[r])) - 1
  BY <1>1, HashingFinite, FS_RemoveElement
<1>3. \A w \in Workers : w # WorkerOf[r] => Hashing(w)' = Hashing(w)
  BY DEF Hashing, Goto
<1> QED BY <1>2, <1>3

\* Any other step leaves the set alone.
LEMMA Elsewhere ==
  ASSUME NEW r \in Requests, NEW stage, at \in [Requests -> Stages], at[r] # "hashing",
         stage # "hashing", Goto(r, stage)
  PROVE  \A w \in Workers : Hashing(w)' = Hashing(w)
BY DEF Hashing, Goto
-----------------------------------------------------------------------------
\* The initial state satisfies the invariant.
LEMMA Initially == Init => IInv
<1> SUFFICES ASSUME Init PROVE IInv
  OBVIOUS
<1>1. TypeOK
  BY BcryptAssumption DEF Init, TypeOK, Stages
<1>2. Conserved
  <2>1. \A w \in Workers : Hashing(w) = {}
    BY DEF Init, Hashing
  <2> QED BY <2>1, FS_EmptySet, BcryptAssumption DEF Init, Conserved
<1>3. Formed /\ Accounts /\ ReadRows /\ Deactivated
  BY DEF Init, Formed, Accounts, ReadRows, Deactivated, Mine, NoForm
<1>4. OneEach /\ UniqueAccounts /\ RepliesTrue /\ TokensEarned
  BY DEF Init, OneEach, UniqueAccounts, RepliesTrue, TokensEarned, NoForm
<1> QED BY <1>1, <1>2, <1>3, <1>4 DEF IInv


LEMMA ConservedStep == IInv /\ [Next]_vars => Conserved'
<1> SUFFICES ASSUME IInv, [Next]_vars PROVE Conserved'
  OBVIOUS
<1> USE DEF IInv
<1>0. /\ at \in [Requests -> Stages] /\ permits \in [Workers -> Nat] /\ MaxBcrypt \in Nat
      /\ \A r \in Requests : WorkerOf[r] \in Workers
      /\ \A w \in Workers : Cardinality(Hashing(w)) \in Nat
  <2>1. at \in [Requests -> Stages]
    BY DEF TypeOK
  <2>2. permits \in [Workers -> Nat] /\ MaxBcrypt \in Nat
    BY BcryptAssumption DEF TypeOK
  <2>3. \A r \in Requests : WorkerOf[r] \in Workers
    BY WorkersAssumption
  <2>4. \A w \in Workers : Cardinality(Hashing(w)) \in Nat
    BY HashingFinite
  <2> QED BY <2>1, <2>2, <2>3, <2>4
<1>1. ASSUME UNCHANGED permits, \A w \in Workers : Hashing(w)' = Hashing(w)
      PROVE  Conserved'
  BY <1>1 DEF Conserved
<1>2. ASSUME NEW r \in Requests, NEW stage, Goto(r, stage), UNCHANGED permits,
             at[r] # "hashing", stage # "hashing"
      PROVE  Conserved'
  BY <1>0, <1>1, <1>2, Elsewhere
<1>3. ASSUME NEW r \in Requests, NEW stage, Goto(r, stage), Release(r),
             at[r] = "hashing", stage # "hashing"
      PROVE  Conserved'
  <2>1. /\ Cardinality(Hashing(WorkerOf[r])') = Cardinality(Hashing(WorkerOf[r])) - 1
        /\ \A w \in Workers : w # WorkerOf[r] => Hashing(w)' = Hashing(w)
    BY <1>0, <1>3, Left
  <2>2. permits' = [permits EXCEPT ![WorkerOf[r]] = @ + 1]
    BY <1>3 DEF Release
  <2>3. ASSUME NEW w \in Workers PROVE permits'[w] + Cardinality(Hashing(w)') = MaxBcrypt
    <3>1. CASE w = WorkerOf[r]
      BY <1>0, <2>1, <2>2, <3>1 DEF Conserved
    <3>2. CASE w # WorkerOf[r]
      BY <1>0, <2>1, <2>2, <3>2 DEF Conserved
    <3> QED BY <3>1, <3>2
  <2> QED BY <2>3 DEF Conserved
<1>4. ASSUME NEW r \in Requests, Acquire(r) PROVE Conserved'
  <2>1. /\ Cardinality(Hashing(WorkerOf[r])') = Cardinality(Hashing(WorkerOf[r])) + 1
        /\ \A w \in Workers : w # WorkerOf[r] => Hashing(w)' = Hashing(w)
    BY <1>0, <1>4, Entered DEF Acquire
  <2>2. permits' = [permits EXCEPT ![WorkerOf[r]] = @ - 1]
    BY <1>4 DEF Acquire
  <2>3. ASSUME NEW w \in Workers PROVE permits'[w] + Cardinality(Hashing(w)') = MaxBcrypt
    <3>1. CASE w = WorkerOf[r]
      BY <1>0, <2>1, <2>2, <3>1 DEF Conserved
    <3>2. CASE w # WorkerOf[r]
      BY <1>0, <2>1, <2>2, <3>2 DEF Conserved
    <3> QED BY <3>1, <3>2
  <2> QED BY <2>3 DEF Conserved
<1>5. ASSUME NEW r \in Requests, Hashed(r) \/ HashFails(r) \/ Verified(r) PROVE Conserved'
  BY <1>3, <1>5 DEF Hashed, HashFails, Verified, Answer
<1>6. ASSUME NEW r \in Requests, NEW f \in Bodies, Arrive(r, f) PROVE Conserved'
  BY <1>2, <1>6 DEF Arrive
<1>7. ASSUME NEW r \in Requests,
             LookUp(r) \/ CheckName(r) \/ CheckEmail(r) \/ Insert(r) \/ Refused(r)
               \/ Refresh(r) \/ CommitFails(r) \/ StatementFails(r)
      PROVE  Conserved'
  BY <1>2, <1>7 DEF LookUp, CheckName, CheckEmail, Insert, Refused, Refresh, CommitFails,
                    StatementFails, Answer
<1>8. ASSUME NEW u \in users, Deactivate(u) PROVE Conserved'
  BY <1>1, <1>8 DEF Deactivate, Hashing
<1>9. ASSUME UNCHANGED vars PROVE Conserved'
  BY <1>1, <1>9 DEF vars, Hashing
<1> QED BY <1>4, <1>5, <1>6, <1>7, <1>8, <1>9 DEF Next, Proceed, Register, Break

\* What is free is never more than there are permits.
LEMMA PermitsBounded ==
  ASSUME Conserved', permits' \in [Workers -> Int]
  PROVE  permits' \in [Workers -> 0..MaxBcrypt] \/ \E w \in Workers : permits'[w] < 0
<1>1. \A w \in Workers : permits'[w] <= MaxBcrypt
  BY HashingFinite, BcryptAssumption DEF Conserved
<1> QED BY <1>1, BcryptAssumption

LEMMA TypeStep == IInv /\ [Next]_vars => TypeOK'
<1> SUFFICES ASSUME IInv, [Next]_vars PROVE TypeOK'
  OBVIOUS
<1> USE DEF IInv
<1>0. Conserved'
  BY ConservedStep
<1>1. permits' \in [Workers -> 0..MaxBcrypt]
  <2>1. permits' \in [Workers -> Int] /\ \A w \in Workers : permits'[w] >= 0
    BY BcryptAssumption, WorkersAssumption
    DEF TypeOK, Next, vars, Arrive, Proceed, Register, Break, Acquire, Hashed, HashFails, Verified,
        LookUp, CheckName, CheckEmail, Insert, Refused, CommitFails, Refresh, StatementFails,
        Deactivate, Release
  <2> QED BY <1>0, <2>1, PermitsBounded
<1>2. ASSUME UNCHANGED vars PROVE TypeOK'
  BY <1>2 DEF TypeOK, vars
<1>3. ASSUME NEW r \in Requests, NEW f \in Bodies, Arrive(r, f) PROVE TypeOK'
  <2>1. {u.by : u \in {v \in users : ~v.active}} \subseteq Requests
    BY DEF TypeOK, Users
  <2> QED BY <1>1, <1>3, <2>1 DEF TypeOK, Stages, Arrive, Goto
<1>4. ASSUME NEW r \in Requests,
             Acquire(r) \/ Hashed(r) \/ HashFails(r) \/ CheckName(r) \/ CheckEmail(r) \/ Refused(r)
               \/ Refresh(r) \/ StatementFails(r)
      PROVE  TypeOK'
  BY <1>1, <1>4 DEF TypeOK, Stages, Acquire, Hashed, HashFails, CheckName, CheckEmail, Refused, Refresh,
                    StatementFails, Answer, Goto
<1>5. ASSUME NEW r \in Requests, Verified(r) PROVE TypeOK'
  BY <1>1, <1>5 DEF TypeOK, Stages, Verified, Verdict, Answer, Goto
<1>6. ASSUME NEW r \in Requests, LookUp(r) PROVE TypeOK'
  BY <1>1, <1>6 DEF TypeOK, Stages, LookUp, Named, Answer, Goto
<1>7. ASSUME NEW r \in Requests, Insert(r) \/ CommitFails(r) PROVE TypeOK'
  <2>1. Row(r) \in Users
    BY <1>7, RowType DEF Formed, Insert, CommitFails
  <2> QED BY <1>1, <1>7, <2>1 DEF TypeOK, Stages, Insert, CommitFails, Answer, Goto
<1>8. ASSUME NEW u \in users, Deactivate(u) PROVE TypeOK'
  <2>1. [u EXCEPT !.active = FALSE] \in Users
    BY DEF TypeOK, Users
  <2> QED BY <1>1, <1>8, <2>1 DEF TypeOK, Deactivate
<1> QED BY <1>2, <1>3, <1>4, <1>5, <1>6, <1>7, <1>8 DEF Next, Proceed, Register, Break

LEMMA FormedStep == IInv /\ [Next]_vars => Formed'
<1> SUFFICES ASSUME IInv, [Next]_vars PROVE Formed'
  OBVIOUS
<1> USE DEF IInv, TypeOK, Formed
<1>1. ASSUME UNCHANGED vars PROVE Formed'
  BY <1>1 DEF vars
<1>2. ASSUME NEW r \in Requests, NEW f \in Bodies, Arrive(r, f) PROVE Formed'
  BY <1>2, Kinds DEF Arrive, Goto
<1>3. ASSUME NEW r \in Requests, Acquire(r) \/ Hashed(r) \/ CheckName(r) \/ CheckEmail(r) \/ Insert(r)
      PROVE  Formed'
  BY <1>3 DEF Acquire, Hashed, CheckName, CheckEmail, Insert, Answer, Goto
<1>4. ASSUME NEW r \in Requests,
             HashFails(r) \/ Verified(r) \/ Refused(r) \/ CommitFails(r) \/ Refresh(r) \/ StatementFails(r)
      PROVE  Formed'
  BY <1>4 DEF HashFails, Verified, Refused, CommitFails, Refresh, StatementFails, Answer, Goto
<1>5. ASSUME NEW r \in Requests, LookUp(r) PROVE Formed'
  BY <1>5 DEF LookUp, Answer, Goto
<1>6. ASSUME NEW u \in users, Deactivate(u) PROVE Formed'
  BY <1>6 DEF Deactivate
<1> QED BY <1>1, <1>2, <1>3, <1>4, <1>5, <1>6 DEF Next, Proceed, Register, Break
-----------------------------------------------------------------------------
\* One account at two moments: it may have been deactivated in between.
Same(u, v) == /\ v.by = u.by /\ v.name = u.name /\ v.email = u.email /\ v.password = u.password
              /\ v.active => u.active

\* No step removes an account.
LEMMA Kept == IInv /\ [Next]_vars => \A u \in users : \E v \in users' : Same(u, v)
<1> SUFFICES ASSUME IInv, [Next]_vars PROVE \A u \in users : \E v \in users' : Same(u, v)
  OBVIOUS
<1>1. CASE users \subseteq users'
  BY <1>1 DEF Same
<1>2. ASSUME NEW d \in users, Deactivate(d) PROVE \A u \in users : \E v \in users' : Same(u, v)
  <2>1. d \in Users /\ users' = (users \ {d}) \cup {[d EXCEPT !.active = FALSE]}
    BY <1>2 DEF IInv, TypeOK, Deactivate
  <2>2. Same(d, [d EXCEPT !.active = FALSE])
    BY <2>1 DEF Same, Users
  <2>3. \A u \in users \ {d} : u \in users' /\ Same(u, u)
    BY <2>1 DEF Same
  <2> QED BY <2>1, <2>2, <2>3
<1>3. users \subseteq users' \/ \E d \in users : Deactivate(d)
  BY DEF Next, vars, Arrive, Proceed, Register, Break, Acquire, Hashed, HashFails, Verified,
         LookUp, CheckName, CheckEmail, Insert, Refused, CommitFails, Refresh, StatementFails
<1> QED BY <1>1, <1>2, <1>3

\* An account is an old one, or that of a registration at its insert.
Inserted(v, r) == /\ v = Row(r) /\ Unique(r) /\ users' = users \cup {v}
                  /\ at[r] = "inserting" /\ at'[r] \in {"refreshing", "answered"}
                  /\ UNCHANGED <<form, found, inactive>>

LEMMA Origins ==
  IInv /\ [Next]_vars =>
    \A v \in users' : (\E u \in users : Same(u, v)) \/ (\E r \in Requests : Inserted(v, r))
<1> SUFFICES ASSUME IInv, [Next]_vars, NEW v \in users'
             PROVE (\E u \in users : Same(u, v)) \/ (\E r \in Requests : Inserted(v, r))
  OBVIOUS
<1>1. CASE v \in users
  BY <1>1 DEF Same
<1>2. ASSUME NEW r \in Requests, Insert(r) \/ CommitFails(r), v \notin users
      PROVE  Inserted(v, r)
  BY <1>2 DEF IInv, TypeOK, Insert, CommitFails, Inserted, Answer, Goto
<1>3. ASSUME NEW d \in users, Deactivate(d), v \notin users PROVE \E u \in users : Same(u, v)
  <2>1. d \in Users /\ v = [d EXCEPT !.active = FALSE]
    BY <1>3 DEF IInv, TypeOK, Deactivate
  <2>2. Same(d, v)
    BY <2>1 DEF Same, Users
  <2> QED BY <2>2
<1>4. \/ users' = users \/ \E r \in Requests : Insert(r) \/ CommitFails(r)
      \/ \E d \in users : Deactivate(d)
  BY DEF Next, vars, Arrive, Proceed, Register, Break, Acquire, Hashed, HashFails, Verified,
         LookUp, CheckName, CheckEmail, Refused, Refresh, StatementFails
<1> QED BY <1>1, <1>2, <1>3, <1>4

\* What a step leaves alone of a request that has arrived.
LEMMA Progress ==
  IInv /\ [Next]_vars =>
    \A r \in Requests :
      /\ at[r] \in {"refreshing", "answered"} => at'[r] \in {"refreshing", "answered"}
      /\ at[r] # "idle" => form'[r] = form[r] /\ inactive'[r] = inactive[r]
      /\ at[r] = "answered" => at'[r] = "answered" /\ answer'[r] = answer[r]
      /\ at'[r] = "refreshing" /\ at[r] # "refreshing" => Insert(r)
      /\ found'[r] # found[r] => LookUp(r)
      /\ inactive'[r] # inactive[r] => \E f \in Bodies : Arrive(r, f)
<1> SUFFICES ASSUME IInv, [Next]_vars, NEW r \in Requests
    PROVE
      /\ at[r] \in {"refreshing", "answered"} => at'[r] \in {"refreshing", "answered"}
      /\ at[r] # "idle" => form'[r] = form[r] /\ inactive'[r] = inactive[r]
      /\ at[r] = "answered" => at'[r] = "answered" /\ answer'[r] = answer[r]
      /\ at'[r] = "refreshing" /\ at[r] # "refreshing" => Insert(r)
      /\ found'[r] # found[r] => LookUp(r)
      /\ inactive'[r] # inactive[r] => \E f \in Bodies : Arrive(r, f)
  OBVIOUS
<1> USE DEF IInv, TypeOK
<1>1. CASE UNCHANGED vars
  BY <1>1 DEF vars
<1>2. ASSUME NEW q \in Requests, NEW f \in Bodies, Arrive(q, f)
      PROVE  /\ at[q] = "idle" /\ at'[q] \in {"queued", "looking"}
             /\ at' = [at EXCEPT ![q] = at'[q]] /\ form' = [form EXCEPT ![q] = form'[q]]
             /\ inactive' = [inactive EXCEPT ![q] = inactive'[q]] /\ UNCHANGED <<found, answer>>
  BY <1>2 DEF Arrive, Goto
<1>3. ASSUME NEW q \in Requests,
             Acquire(q) \/ Hashed(q) \/ HashFails(q) \/ CheckName(q) \/ CheckEmail(q)
               \/ Insert(q) \/ Refused(q) \/ CommitFails(q) \/ Refresh(q) \/ StatementFails(q)
      PROVE  /\ at[q] \notin {"idle", "answered"}
             /\ at' = [at EXCEPT ![q] = at'[q]] /\ answer' = [answer EXCEPT ![q] = answer'[q]]
             /\ at[q] = "refreshing" => at'[q] = "answered"
             /\ at'[q] = "refreshing" => Insert(q)
             /\ UNCHANGED <<form, found, inactive>>
  BY <1>3 DEF Acquire, Hashed, HashFails, CheckName, CheckEmail, Insert, Refused, CommitFails,
              Refresh, StatementFails, Answer, Goto
<1>4. ASSUME NEW q \in Requests, LookUp(q) \/ Verified(q)
      PROVE  /\ at[q] \in {"looking", "hashing"} /\ at'[q] \in {"queued", "answered"}
             /\ at' = [at EXCEPT ![q] = at'[q]] /\ answer' = [answer EXCEPT ![q] = answer'[q]]
             /\ found' = [found EXCEPT ![q] = found'[q]] /\ (found'[q] # found[q] => LookUp(q))
             /\ UNCHANGED <<form, inactive>>
  BY <1>4 DEF LookUp, Verified, Answer, Goto
<1>5. ASSUME NEW u \in users, Deactivate(u) PROVE UNCHANGED <<at, form, found, answer, inactive>>
  BY <1>5 DEF Deactivate
<1>6. CASE \E q \in Requests : \E f \in Bodies : Arrive(q, f)
  BY <1>2, <1>6
<1>7. CASE \E q \in Requests : Acquire(q) \/ Hashed(q) \/ HashFails(q) \/ CheckName(q)
             \/ CheckEmail(q) \/ Insert(q) \/ Refused(q) \/ CommitFails(q) \/ Refresh(q)
             \/ StatementFails(q)
  BY <1>3, <1>7
<1>8. CASE \E q \in Requests : LookUp(q) \/ Verified(q)
  BY <1>4, <1>8
<1>9. CASE \E u \in users : Deactivate(u)
  BY <1>5, <1>9
<1> QED BY <1>1, <1>6, <1>7, <1>8, <1>9 DEF Next, Proceed, Register, Break

LEMMA AccountsStep == IInv /\ [Next]_vars => Accounts'
<1> SUFFICES ASSUME IInv, [Next]_vars, NEW r \in Requests
             PROVE  /\ at'[r] \notin {"refreshing", "answered"} => Mine(r)' = {}
                    /\ at'[r] = "refreshing" =>
                         \E u \in Mine(r)' : u.name = form'[r].name /\ u.password = form'[r].password
  BY DEF Accounts
<1> USE DEF IInv
<1>1. ASSUME at'[r] \notin {"refreshing", "answered"}, NEW v \in Mine(r)'
      PROVE  FALSE
  <2>1. v \in users' /\ v.by = r
    BY <1>1 DEF Mine
  <2>2. CASE \E u \in users : Same(u, v)
    <3>1. Mine(r) # {}
      BY <2>1, <2>2 DEF Same, Mine
    <3> QED BY <1>1, <3>1, Progress DEF Accounts
  <2>3. ASSUME NEW q \in Requests, Inserted(v, q)
        PROVE  FALSE
    <3>1. q = r
      BY <2>1, <2>3 DEF Inserted, Row
    <3> QED BY <1>1, <2>3, <3>1 DEF Inserted
  <2> QED BY <2>1, <2>2, <2>3, Origins
<1>2. ASSUME at'[r] = "refreshing", at[r] = "refreshing"
      PROVE  \E u \in Mine(r)' : u.name = form'[r].name /\ u.password = form'[r].password
  <2>1. PICK u \in Mine(r) : u.name = form[r].name /\ u.password = form[r].password
    BY <1>2 DEF Accounts
  <2>2. PICK v \in users' : Same(u, v)
    BY <2>1, Kept DEF Mine
  <2>3. v \in Mine(r)' /\ v.name = form[r].name /\ v.password = form[r].password
    BY <2>1, <2>2 DEF Same, Mine
  <2> QED BY <1>2, <2>3, Progress
<1>3. ASSUME at'[r] = "refreshing", at[r] # "refreshing"
      PROVE  \E u \in Mine(r)' : u.name = form'[r].name /\ u.password = form'[r].password
  <2>1. Insert(r)
    BY <1>3, Progress
  <2>2. form[r] \in Bodies /\ form[r].kind = "register"
    BY <2>1 DEF Formed, Insert
  <2>3. Row(r) \in Mine(r)'
    BY <2>1, <2>2, RowType DEF Insert, Mine
  <2>4. form' = form
    BY <2>1 DEF Insert
  <2> QED BY <2>2, <2>3, <2>4, RowType
<1> QED BY <1>1, <1>2, <1>3

LEMMA OneEachStep == IInv /\ [Next]_vars => OneEach' /\ UniqueAccounts'
<1> SUFFICES ASSUME IInv, [Next]_vars PROVE OneEach' /\ UniqueAccounts'
  OBVIOUS
<1> USE DEF IInv
<1>1. CASE users' = users
  BY <1>1 DEF OneEach, UniqueAccounts
<1>2. ASSUME NEW r \in Requests, NEW v, Inserted(v, r) PROVE OneEach' /\ UniqueAccounts'
  <2>1. v.by = r /\ v.name = form[r].name /\ v.email = form[r].email
    BY <1>2 DEF Inserted, Row
  <2>2. \A u \in users : u.by # r
    BY <1>2 DEF Inserted, Accounts, Mine
  <2>3. \A u \in users : u.name # v.name /\ u.email # v.email
    BY <1>2, <2>1 DEF Inserted, Unique, Named, WithEmail
  <2> QED BY <1>2, <2>1, <2>2, <2>3 DEF Inserted, OneEach, UniqueAccounts
<1>3. ASSUME \A v \in users' : \E u \in users : Same(u, v), NEW d \in users, Deactivate(d)
      PROVE  OneEach' /\ UniqueAccounts'
  <2> DEFINE e == [d EXCEPT !.active = FALSE]
  <2>1. users' = (users \ {d}) \cup {e} /\ d \in Users
    BY <1>3 DEF Deactivate, TypeOK
  <2>2. e.by = d.by /\ e.name = d.name /\ e.email = d.email
    BY <2>1 DEF Users
  <2> HIDE DEF e
  <2> QED BY <2>1, <2>2 DEF OneEach, UniqueAccounts
<1>4. CASE \E d \in users : Deactivate(d)
  <2>1. PICK d \in users : Deactivate(d)
    BY <1>4
  <2>2. users' = (users \ {d}) \cup {[d EXCEPT !.active = FALSE]} /\ d \in Users
    BY <2>1 DEF Deactivate, TypeOK
  <2>3. \A v \in users' : \E u \in users : Same(u, v)
    BY <2>2 DEF Same, Users
  <2> QED BY <1>3, <2>1, <2>3
<1>5. ASSUME NEW r \in Requests, Insert(r) \/ CommitFails(r)
      PROVE  users' = users \/ \E v : Inserted(v, r)
  BY <1>5 DEF TypeOK, Insert, CommitFails, Inserted, Answer, Goto
<1>6. \/ users' = users \/ \E r \in Requests : Insert(r) \/ CommitFails(r)
      \/ \E d \in users : Deactivate(d)
  BY DEF Next, vars, Arrive, Proceed, Register, Break, Acquire, Hashed, HashFails, Verified,
         LookUp, CheckName, CheckEmail, Refused, Refresh, StatementFails
<1> QED BY <1>1, <1>2, <1>4, <1>5, <1>6

LEMMA DeactivatedStep == IInv /\ [Next]_vars => Deactivated'
<1> SUFFICES ASSUME IInv, [Next]_vars, NEW r \in Requests, NEW b \in inactive'[r]
             PROVE  (\E u \in users' : u.by = b) /\ (\A u \in users' : u.by = b => ~u.active)
  BY DEF Deactivated
<1> USE DEF IInv
<1>1. ASSUME b \in inactive[r]
      PROVE  (\E u \in users' : u.by = b) /\ (\A u \in users' : u.by = b => ~u.active)
  <2>1. PICK u \in users : u.by = b
    BY <1>1 DEF Deactivated
  <2>2. \E v \in users' : v.by = b
    BY <2>1, Kept DEF Same
  <2>3. ASSUME NEW v \in users', v.by = b PROVE ~v.active
    <3>1. CASE \E w \in users : Same(w, v)
      BY <1>1, <2>3, <3>1 DEF Same, Deactivated
    <3>2. ASSUME NEW q \in Requests, Inserted(v, q) PROVE FALSE
      <4>1. q = b
        BY <2>3, <3>2 DEF Inserted, Row
      <4> QED BY <2>1, <3>2, <4>1 DEF Inserted, Accounts, Mine
    <3> QED BY <3>1, <3>2, Origins
  <2> QED BY <2>2, <2>3
<1>2. ASSUME b \notin inactive[r]
      PROVE  (\E u \in users' : u.by = b) /\ (\A u \in users' : u.by = b => ~u.active)
  <2>1. PICK f \in Bodies : Arrive(r, f)
    BY <1>2, Progress
  <2>2. users' = users /\ \E u \in users : u.by = b /\ ~u.active
    BY <2>1 DEF Arrive, TypeOK
  <2> QED BY <2>2 DEF OneEach
<1> QED BY <1>1, <1>2

LEMMA ReadRowsStep == IInv /\ [Next]_vars => ReadRows'
<1> SUFFICES ASSUME IInv, [Next]_vars, NEW r \in Requests, NEW u \in found'[r]
             PROVE  /\ u.name = form'[r].name
                    /\ u.active => u.by \notin inactive'[r]
                    /\ \E v \in users' : v.by = u.by /\ v.name = u.name /\ v.password = u.password
  BY DEF ReadRows
<1> USE DEF IInv
<1>1. CASE found'[r] = found[r]
  <2>1. at[r] # "idle"
    BY <1>1 DEF Formed
  <2>2. form'[r] = form[r] /\ inactive'[r] = inactive[r]
    BY <2>1, Progress
  <2>3. PICK w \in users : w.by = u.by /\ w.name = u.name /\ w.password = u.password
    BY <1>1 DEF ReadRows
  <2>4. \E v \in users' : v.by = u.by /\ v.name = u.name /\ v.password = u.password
    BY <2>3, Kept DEF Same
  <2> QED BY <1>1, <2>2, <2>4 DEF ReadRows
<1>2. CASE LookUp(r)
  <2>1. u \in users /\ u.name = form[r].name /\ UNCHANGED <<users, form, inactive>>
    BY <1>2 DEF LookUp, Named, TypeOK
  <2> QED BY <2>1 DEF Deactivated
<1> QED BY <1>1, <1>2, Progress

LEMMA RepliesStep == IInv /\ [Next]_vars => RepliesTrue'
<1> SUFFICES ASSUME IInv, [Next]_vars, NEW r \in Requests,
                    form'[r].kind = "register", at'[r] = "answered"
    PROVE  /\ answer'[r] = "token" =>
                \E u \in Mine(r)' : u.name = form'[r].name /\ u.password = form'[r].password
           /\ answer'[r] = "taken" =>
                Mine(r)' = {} /\ \E u \in users' : u.name = form'[r].name \/ u.email = form'[r].email
  BY DEF RepliesTrue, Named, WithEmail
<1> USE DEF IInv
<1> DEFINE Has == \E u \in Mine(r) : u.name = form[r].name /\ u.password = form[r].password
           Clash == Named(form[r].name) \cup WithEmail(form[r].email) # {}
<1>1. at[r] # "idle" => form'[r] = form[r]
  BY Progress
<1>2. at[r] # "idle"
  BY DEF Formed, TypeOK, Next, vars, Arrive, Proceed, Register, Break, Acquire, Hashed, HashFails,
         Verified, LookUp, CheckName, CheckEmail, Insert, Refused, CommitFails, Refresh,
         StatementFails, Deactivate, Answer, Goto
<1>3. Has => \E u \in Mine(r)' : u.name = form'[r].name /\ u.password = form'[r].password
  <2>1. ASSUME NEW u \in Mine(r), u.name = form[r].name, u.password = form[r].password
        PROVE  \E v \in Mine(r)' : v.name = form'[r].name /\ v.password = form'[r].password
    <3>1. PICK v \in users' : Same(u, v)
      BY <2>1, Kept DEF Mine
    <3> QED BY <1>1, <1>2, <2>1, <3>1 DEF Mine, Same
  <2> QED BY <2>1
<1>4. Clash => \E u \in users' : u.name = form'[r].name \/ u.email = form'[r].email
  <2>1. ASSUME NEW u \in users, u.name = form[r].name \/ u.email = form[r].email
        PROVE  \E v \in users' : v.name = form[r].name \/ v.email = form[r].email
    BY <2>1, Kept DEF Same
  <2> QED BY <1>1, <1>2, <2>1 DEF Named, WithEmail
<1>5. Mine(r) = {} /\ at[r] # "inserting" => Mine(r)' = {}
  <2>1. ASSUME NEW v \in users', v.by = r, Mine(r) = {}, at[r] # "inserting" PROVE FALSE
    <3>1. ~\E u \in users : Same(u, v)
      BY <2>1 DEF Same, Mine
    <3>2. PICK q \in Requests : Inserted(v, q)
      BY <3>1, Origins
    <3> QED BY <2>1, <3>2 DEF Inserted, Row
  <2> QED BY <2>1 DEF Mine
<1>6. CASE at[r] = "answered"
  <2>1. answer'[r] = answer[r] /\ form[r].kind = "register"
    BY <1>1, <1>2, <1>6, Progress
  <2>2. (answer[r] = "token" => Has) /\ (answer[r] = "taken" => Mine(r) = {} /\ Clash)
    BY <1>6, <2>1 DEF RepliesTrue
  <2> QED BY <1>3, <1>4, <1>5, <1>6, <2>1, <2>2
<1>7. ASSUME at[r] # "answered"
      PROVE  \/ CheckName(r) \/ CheckEmail(r) \/ Refused(r) \/ Refresh(r)
             \/ answer'[r] = "error"
  <2>1. form[r].kind = "register"
    BY <1>1, <1>2
  <2> QED BY <1>2, <1>7, <2>1
          DEF Formed, TypeOK, Next, vars, Arrive, Proceed, Register, Break, Acquire, Hashed, HashFails,
              Verified, LookUp, CheckName, CheckEmail, Insert, Refused, CommitFails, Refresh,
              StatementFails, Deactivate, Answer, Goto
<1>8. CASE at[r] # "answered" /\ (CheckName(r) \/ CheckEmail(r))
  <2>1. answer'[r] = "taken" /\ Clash /\ Mine(r) = {} /\ at[r] # "inserting"
    BY <1>8 DEF CheckName, CheckEmail, Answer, Goto, TypeOK, Accounts
  <2> QED BY <1>4, <1>5, <2>1
<1>9. CASE Refused(r)
  <2>1. answer'[r] = "taken" /\ Clash /\ Mine(r) = {} /\ users' = users
    BY <1>9 DEF Refused, Answer, Goto, TypeOK, Accounts, Unique
  <2> QED BY <1>4, <2>1 DEF Mine
<1>10. CASE Refresh(r)
  <2>1. answer'[r] = "token" /\ Has
    BY <1>10 DEF Refresh, Answer, Goto, TypeOK, Accounts
  <2> QED BY <1>3, <2>1
<1> QED BY <1>6, <1>7, <1>8, <1>9, <1>10

LEMMA TokensStep == IInv /\ [Next]_vars => TokensEarned'
<1> SUFFICES ASSUME IInv, [Next]_vars, NEW r \in Requests,
                    form'[r].kind = "login", answer'[r] = "token"
    PROVE  \E u \in users' : /\ u.name = form'[r].name /\ u.password = form'[r].password
                             /\ u.by \notin inactive'[r]
  BY DEF TokensEarned
<1> USE DEF IInv
<1>1. ASSUME NEW v \in users, v.name = form[r].name, v.password = form[r].password,
             v.by \notin inactive[r], at[r] # "idle"
      PROVE  \E u \in users' : /\ u.name = form'[r].name /\ u.password = form'[r].password
                               /\ u.by \notin inactive'[r]
  <2>1. form'[r] = form[r] /\ inactive'[r] = inactive[r]
    BY <1>1, Progress
  <2> QED BY <1>1, <2>1, Kept DEF Same
<1>2. CASE answer[r] = "token"
  <2>1. at[r] = "answered"
    BY <1>2 DEF Formed
  <2>2. form[r].kind = "login"
    BY <2>1, Progress
  <2> QED BY <1>1, <1>2, <2>1, <2>2 DEF TokensEarned
<1>3. CASE Verified(r)
  <2>1. PICK u \in found[r] : Answer(r, Verdict(u, form[r].password))
    BY <1>3 DEF Verified
  <2>2. u.password = form[r].password /\ u.active /\ at[r] # "idle"
    BY <1>3, <2>1 DEF Verified, Answer, Verdict, TypeOK
  <2>3. PICK v \in users : v.by = u.by /\ v.name = u.name /\ v.password = u.password
    BY DEF ReadRows
  <2> QED BY <1>1, <2>2, <2>3 DEF ReadRows
<1>4. CASE Refresh(r)
  BY <1>4 DEF Refresh, Formed
<1>5. answer[r] # "token" => Verified(r) \/ Refresh(r)
  BY DEF TypeOK, Next, vars, Arrive, Proceed, Register, Break, Acquire, Hashed, HashFails,
         Verified, LookUp, CheckName, CheckEmail, Insert, Refused, CommitFails, Refresh,
         StatementFails, Deactivate, Answer, Goto
<1> QED BY <1>2, <1>3, <1>4, <1>5
-----------------------------------------------------------------------------
\* The inductive invariant of accounts and requests.
THEOREM Invariance == Spec => []IInv
<1>1. IInv /\ [Next]_vars => IInv'
  BY TypeStep, FormedStep, AccountsStep, ReadRowsStep, DeactivatedStep, OneEachStep,
     ConservedStep, RepliesStep, TokensStep DEF IInv
<1> QED BY Initially, <1>1, PTL DEF Spec

\* Type correctness, with permits between zero and their number.
THEOREM TypeCorrect == Spec => []TypeOK
BY Invariance, PTL DEF IInv

\* Names and addresses are unique, however registrations interleave.
THEOREM AccountsUnique == Spec => []UniqueAccounts
BY Invariance, PTL DEF IInv

\* A registration is told what became of its account.
THEOREM RepliesAreTrue == Spec => []RepliesTrue
BY Invariance, PTL DEF IInv

\* A login gets a token only for an account that it names, with its password,
\* that was not inactive when it arrived.
THEOREM TokensAreEarned == Spec => []TokensEarned
BY Invariance, PTL DEF IInv
=============================================================================
