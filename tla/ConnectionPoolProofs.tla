------------------------ MODULE ConnectionPoolProofs ------------------------
(***************************************************************************)
(* Theorems about ConnectionPool, for any requests, any size of the pool   *)
(* and any number of tasks at a time.                                      *)
(***************************************************************************)
EXTENDS ConnectionPool, TLAPS

\* How many connections a request of kind k holds before each element of its
\* program, and at its end.
Holds(k) ==
  CASE k = "chat"     -> <<0, 0, 1, 0, 1, 0, 0, 1, 0, 1, 0, 0>>
    [] k = "stream"   -> <<0, 0, 1, 0, 1, 0, 1, 0, 0, 0, 1, 0, 1, 1, 0>>
    [] k = "upload"   -> IF late THEN <<0, 1, 0, 1, 1, 1, 2, 1, 2, 2, 1, 1, 0>>
                                 ELSE <<0, 1, 0, 1, 0, 0, 0, 1, 0, 1, 1, 0, 0>>
    [] k = "register" -> IF late THEN <<0, 0, 1, 0, 1, 1, 0>> ELSE <<0, 0, 1, 0, 1, 0, 0>>
    [] k = "login"    -> <<0, 1, 0, 0, 0>>
    [] k = "read"     -> IF late THEN <<0, 1, 1, 0>> ELSE <<0, 1, 0, 0>>
    [] k = "delete"   -> <<0, 1, 0, 0>>
    [] OTHER          -> <<0>>

\* Where a request of kind k is inside the semaphore.
Inside(k, p) == k = "upload" /\ p \in IF late THEN 6..11 ELSE 7..12

\* The program of each kind, written out.
LEMMA Programs ==
  ASSUME late \in BOOLEAN
  PROVE  /\ Program("chat") = Chat /\ Program("stream") = Stream
         /\ Program("register") = IF late THEN <<"hash", "take", "give", "take", "send", "give">>
                                          ELSE <<"hash", "take", "give", "take", "give", "send">>
         /\ Program("upload") =
              IF late THEN <<"take", "give", "take", "send", "enter", "take", "give", "take", "api",
                             "give", "leave", "give">>
                      ELSE <<"take", "give", "take", "give", "send", "enter", "take", "give", "take",
                             "api", "give", "leave">>
         /\ Program("login") = Login /\ Program("delete") = Delete
         /\ Program("read") = IF late THEN <<"take", "send", "give">> ELSE <<"take", "give", "send">>
         /\ Program("none") = <<>>
<1>1. Program("chat") = Chat /\ Program("stream") = Stream /\ Program("login") = Login
      /\ Program("delete") = Delete /\ Program("none") = <<>>
  BY DEF Program
<1>2. Program("read") = IF late THEN <<"take", "send", "give">> ELSE <<"take", "give", "send">>
  BY DEF Program, Read
<1>3. Program("register") = IF late THEN <<"hash", "take", "give", "take", "send", "give">>
                                    ELSE <<"hash", "take", "give", "take", "give", "send">>
  BY DEF Program, Register
<1>4. Program("upload") =
              IF late THEN <<"take", "give", "take", "send", "enter", "take", "give", "take", "api",
                             "give", "leave", "give">>
                      ELSE <<"take", "give", "take", "give", "send", "enter", "take", "give", "take",
                             "api", "give", "leave">>
  BY DEF Program, Upload, Process
<1> QED BY <1>1, <1>2, <1>3, <1>4

\* What one element of a program does to the tables above.
Balance(k, p) ==
  LET x == Program(k)[p] IN
  /\ Holds(k)[p] \in Nat /\ Holds(k)[p + 1] \in Nat
  /\ Holds(k)[p + 1] = IF x = "take" THEN Holds(k)[p] + 1
                       ELSE IF x = "give" THEN Holds(k)[p] - 1 ELSE Holds(k)[p]
  /\ Inside(k, p + 1) => x = "enter" \/ (Inside(k, p) /\ x # "leave")
  /\ x \in {"api", "hash"} /\ Holds(k)[p] > 0 => Inside(k, p)
  /\ x \in {"take", "enter"} /\ Holds(k)[p] > 0 => late /\ k = "upload" /\ Holds(k)[p] = 1

Balanced(k, n) == /\ n = Len(Program(k)) /\ n \in Nat
                  /\ Holds(k)[1] = 0 /\ Holds(k)[n + 1] = 0
                  /\ ~Inside(k, 1) /\ ~Inside(k, n + 1)
                  /\ \A p \in 1..n : Balance(k, p)

\* Every program keeps the tables.
LEMMA AllBalanced ==
  ASSUME late \in BOOLEAN, NEW k \in Kinds \cup {"none"}
  PROVE  \E n : Balanced(k, n)
<1>1. CASE k = "chat"
  <2>1. Program(k) = Chat
    BY <1>1, Programs
  <2>2. Holds(k) = <<0, 0, 1, 0, 1, 0, 0, 1, 0, 1, 0, 0>>
    BY <1>1 DEF Holds
  <2>3. Len(Program(k)) = 11
    BY <2>1 DEF Chat
  <2>4. ASSUME NEW p \in 1..11 PROVE Balance(k, p)
    BY <1>1, <2>1, <2>2 DEF Balance, Inside, Chat
  <2>5. Holds(k)[1] = 0 /\ Holds(k)[12] = 0
    BY <2>2
  <2>6. Balanced(k, 11)
    BY <1>1, <2>3, <2>4, <2>5 DEF Balanced, Inside
  <2> QED BY <2>6
<1>2. CASE k = "stream"
  <2>1. Program(k) = Stream
    BY <1>2, Programs
  <2>2. Holds(k) = <<0, 0, 1, 0, 1, 0, 1, 0, 0, 0, 1, 0, 1, 1, 0>>
    BY <1>2 DEF Holds
  <2>3. Len(Program(k)) = 14
    BY <2>1 DEF Stream
  <2>4. ASSUME NEW p \in 1..14 PROVE Balance(k, p)
    BY <1>2, <2>1, <2>2 DEF Balance, Inside, Stream
  <2>5. Holds(k)[1] = 0 /\ Holds(k)[15] = 0
    BY <2>2
  <2>6. Balanced(k, 14)
    BY <1>2, <2>3, <2>4, <2>5 DEF Balanced, Inside
  <2> QED BY <2>6
<1>3. CASE k = "upload" /\ late
  <2>1. Program(k) = <<"take", "give", "take", "send", "enter", "take", "give", "take", "api",
                         "give", "leave", "give">>
    BY <1>3, Programs
  <2>2. Holds(k) = <<0, 1, 0, 1, 1, 1, 2, 1, 2, 2, 1, 1, 0>>
    BY <1>3 DEF Holds
  <2>3. Len(Program(k)) = 12
    BY <2>1
  <2>4. ASSUME NEW p \in 1..12 PROVE Balance(k, p)
    BY <1>3, <2>1, <2>2 DEF Balance, Inside
  <2>5. Holds(k)[1] = 0 /\ Holds(k)[13] = 0
    BY <2>2
  <2>6. Balanced(k, 12)
    BY <1>3, <2>3, <2>4, <2>5 DEF Balanced, Inside
  <2> QED BY <2>6
<1>4. CASE k = "upload" /\ ~late
  <2>1. Program(k) = <<"take", "give", "take", "give", "send", "enter", "take", "give", "take",
                         "api", "give", "leave">>
    BY <1>4, Programs
  <2>2. Holds(k) = <<0, 1, 0, 1, 0, 0, 0, 1, 0, 1, 1, 0, 0>>
    BY <1>4 DEF Holds
  <2>3. Len(Program(k)) = 12
    BY <2>1
  <2>4. ASSUME NEW p \in 1..12 PROVE Balance(k, p)
    BY <1>4, <2>1, <2>2 DEF Balance, Inside
  <2>5. Holds(k)[1] = 0 /\ Holds(k)[13] = 0
    BY <2>2
  <2>6. Balanced(k, 12)
    BY <1>4, <2>3, <2>4, <2>5 DEF Balanced, Inside
  <2> QED BY <2>6
<1>5. CASE k = "register" /\ late
  <2>1. Program(k) = <<"hash", "take", "give", "take", "send", "give">>
    BY <1>5, Programs
  <2>2. Holds(k) = <<0, 0, 1, 0, 1, 1, 0>>
    BY <1>5 DEF Holds
  <2>3. Len(Program(k)) = 6
    BY <2>1
  <2>4. ASSUME NEW p \in 1..6 PROVE Balance(k, p)
    BY <1>5, <2>1, <2>2 DEF Balance, Inside
  <2>5. Holds(k)[1] = 0 /\ Holds(k)[7] = 0
    BY <2>2
  <2>6. Balanced(k, 6)
    BY <1>5, <2>3, <2>4, <2>5 DEF Balanced, Inside
  <2> QED BY <2>6
<1>6. CASE k = "register" /\ ~late
  <2>1. Program(k) = <<"hash", "take", "give", "take", "give", "send">>
    BY <1>6, Programs
  <2>2. Holds(k) = <<0, 0, 1, 0, 1, 0, 0>>
    BY <1>6 DEF Holds
  <2>3. Len(Program(k)) = 6
    BY <2>1
  <2>4. ASSUME NEW p \in 1..6 PROVE Balance(k, p)
    BY <1>6, <2>1, <2>2 DEF Balance, Inside
  <2>5. Holds(k)[1] = 0 /\ Holds(k)[7] = 0
    BY <2>2
  <2>6. Balanced(k, 6)
    BY <1>6, <2>3, <2>4, <2>5 DEF Balanced, Inside
  <2> QED BY <2>6
<1>7. CASE k = "login"
  <2>1. Program(k) = Login
    BY <1>7, Programs
  <2>2. Holds(k) = <<0, 1, 0, 0, 0>>
    BY <1>7 DEF Holds
  <2>3. Len(Program(k)) = 4
    BY <2>1 DEF Login
  <2>4. ASSUME NEW p \in 1..4 PROVE Balance(k, p)
    BY <1>7, <2>1, <2>2 DEF Balance, Inside, Login
  <2>5. Holds(k)[1] = 0 /\ Holds(k)[5] = 0
    BY <2>2
  <2>6. Balanced(k, 4)
    BY <1>7, <2>3, <2>4, <2>5 DEF Balanced, Inside
  <2> QED BY <2>6
<1>8. CASE k = "read" /\ late
  <2>1. Program(k) = <<"take", "send", "give">>
    BY <1>8, Programs
  <2>2. Holds(k) = <<0, 1, 1, 0>>
    BY <1>8 DEF Holds
  <2>3. Len(Program(k)) = 3
    BY <2>1
  <2>4. ASSUME NEW p \in 1..3 PROVE Balance(k, p)
    BY <1>8, <2>1, <2>2 DEF Balance, Inside
  <2>5. Holds(k)[1] = 0 /\ Holds(k)[4] = 0
    BY <2>2
  <2>6. Balanced(k, 3)
    BY <1>8, <2>3, <2>4, <2>5 DEF Balanced, Inside
  <2> QED BY <2>6
<1>9. CASE k = "read" /\ ~late
  <2>1. Program(k) = <<"take", "give", "send">>
    BY <1>9, Programs
  <2>2. Holds(k) = <<0, 1, 0, 0>>
    BY <1>9 DEF Holds
  <2>3. Len(Program(k)) = 3
    BY <2>1
  <2>4. ASSUME NEW p \in 1..3 PROVE Balance(k, p)
    BY <1>9, <2>1, <2>2 DEF Balance, Inside
  <2>5. Holds(k)[1] = 0 /\ Holds(k)[4] = 0
    BY <2>2
  <2>6. Balanced(k, 3)
    BY <1>9, <2>3, <2>4, <2>5 DEF Balanced, Inside
  <2> QED BY <2>6
<1>10. CASE k = "none"
  <2>1. Program(k) = <<>>
    BY <1>10, Programs
  <2>2. Holds(k) = <<0>>
    BY <1>10 DEF Holds
  <2>3. Len(Program(k)) = 0
    BY <2>1
  <2>4. Holds(k)[1] = 0
    BY <2>2
  <2>5. Balanced(k, 0)
    BY <1>10, <2>3, <2>4 DEF Balanced, Inside
  <2> QED BY <2>5
<1>11. CASE k = "delete"
  <2>1. Program(k) = Delete
    BY <1>11, Programs
  <2>2. Holds(k) = <<0, 1, 0, 0>>
    BY <1>11 DEF Holds
  <2>3. Len(Program(k)) = 3
    BY <2>1 DEF Delete
  <2>4. ASSUME NEW p \in 1..3 PROVE Balance(k, p)
    BY <1>11, <2>1, <2>2 DEF Balance, Inside, Delete
  <2>5. Holds(k)[1] = 0 /\ Holds(k)[4] = 0
    BY <2>2
  <2>6. Balanced(k, 3)
    BY <1>11, <2>3, <2>4, <2>5 DEF Balanced, Inside
  <2> QED BY <2>6
<1> QED BY <1>1, <1>2, <1>3, <1>4, <1>5, <1>6, <1>7, <1>8, <1>9, <1>10, <1>11 DEF Kinds
-----------------------------------------------------------------------------
\* Where a request stands says what it holds.
Local(a) == /\ held[a] = Holds(kind[a])[pc[a]]
            /\ Inside(kind[a], pc[a]) => a \in working
            /\ kind[a] = "none" => pc[a] = 1

Books == \A a \in Actors : Local(a)

IInv == TypeOK /\ Books

\* What the tables say of a request that has not ended.
LEMMA Tables ==
  ASSUME TypeOK, NEW a \in Actors
  PROVE  \E n : /\ Balanced(kind[a], n)
                /\ Ended(a) <=> pc[a] > n
                /\ ~Ended(a) => /\ pc[a] \in 1..n /\ Awaits(a) = Program(kind[a])[pc[a]]
                                /\ Balance(kind[a], pc[a])
<1>1. PICK n : Balanced(kind[a], n)
  BY AllBalanced DEF TypeOK
<1> QED BY <1>1 DEF TypeOK, Balanced, Awaits, Ended

\* The initial state satisfies the invariant.
LEMMA Initially == Init => IInv
<1> SUFFICES ASSUME Init PROVE IInv
  OBVIOUS
<1>1. TypeOK
  BY CapacityAssumption DEF Init, TypeOK
<1>2. ASSUME NEW a \in Actors PROVE Local(a)
  <2>1. kind[a] = "none" /\ pc[a] = 1 /\ held[a] = 0
    BY DEF Init
  <2>2. Holds("none")[1] = 0 /\ ~Inside("none", 1)
    BY DEF Holds, Inside
  <2> QED BY <2>1, <2>2 DEF Local
<1> QED BY <1>1, <1>2 DEF IInv, Books

\* A step of one request that keeps its own books keeps all.
LEMMA OneMoves ==
  ASSUME IInv, NEW a \in Actors, late' = late, Local(a)',
         \A b \in Actors \ {a} : /\ kind'[b] = kind[b] /\ pc'[b] = pc[b] /\ held'[b] = held[b]
                                 /\ b \in working => b \in working'
  PROVE  Books'
<1>1. ASSUME NEW b \in Actors, b # a PROVE Local(b)'
  <2>1. Local(b)
    BY DEF IInv, Books
  <2> QED BY <1>1, <2>1 DEF Local, Holds, Inside
<1> QED BY <1>1 DEF Books

LEMMA TypeStep == IInv /\ [Next]_vars => TypeOK'
<1> SUFFICES ASSUME IInv, [Next]_vars PROVE TypeOK'
  OBVIOUS
<1> USE DEF IInv, TypeOK
<1>1. CASE UNCHANGED vars
  BY <1>1 DEF vars
<1>2. ASSUME NEW a \in Actors, NEW k \in Kinds, Begin(a, k) PROVE TypeOK'
  BY <1>2 DEF Begin
<1>3. ASSUME NEW a \in Actors, Take(a) PROVE TypeOK'
  BY <1>3 DEF Take, Advance
<1>4. ASSUME NEW a \in Actors, Give(a) PROVE TypeOK'
  <2>1. ~Ended(a) /\ Awaits(a) = "give"
    BY <1>4 DEF Give, Awaits
  <2>2. Balance(kind[a], pc[a]) /\ Awaits(a) = Program(kind[a])[pc[a]]
    BY <2>1, Tables
  <2>3. held[a] - 1 \in Nat
    BY <2>1, <2>2 DEF Balance, Books, Local
  <2> QED BY <1>4, <2>3 DEF Give, Advance
<1>5. ASSUME NEW a \in Actors, Enter(a) \/ Leave(a) \/ Return(a) PROVE TypeOK'
  BY <1>5 DEF Enter, Leave, Return, Advance
<1>6. ASSUME NEW a \in Actors, TimeOut(a) \/ Break(a) PROVE TypeOK'
  <2>1. PICK n : Balanced(kind[a], n)
    BY Tables
  <2>2. Len(Program(kind[a])) = n /\ n \in Nat
    BY <2>1 DEF Balanced
  <2>3. pc' = [pc EXCEPT ![a] = n + 1]
    BY <1>6, <2>2 DEF TimeOut, Break, Unwind
  <2> QED BY <1>6, <2>2, <2>3 DEF TimeOut, Break, Unwind
<1> QED BY <1>1, <1>2, <1>3, <1>4, <1>5, <1>6 DEF Next, Proceed

LEMMA BooksStep == IInv /\ [Next]_vars => Books'
<1> SUFFICES ASSUME IInv, [Next]_vars PROVE Books'
  OBVIOUS
<1> USE DEF IInv, TypeOK
<1>1. CASE UNCHANGED vars
  BY <1>1 DEF vars, Books, Local, Holds, Inside
<1>2. ASSUME NEW a \in Actors, NEW k \in Kinds, Begin(a, k) PROVE Books'
  <2>1. /\ late' = late /\ kind'[a] = k /\ pc'[a] = 1 /\ held'[a] = held[a]
        /\ held[a] = Holds("none")[1]
    BY <1>2 DEF Begin, Books, Local
  <2>2. Holds(k)[1] = 0 /\ Holds("none")[1] = 0 /\ ~Inside(k, 1)
    BY AllBalanced DEF Balanced
  <2>3. Local(a)'
    BY <2>1, <2>2 DEF Local, Holds, Inside, Kinds
  <2> QED BY <1>2, <2>3, OneMoves DEF Begin
<1>3. ASSUME NEW a \in Actors, Proceed(a) PROVE Books'
  <2> DEFINE k == kind[a]
             p == pc[a]
             x == Program(k)[p]
  <2>1. ~Ended(a) /\ Awaits(a) # "nothing"
    BY <1>3 DEF Proceed, Take, Give, Enter, Leave, Return, Awaits
  <2>2. Balance(k, p) /\ Awaits(a) = x /\ p \in Nat /\ k # "none"
    BY <2>1, Tables DEF Balanced, Ended, Program, Books, Local
  <2>3. Local(a)
    BY DEF Books
  <2>4. /\ late' = late /\ kind' = kind /\ pc' = [pc EXCEPT ![a] = p + 1]
        /\ held' = [held EXCEPT ![a] = IF x = "take" THEN @ + 1 ELSE IF x = "give" THEN @ - 1 ELSE @]
        /\ x = "enter" => a \in working'
        /\ x # "leave" => working \subseteq working'
        /\ working \ {a} \subseteq working'
    BY <1>3, <2>2 DEF Proceed, Take, Give, Enter, Leave, Return, Advance
  <2>5. held'[a] = Holds(k)[p + 1]
    BY <2>2, <2>3, <2>4 DEF Balance, Local
  <2>6. Inside(k, p + 1) => a \in working'
    BY <2>2, <2>3, <2>4 DEF Balance, Local
  <2> HIDE DEF k, p, x
  <2>7. kind'[a] = k /\ pc'[a] = p + 1 /\ k # "none"
    BY <2>2, <2>4 DEF k
  <2>8. late' = late
    BY <2>4
  <2>9. Local(a)'
    BY <2>5, <2>6, <2>7, <2>8 DEF Local, Holds, Inside
  <2> QED BY <2>4, <2>9, OneMoves
<1>4. ASSUME NEW a \in Actors, TimeOut(a) \/ Break(a) PROVE Books'
  <2>1. /\ late' = late /\ kind' = kind /\ held' = [held EXCEPT ![a] = 0]
        /\ pc' = [pc EXCEPT ![a] = Len(Program(kind[a])) + 1] /\ working' = working \ {a}
    BY <1>4 DEF TimeOut, Break, Unwind
  <2>2. PICK n : Balanced(kind[a], n)
    BY Tables
  <2>3. kind[a] # "none"
    <3>1. ~Ended(a)
      BY <1>4 DEF TimeOut, Break, Awaits
    <3> QED BY <3>1, Tables DEF Ended, Program, Books, Local
  <2>4. Local(a)'
    BY <2>1, <2>2, <2>3 DEF Balanced, Local, Holds, Inside
  <2> QED BY <2>1, <2>4, OneMoves
<1> QED BY <1>1, <1>2, <1>3, <1>4 DEF Next
-----------------------------------------------------------------------------
\* The inductive invariant of the pool: who holds what is known from where
\* everyone stands.
THEOREM Invariance == Spec => []IInv
<1>1. IInv /\ [Next]_vars => IInv'
  BY TypeStep, BooksStep DEF IInv
<1> QED BY Initially, <1>1, PTL DEF Spec

\* Whatever the programs' interleaving, slow calls hold no connection.
THEOREM SlowHoldNothing == Spec => []SlowCallsHoldNothing
<1>1. IInv => SlowCallsHoldNothing
  <2> SUFFICES ASSUME IInv, NEW a \in Actors, Awaits(a) \in {"api", "hash"}, held[a] > 0
               PROVE  a \in working
    BY DEF SlowCallsHoldNothing
  <2>1. ~Ended(a)
    BY DEF Awaits
  <2>2. Balance(kind[a], pc[a]) /\ Awaits(a) = Program(kind[a])[pc[a]]
    BY <2>1, Tables DEF IInv
  <2> QED BY <2>2 DEF IInv, Books, Local, Balance
<1> QED BY <1>1, Invariance, PTL

\* Only an upload whose session is closed late waits while holding.
THEOREM NoHoldAndWait == Spec => []HoldAndWait
<1>1. IInv => HoldAndWait
  <2> SUFFICES ASSUME IInv, NEW a \in Actors, Awaits(a) \in {"take", "enter"}, held[a] > 0
               PROVE  late /\ kind[a] = "upload" /\ held[a] = 1
    BY DEF HoldAndWait
  <2>1. ~Ended(a)
    BY DEF Awaits
  <2>2. Balance(kind[a], pc[a]) /\ Awaits(a) = Program(kind[a])[pc[a]]
    BY <2>1, Tables DEF IInv
  <2> QED BY <2>2 DEF IInv, Books, Local, Balance
<1> QED BY <1>1, Invariance, PTL
=============================================================================
