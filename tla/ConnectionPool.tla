--------------------------- MODULE ConnectionPool ---------------------------
(***************************************************************************)
(* The connections of one worker process: the pool of app/database.py and  *)
(* everyone who takes from it.  A session checks a connection out with the *)
(* first statement of a transaction and gives it back with the commit, the *)
(* rollback or the close, so that a handler is the sequence of what it     *)
(* takes and gives and of what it awaits meanwhile:                        *)
(*                                                                         *)
(*   take, give    a connection                                            *)
(*   enter, leave  doc_processing_semaphore                                *)
(*   api, hash     calls of Gemini in a row, a thread that runs bcrypt     *)
(*   send          an answer or events, to a client that may be slow       *)
(*                                                                         *)
(* A request for an existing conversation is that for a new one without    *)
(* its first transaction.                                                  *)
(***************************************************************************)
EXTENDS Integers, Sequences, FiniteSets

CONSTANTS Actors,    \* requests
          Capacity,  \* pool_size + max_overflow
          MaxTasks   \* doc_processing_max_concurrent

ASSUME CapacityAssumption == Capacity \in Nat \ {0} /\ MaxTasks \in Nat \ {0}

VARIABLES
  late,     \* whether the exit of get_db follows the response and its task:
            \* it depends on the release of FastAPI, which is not pinned
  kind,     \* what each request is
  pc,       \* the next element of its program
  held,     \* the connections it has checked out
  free,     \* the connections the pool can still give
  working   \* who holds a permit of doc_processing_semaphore

vars == <<late, kind, pc, held, free, working>>
-----------------------------------------------------------------------------
(* The programs.  What is in parentheses in the comments is a transaction.  *)

\* A mutant of Chat: the session is closed only after the answer.
ChatInOneSession == <<"api", "take", "give", "take", "api", "give",
                      "take", "give", "take", "give", "send">>

\* (create) (refresh, history, search) rerank, answer (save) (refresh)
Chat == <<"api", "take", "give", "take", "give", "api", "take", "give", "take", "give", "send">>

\* (create) (refresh, history, question) (search) rerank, answer (save)
\* (refresh): the last event is sent before the session is left.
Stream == <<"api", "take", "give", "take", "give", "take", "give", "api", "send",
            "take", "give", "take", "send", "give">>

\* (insert) (refresh) of the request
Upload == IF late THEN <<"take", "give", "take", "send">>
                  ELSE <<"take", "give", "take", "give", "send">>

\* A mutant of Process: the task opens its session before it queues.
ProcessEarlySession == <<"take", "enter", "give", "take", "api", "give", "leave">>

\* (read, mark) (refresh, embed, save) of the task, and its failure likewise.
Process == <<"enter", "take", "give", "take", "api", "give", "leave">>

\* (checks, insert) (refresh)
Register == <<"hash", "take", "give", "take">> \o IF late THEN <<"send", "give">> ELSE <<"give", "send">>

\* (lookup), closed before the password is verified
Login == <<"take", "give", "hash", "send">>

\* The lists and the reads.
Read == <<"take">> \o IF late THEN <<"send", "give">> ELSE <<"give", "send">>

\* (check, delete): nothing is refreshed after the commit.
Delete == <<"take", "give", "send">>

Program(k) == CASE k = "chat"     -> Chat
                [] k = "stream"   -> Stream
                [] k = "upload"   -> Upload \o Process \o IF late THEN <<"give">> ELSE <<>>
                [] k = "register" -> Register
                [] k = "login"    -> Login
                [] k = "read"     -> Read
                [] k = "delete"   -> Delete
                [] OTHER          -> <<>>

Kinds == {"chat", "stream", "upload", "register", "login", "read", "delete"}

Ended(a) == pc[a] > Len(Program(kind[a]))
\* What a request does next.
Awaits(a) == IF Ended(a) THEN "nothing" ELSE Program(kind[a])[pc[a]]
-----------------------------------------------------------------------------
Init == /\ late \in BOOLEAN
        /\ kind = [a \in Actors |-> "none"] /\ pc = [a \in Actors |-> 1]
        /\ held = [a \in Actors |-> 0] /\ free = Capacity /\ working = {}

Begin(a, k) == /\ kind[a] = "none"
               /\ kind' = [kind EXCEPT ![a] = k]
               /\ UNCHANGED <<late, pc, held, free, working>>

Advance(a) == pc' = [pc EXCEPT ![a] = @ + 1]

Take(a) == /\ Awaits(a) = "take" /\ free > 0
           /\ free' = free - 1 /\ held' = [held EXCEPT ![a] = @ + 1]
           /\ Advance(a) /\ UNCHANGED <<late, kind, working>>

Give(a) == /\ Awaits(a) = "give"
           /\ free' = free + 1 /\ held' = [held EXCEPT ![a] = @ - 1]
           /\ Advance(a) /\ UNCHANGED <<late, kind, working>>

Enter(a) == /\ Awaits(a) = "enter" /\ Cardinality(working) < MaxTasks
            /\ working' = working \cup {a}
            /\ Advance(a) /\ UNCHANGED <<late, kind, held, free>>

Leave(a) == /\ Awaits(a) = "leave"
            /\ working' = working \ {a}
            /\ Advance(a) /\ UNCHANGED <<late, kind, held, free>>

\* The call returns, or the client has received what was sent.
Return(a) == /\ Awaits(a) \in {"api", "hash", "send"}
             /\ Advance(a) /\ UNCHANGED <<late, kind, held, free, working>>

\* A mutant of Unwind: the permit is released on the regular path only.
UnwindSessions(a) == /\ pc' = [pc EXCEPT ![a] = Len(Program(kind[a])) + 1]
                     /\ free' = free + held[a] /\ held' = [held EXCEPT ![a] = 0]
                     /\ UNCHANGED <<late, kind, working>>

\* An exception leaves every `async with`: sessions are closed, and their
\* connections given back, and the semaphore is released.
Unwind(a) == /\ pc' = [pc EXCEPT ![a] = Len(Program(kind[a])) + 1]
             /\ free' = free + held[a] /\ held' = [held EXCEPT ![a] = 0]
             /\ working' = working \ {a}
             /\ UNCHANGED <<late, kind>>

\* pool_timeout: nobody has given a connection back for too long.
TimeOut(a) == Awaits(a) = "take" /\ free = 0 /\ Unwind(a)

\* A statement or a call raises, or the client is gone.
Break(a) == /\ Awaits(a) \in {"give", "api", "hash", "send"} \/ (Awaits(a) = "take" /\ free > 0)
            /\ Unwind(a)

Proceed(a) == Take(a) \/ Give(a) \/ Enter(a) \/ Leave(a) \/ Return(a)

Next == \E a \in Actors : \/ \E k \in Kinds : Begin(a, k)
                          \/ Proceed(a) \/ TimeOut(a) \/ Break(a)

\* Calls return and the event loop resumes whoever can proceed.  A wait for a
\* connection need not time out, unless the requests' sessions are closed late.
Fairness == \A a \in Actors : WF_vars(Proceed(a)) /\ WF_vars(late /\ TimeOut(a))

Spec == Init /\ [][Next]_vars /\ Fairness
-----------------------------------------------------------------------------
(* Properties *)

\* Every variable holds values the program can store in it.
TypeOK ==
  /\ late \in BOOLEAN
  /\ kind \in [Actors -> Kinds \cup {"none"}]
  /\ pc \in [Actors -> Nat \ {0}] /\ held \in [Actors -> Nat] /\ free \in Nat
  /\ working \subseteq Actors

\* Nobody keeps a connection through a call of the model or of bcrypt, however
\* long it takes, except the few tasks that are being processed.
SlowCallsHoldNothing ==
  \A a \in Actors : Awaits(a) \in {"api", "hash"} /\ held[a] > 0 => a \in working

\* Nobody waits for a connection or for the semaphore while holding a
\* connection, except that an upload whose own session is closed late keeps
\* that one through the whole wait and work of its task.
HoldAndWait ==
  \A a \in Actors : Awaits(a) \in {"take", "enter"} /\ held[a] > 0 =>
    late /\ kind[a] = "upload" /\ held[a] = 1

\* Every request ends: without a single time-out if sessions are closed before
\* the response, and thanks to the time-outs otherwise.
EveryoneEnds == \A a \in Actors : kind[a] # "none" ~> Ended(a)
=============================================================================
