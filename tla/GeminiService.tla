---------------------------- MODULE GeminiService ----------------------------
(***************************************************************************)
(* app/services/gemini_service.py of one worker process: the embedding,    *)
(* answer, rerank and stream calls of its coroutines, the semaphore they   *)
(* all queue for, the retries made while holding it, and the embedding     *)
(* cache in front of the embedding API.                                    *)
(*                                                                         *)
(* The API key is set; without it no call leaves the process.              *)
(***************************************************************************)
EXTENDS Integers, Sequences, FiniteSets

CONSTANTS Calls,        \* coroutines that call the service, one call at a time
          Texts,
          Blank,        \* the texts without a visible character
          Permits,      \* asyncio.Semaphore(20)
          MaxAttempts,  \* max_attempts
          MaxSize, TTL  \* of the embedding cache

Cache == INSTANCE EmbeddingCache

ASSUME CallsAssumption == IsFiniteSet(Calls)
ASSUME BlankAssumption == Blank \subseteq Texts
ASSUME LimitsAssumption == /\ Permits \in Nat \ {0} /\ MaxAttempts \in Nat \ {0}
                           /\ MaxSize \in Nat \ {0} /\ TTL \in Nat

VARIABLES
  at,       \* where a call stands
  job,      \* what it is for: its kind and, to embed, its text
  attempt,  \* the attempts it has made
  error,    \* the error it is waiting to retry after
  permits,  \* rate_limiter._value
  queue,    \* rate_limiter._waiters
  store,    \* embedding_cache._store
  after     \* history: the texts used since a text was used last

vars  == <<at, job, attempt, error, permits, queue, store, after>>
calls == <<at, job, attempt, error, permits, queue>>

Jobs == [kind : {"embed"}, text : Texts] \cup [kind : {"answer", "rerank", "stream"}]
NoJob == [kind |-> "none"]

Holding == {"posting", "backoff", "streaming"}
Stages  == {"free", "queued", "storing"} \cup Holding

\* _post_with_retry catches timeouts and connection errors, the 5xx it raises
\* itself, and the 4xx that raise_for_status raises ...
Caught == {"network", "5xx", "4xx"}
\* ... though it means to retry only what a retry can cure.
Retryable == {"network", "5xx"}

Init == /\ at = [c \in Calls |-> "free"]
        /\ job = [c \in Calls |-> NoJob]
        /\ attempt = [c \in Calls |-> 0]
        /\ error = [c \in Calls |-> "none"]
        /\ permits = Permits
        /\ queue = <<>>
        /\ store = <<>>
        /\ after = [t \in Texts |-> {}]
-----------------------------------------------------------------------------
(* Queueing for the semaphore, and leaving it *)

Enqueue(c, j) == /\ at' = [at EXCEPT ![c] = "queued"]
                 /\ job' = [job EXCEPT ![c] = j]
                 /\ queue' = Append(queue, c)
                 /\ UNCHANGED <<attempt, error, permits>>

Acquire(c) ==
  /\ at[c] = "queued" /\ permits > 0 /\ queue # <<>> /\ c = Head(queue)
  /\ permits' = permits - 1
  /\ queue' = Tail(queue)
  /\ at' = [at EXCEPT ![c] = IF job[c].kind = "stream" THEN "streaming" ELSE "posting"]
  /\ attempt' = [attempt EXCEPT ![c] = 1]
  /\ UNCHANGED <<job, error, store, after>>

\* A mutant of Permitted: the permit is not given back.
PermitKept(n) == n

\* What the semaphore holds once a call has left it.
Permitted(n) == n + 1

\* The call leaves the semaphore's block and returns to its caller.
Return(c) == /\ at' = [at EXCEPT ![c] = "free"]
             /\ job' = [job EXCEPT ![c] = NoJob]
             /\ attempt' = [attempt EXCEPT ![c] = 0]
             /\ error' = [error EXCEPT ![c] = "none"]
             /\ permits' = Permitted(permits)
             /\ UNCHANGED queue
-----------------------------------------------------------------------------
(* The calls *)

\* t is used now, after every other text.
Use(t) == after' = [u \in Texts |-> IF u = t THEN {} ELSE after[u] \cup {t}]

\* generate_embedding of a cached text.
EmbedFromCache(c, t) ==
  /\ at[c] = "free" /\ Cache!Hit(store, t)
  /\ store' = Cache!AfterGet(store, t) /\ Use(t)
  /\ UNCHANGED calls

\* generate_embedding of any other text; the lookup removes what has expired.
\* A blank text gets the zero vector without a call.
EmbedByCall(c, t) ==
  /\ at[c] = "free" /\ ~Cache!Hit(store, t)
  /\ store' = Cache!AfterGet(store, t)
  /\ IF t \in Blank THEN UNCHANGED calls ELSE Enqueue(c, [kind |-> "embed", text |-> t])
  /\ UNCHANGED after

\* generate_answer, re_rank_chunks, stream_answer
Ask(c, k) ==
  /\ at[c] = "free"
  /\ Enqueue(c, [kind |-> k])
  /\ UNCHANGED <<store, after>>

\* A mutant of Storable: whatever the call returned is cached.
AnythingStorable(v) == TRUE

\* get_or_compute: "if embedding".
Storable(v) == v # "nothing"

\* An embedding call leaves the semaphore and returns v, or goes on to store it.
Embedded(c, v) ==
  IF Storable(v)
  THEN /\ at' = [at EXCEPT ![c] = "storing"]
       /\ permits' = Permitted(permits)
       /\ job' = [job EXCEPT ![c] = [kind |-> "embed", text |-> job[c].text, vector |-> v]]
       /\ UNCHANGED <<attempt, error, queue>>
  ELSE Return(c)

\* No answer of use: an empty vector, no candidates, no scores.  Each kind of
\* call has its own fallback, none raises.
GiveUp(c) == IF job[c].kind = "embed" THEN Embedded(c, "nothing") ELSE Return(c)

\* The POST is answered, with something useful or not.
PostAnswered(c) ==
  /\ at[c] = "posting"
  /\ \/ job[c].kind = "embed" /\ Embedded(c, "vector")
     \/ job[c].kind # "embed" /\ Return(c)
     \/ GiveUp(c)
  /\ UNCHANGED <<store, after>>

\* A mutant of LastAttempt: one attempt too many.
OneMoreAttempt(n) == n > MaxAttempts

LastAttempt(n) == n >= MaxAttempts

\* The POST fails in a way that _post_with_retry catches: it sleeps before the
\* next attempt, still holding the semaphore, or raises after the last.
PostFails(c) ==
  /\ at[c] = "posting"
  /\ \/ /\ ~LastAttempt(attempt[c])
        /\ \E e \in Caught : error' = [error EXCEPT ![c] = e]
        /\ at' = [at EXCEPT ![c] = "backoff"]
        /\ UNCHANGED <<job, attempt, permits, queue>>
     \/ LastAttempt(attempt[c]) /\ GiveUp(c)
  /\ UNCHANGED <<store, after>>

\* It fails in a way that is not caught there (a write timeout, say), and the
\* caller's except clause ends the call at the first attempt.
PostBreaks(c) ==
  /\ at[c] = "posting" /\ GiveUp(c)
  /\ UNCHANGED <<store, after>>

Retry(c) ==
  /\ at[c] = "backoff"
  /\ at' = [at EXCEPT ![c] = "posting"]
  /\ attempt' = [attempt EXCEPT ![c] = @ + 1]
  /\ error' = [error EXCEPT ![c] = "none"]
  /\ UNCHANGED <<job, permits, queue, store, after>>

\* _set, after the semaphore was left.
Store(c) ==
  /\ at[c] = "storing"
  /\ store' = Cache!AfterSet(store, job[c].text, job[c].vector) /\ Use(job[c].text)
  /\ at' = [at EXCEPT ![c] = "free"]
  /\ job' = [job EXCEPT ![c] = NoJob]
  /\ attempt' = [attempt EXCEPT ![c] = 0]
  /\ UNCHANGED <<error, permits, queue>>

\* stream_answer is over: the last line, an error that becomes its last piece
\* of text, or the client's disconnection.  The semaphore is held until then,
\* however slowly the client reads.
EndStream(c) ==
  /\ at[c] = "streaming" /\ Return(c)
  /\ UNCHANGED <<store, after>>

Tick == store' = Cache!Older(store) /\ UNCHANGED <<calls, after>>

Start(c) == \/ \E t \in Texts : EmbedFromCache(c, t) \/ EmbedByCall(c, t)
            \/ \E k \in {"answer", "rerank", "stream"} : Ask(c, k)

Proceed(c) == \/ Acquire(c) \/ PostAnswered(c) \/ PostFails(c) \/ PostBreaks(c)
              \/ Retry(c) \/ Store(c) \/ EndStream(c)

Next == (\E c \in Calls : Start(c) \/ Proceed(c)) \/ Tick

\* POSTs time out (90 seconds at most), sleeps end, and a client that does not
\* read its stream goes away sooner or later.
Fairness == \A c \in Calls : WF_vars(Proceed(c))

Spec == Init /\ [][Next]_vars /\ Fairness
-----------------------------------------------------------------------------
(* Properties *)

StoreJobs == [kind : {"embed"}, text : Texts, vector : Cache!Vectors]

\* Every variable holds values the program can store in it; in particular a
\* call makes no more attempts than its budget.
TypeOK ==
  /\ at \in [Calls -> Stages]
  /\ job \in [Calls -> Jobs \cup StoreJobs \cup {NoJob}]
  /\ attempt \in [Calls -> 0..MaxAttempts]
  /\ error \in [Calls -> Caught \cup {"none"}]
  /\ permits \in 0..Permits
  /\ queue \in Seq(Calls)
  /\ after \in [Texts -> SUBSET Texts]

Holders == {c \in Calls : at[c] \in Holding}

\* Through retries, fallbacks, streams and disconnections, no permit of the
\* semaphore that all Gemini traffic shares is lost or given back twice.
LimiterConserved == permits + Cardinality(Holders) = Permits

\* The cache keeps its bound, and no text has two entries, although two calls
\* for one text may both miss and both store.
CacheWellFormed == Cache!WellFormed(store)

\* The entry that makes room is the one whose text went unused the longest,
\* whatever was hit, stored again, or expired in between.
CacheInRecencyOrder == Cache!InRecencyOrder(store, after)

\* A failed or empty answer of the API is never served again from the cache:
\* the zero vector of a bad moment lasts no longer than the moment.
FailuresNotCached == \A i \in DOMAIN store : store[i].vector = "vector"

\* The comment in _post_with_retry: "Retry only retryable failures".
RetriesOnlyRetryable ==
  \A c \in Calls : at[c] = "backoff" => error[c] \in Retryable

\* Every call returns: no call is stuck behind permits that never come back.
CallsReturn == \A c \in Calls : at[c] = "queued" ~> at[c] = "free"
=============================================================================
