-------------------------- MODULE ConversationCache --------------------------
(***************************************************************************)
(* The conversation endpoints of app/routers/chat.py around the cache of   *)
(* their answers: every worker process has a RouterCache of its own, all   *)
(* share the database, and a handler may be interrupted wherever it awaits *)
(* the database, that is between its lookup, its read, and its set.        *)
(*                                                                         *)
(* A user's conversations are abstracted to a version that every commit    *)
(* raises; an answer is a user's data at a version.                        *)
(***************************************************************************)
EXTENDS Integers, FiniteSets

CONSTANTS Workers, Users, Handlers,
          Convs,       \* conversations, each of one user
          Owner,
          MaxSize, DefaultTTL,
          MaxVersion   \* bound on the commits of one user

RC == INSTANCE RouterCache WITH Tags <- Users

ASSUME OwnerAssumption == Owner \in [Convs -> Users]
ASSUME SizeAssumption  == MaxSize \in Nat \ {0} /\ DefaultTTL \in Nat

VARIABLES version,   \* the committed state of each user's conversations
          cache,     \* router_cache, per worker
          req,       \* the open requests
          purged     \* history: the version a worker's last invalidation knew of

vars == <<version, cache, req, purged>>

Targets == Convs \cup {"list"}

\* A mutant of Key: the answer is filed under what is asked for alone.
KeyWithoutUser(u, x) == [user |-> "anyone", of |-> x]

\* user:{id}:conversations:page=..., user:{id}:conversation:{id}
Key(u, x) == [user |-> u, of |-> x]

Tag(u) == u

Free == [at |-> "free"]

\* The query filters on the caller: someone else's conversation is a 404.
Visible(u, x) == x = "list" \/ Owner[x] = u

Init == /\ version = [u \in Users |-> 0]
        /\ cache = [w \in Workers |-> RC!Empty]
        /\ req = [h \in Handlers |-> Free]
        /\ purged = [w \in Workers |-> [u \in Users |-> 0]]
-----------------------------------------------------------------------------
(* get_conversations, get_conversation *)

\* The lookup: a hit is the answer, a miss goes on to the database.
Lookup(h, w, u, x) ==
  /\ req[h] = Free
  /\ cache' = [cache EXCEPT ![w] = RC!AfterGet(@, Key(u, x))]
  /\ IF RC!Hit(cache[w], Key(u, x))
     THEN UNCHANGED req
     ELSE req' = [req EXCEPT ![h] = [at |-> "reading", worker |-> w, user |-> u,
                                     of |-> x, overtaken |-> FALSE]]
  /\ UNCHANGED <<version, purged>>

\* The database answers; the handler has yet to be resumed.
Read(h) ==
  LET r == req[h] IN
  /\ r.at = "reading"
  /\ IF Visible(r.user, r.of)
     THEN req' = [req EXCEPT ![h] =
                    [at |-> "filling", worker |-> r.worker, user |-> r.user, of |-> r.of,
                     overtaken |-> r.overtaken,
                     data |-> [user |-> r.user, version |-> version[r.user]]]]
     ELSE req' = [req EXCEPT ![h] = Free]
  /\ UNCHANGED <<version, cache, purged>>

\* The handler resumes, stores the answer and returns it.
Fill(h) ==
  LET r == req[h] IN
  /\ r.at = "filling"
  /\ cache' = [cache EXCEPT ![r.worker] =
                 RC!Set(@, Key(r.user, r.of), [left |-> 0, data |-> r.data, overtaken |-> r.overtaken],
                        {Tag(r.user)})]
  /\ req' = [req EXCEPT ![h] = Free]
  /\ UNCHANGED <<version, purged>>
-----------------------------------------------------------------------------
(* chat, stream_chat, delete_conversation *)

\* invalidate_tag; a read that is under way on the worker is overtaken by it.
Invalidate(w, u) ==
  /\ cache' = [cache EXCEPT ![w] = RC!InvalidateTag(@, Tag(u))]
  /\ purged' = [purged EXCEPT ![w][u] = version[u]]

Overtake(w, u) ==
  [h \in Handlers |->
     IF req[h].at \in {"reading", "filling"} /\ req[h].worker = w /\ req[h].user = u
     THEN [req[h] EXCEPT !.overtaken = TRUE] ELSE req[h]]

StartWrite(h, w, u) ==
  /\ req[h] = Free
  /\ req' = [req EXCEPT ![h] = [at |-> "writing", worker |-> w, user |-> u]]
  /\ UNCHANGED <<version, cache, purged>>

\* stream_chat only builds the generator before it invalidates.
StartStream(h, w, u) ==
  /\ req[h] = Free
  /\ Invalidate(w, u)
  /\ req' = [Overtake(w, u) EXCEPT ![h] = [at |-> "streaming", worker |-> w, user |-> u]]
  /\ UNCHANGED version

\* A commit of the service: a conversation, messages, a title, a deletion.
Commit(h) ==
  /\ req[h].at \in {"writing", "streaming"} /\ version[req[h].user] < MaxVersion
  /\ version' = [version EXCEPT ![req[h].user] = @ + 1]
  /\ UNCHANGED <<cache, req, purged>>

\* The service returned: the router invalidates, then responds.
FinishWrite(h) ==
  /\ req[h].at = "writing"
  /\ Invalidate(req[h].worker, req[h].user)
  /\ req' = [Overtake(req[h].worker, req[h].user) EXCEPT ![h] = Free]
  /\ UNCHANGED <<version>>

\* The service raised, perhaps after a commit, or the stream is over: nothing
\* is invalidated.
LeaveWrite(h) ==
  /\ req[h].at \in {"writing", "streaming"}
  /\ req' = [req EXCEPT ![h] = Free]
  /\ UNCHANGED <<version, cache, purged>>

Tick == /\ cache' = [w \in Workers |-> RC!Age(cache[w])]
        /\ UNCHANGED <<version, req, purged>>

Start(h) == \E w \in Workers, u \in Users :
              \/ \E x \in Targets : Lookup(h, w, u, x)
              \/ StartWrite(h, w, u)
              \/ StartStream(h, w, u)

Proceed(h) == Read(h) \/ Fill(h) \/ FinishWrite(h) \/ LeaveWrite(h)

Next == \/ \E h \in Handlers : Start(h) \/ Commit(h) \/ Proceed(h)
        \/ Tick

\* Handlers that wait for the database are resumed, and time passes.
Fairness == /\ \A h \in Handlers : WF_vars(Proceed(h))
            /\ WF_vars(Tick)

Spec == Init /\ [][Next]_vars /\ Fairness
-----------------------------------------------------------------------------
(* Properties *)

\* The index and the dictionary agree after any mix of evictions, expiries and
\* invalidations: an entry can be reached by its user's tag and by no other,
\* and no tag names a key that is gone; the cache keeps its bound, whichever
\* keys are set again while it is full, and of two keys one is the older.
IndexExact ==
  \A w \in Workers :
    /\ Cardinality(RC!Keys(cache[w])) <= MaxSize
    /\ \A j, k \in RC!Keys(cache[w]) :
         j # k => (<<j, k>> \in cache[w].before <=> <<k, j>> \notin cache[w].before)
    /\ \A u \in Users :
         cache[w].tags[Tag(u)] = {k \in RC!Keys(cache[w]) : cache[w].dict[k].data.user = u}

\* A hit skips the ownership check of the query, yet it answers a user with
\* data of their own, and only with what the query would let them see.
HitsAreOwn ==
  \A w \in Workers, u \in Users, x \in Targets :
    RC!Hit(cache[w], Key(u, x)) =>
      Visible(u, x) /\ cache[w].dict[Key(u, x)].data.user = u

\* What an invalidation is for: an entry older than the commit that the
\* worker's last invalidation followed was read before that invalidation and
\* stored after it.  Every other stale entry stems from a write that this
\* worker has not been told of.
StaleOnlyWhenOvertaken ==
  \A w \in Workers : \A k \in RC!Keys(cache[w]) :
    LET e == cache[w].dict[k] IN e.data.version < purged[w][e.data.user] => e.overtaken

\* Once the writes are over, the stale answers are too, on every worker: the
\* time to live is counted from the set and not renewed by hits.
StaleAnswersDieOut ==
  <>[](\A w \in Workers, u \in Users, x \in Targets :
         RC!Hit(cache[w], Key(u, x)) =>
           cache[w].dict[Key(u, x)].data.version = version[u])
=============================================================================
