---------------------------- MODULE HybridSearch ----------------------------
(***************************************************************************)
(* One call of _hybrid_search in app/services/chat_service.py against a    *)
(* store that other requests and background tasks keep changing.  The      *)
(* store is the DocumentLedger.  The search is a series of statements,     *)
(* each of which sees what is committed when it starts: the vector query,  *)
(* the full-text query, and one fetch for each chunk that only the latter  *)
(* found; then the language model grades what was collected.               *)
(***************************************************************************)
EXTENDS DocumentLedger, RankFusion

CONSTANTS Owner,    \* documents.user_id
          Caller,   \* the user who searches
          Limits,   \* the values of maxResults
          Grades    \* that the reranker may give, in ten-thousandths

ASSUME LimitsAssumption == /\ Limits \subseteq Nat \ {0} /\ Grades \subseteq 0..10000
                           /\ {RRFK, Multiplier, MaxContext, PoolSize} \subseteq Nat \ {0}
                           /\ IsFiniteSet(Docs) /\ MaxChunks \in Nat

VARIABLES
  at,        \* where the search stands
  rerank,    \* the setting rerank_enabled
  limit,     \* maxResults
  vector,    \* the ranking of the vector query
  fulltext,  \* the ranking of the full-text query
  top,       \* the candidates, by fused score
  pending,   \* those of them not collected yet
  rows,      \* results: the collected chunks
  grades,    \* scores_map
  answer,    \* what the search returns
  shown      \* history: the caller's chunks since the search began

search == <<at, rerank, limit, vector, fulltext, top, pending, rows, grades, answer>>
vars   == <<status, chunks, search, shown>>

Chunk == Docs \X (1..MaxChunks)

ChunksOf(d) == {d} \X DOMAIN chunks[d]

\* What the caller can rely on seeing: chunks of the caller's finished documents.
\* This is the property's own account of it, apart from what the queries ask for.
Mine == UNION {ChunksOf(d) : d \in {d \in Docs : Owner[d] = Caller /\ status[d] = "COMPLETED"}}

Init == /\ LedgerInit
        /\ at = "idle" /\ rerank \in BOOLEAN /\ limit = 0
        /\ vector = <<>> /\ fulltext = <<>> /\ top = <<>> /\ pending = <<>>
        /\ rows = <<>> /\ grades = <<>> /\ answer = <<>>
        /\ shown = {}
-----------------------------------------------------------------------------
\* A mutant of Searchable: the queries do not filter on the owner.
SearchableByAll == UNION {ChunksOf(d) : d \in {d \in Docs : status[d] = "COMPLETED"}}

\* The rows that both queries' FROM and WHERE leave.
Searchable ==
  UNION {ChunksOf(d) : d \in {d \in Docs : status[d] = "COMPLETED" /\ Owner[d] = Caller}}

\* What a query may return with a LIMIT of k: the index of the vectors is
\* approximate, the words match some chunks only, and the order is anybody's.
Rankings(k) == UNION {SetToSeqs(s) : s \in {s \in SUBSET Searchable : Cardinality(s) <= k}}

Query(n) ==
  /\ at = "idle" /\ at' = "ranked" /\ limit' = n
  /\ vector' \in Rankings(CandidateK(n))
  /\ shown' = Mine
  /\ UNCHANGED <<status, chunks, rerank, fulltext, top, pending, rows, grades, answer>>

Score(f) == LET k == CandidateK(limit)
            IN  [c \in Range(vector) \cup Range(f) |-> Fused(RankIn(c, vector, k), RankIn(c, f, k))]

\* The second query, skipped if the text is blank, and the fusion.
Fuse ==
  /\ at = "ranked" /\ at' = "collecting"
  /\ fulltext' \in Rankings(CandidateK(limit))
  /\ top' \in LET score == Score(fulltext') IN Tops(DOMAIN score, score, FetchLimit(limit, rerank))
  /\ pending' = top'
  /\ UNCHANGED <<status, chunks, rerank, limit, vector, rows, grades, answer, shown>>

\* The fetch of a chunk by its id alone.
There(c) == c \in ChunksOf(c[1])

\* The next candidate: known from the vector query, or fetched, or gone.
Collect ==
  /\ at = "collecting" /\ pending # <<>>
  /\ LET c     == Head(pending)
         score == Score(fulltext)
         row   == [chunk |-> c, relevance |-> Normalised(score[c], Reference(top, score))]
     IN  rows' = IF Contains(vector, c) \/ There(c) THEN Append(rows, row) ELSE rows
  /\ pending' = Tail(pending)
  /\ UNCHANGED <<status, chunks, at, rerank, limit, vector, fulltext, top, grades, answer, shown>>

\* The session is closed; the reranker grades what it likes, nothing if it
\* fails; the rest is filtered and cut off.
Finish ==
  /\ at = "collecting" /\ pending = <<>> /\ at' = "done"
  /\ \E graded \in SUBSET (IF rerank THEN {rows[i].chunk : i \in DOMAIN rows} ELSE {}) :
       grades' \in [graded -> Grades]
  /\ answer' = Selected(Reranked(rows, grades'), limit)
  /\ UNCHANGED <<status, chunks, rerank, limit, vector, fulltext, top, pending, rows, shown>>

\* A statement fails, and with it the request.
Fail == /\ at \in {"ranked", "collecting"} /\ at' = "failed"
        /\ UNCHANGED <<status, chunks, rerank, limit, vector, fulltext, top, pending, rows,
                       grades, answer, shown>>

\* Uploads, tasks and deletions, as the ledger has them.  What they do once the
\* search is over is of no interest here.
StoreStep ==
  /\ at \notin {"done", "failed"}
  /\ \E d \in Docs :
       \/ Submit(d) \/ Begin(d) \/ GiveUp(d) \/ Erase(d)
       \/ \E n \in 1..MaxChunks : /\ chunks' = [chunks EXCEPT ![d] = [i \in 1..n |-> "vector"]]
                                  /\ Publish(d)
  /\ shown' = IF at = "idle" THEN shown ELSE shown \cup Mine'
  /\ UNCHANGED search

Over == at \in {"done", "failed"} /\ UNCHANGED vars

Next == (\E n \in Limits : Query(n)) \/ Fuse \/ Collect \/ Finish \/ Fail \/ StoreStep \/ Over

Spec == Init /\ [][Next]_vars
-----------------------------------------------------------------------------
(* Properties *)

\* What a search collects, shows to the reranker and chooses its answer from
\* was, at some moment of the search, in a finished document of the caller's,
\* although the last fetches go by the id alone.
OnlyOwnFinished == \A i \in DOMAIN rows : rows[i].chunk \in shown

NoWorse(a, b, ranking) == \A j \in DOMAIN ranking : ranking[j] = b => \E i \in 1..j : ranking[i] = a

\* A chunk that both rankings put before another is a better candidate than it.
AgreementCounts ==
  at \in {"collecting", "done"} =>
    \A a, b \in Range(vector) \cup Range(fulltext) :
      a # b /\ NoWorse(a, b, vector) /\ NoWorse(a, b, fulltext) =>
        \A j \in DOMAIN top : top[j] = b => \E i \in 1..j : top[i] = a

\* The relevance a collected row ends up with.
Final(row) == IF row.chunk \in DOMAIN grades THEN grades[row.chunk] ELSE row.relevance

\* The row with that relevance.
Graded(row) == [row EXCEPT !.relevance = Final(row)]

\* Whatever part of the rows the reranker has graded, the answer is the best of
\* them in order: nothing is added and nothing better is left out.
BestAnswer ==
  at = "done" =>
    /\ \A i \in DOMAIN answer : \E j \in DOMAIN rows : answer[i] = Graded(rows[j])
    /\ \A i, j \in DOMAIN answer : i < j => answer[i].relevance >= answer[j].relevance
    /\ \A i \in DOMAIN rows : Final(rows[i]) >= MinRelevance =>
         \/ \E j \in DOMAIN answer : answer[j] = Graded(rows[i])
         \/ Len(answer) = limit /\ answer[limit].relevance >= Final(rows[i])

\* Without grades, the answer is shorter than the candidates allow only because
\* a candidate was deleted under way: the threshold, which is meant for grades,
\* drops none of the fused scores.
FewerOnlyIfDeleted ==
  at = "done" /\ DOMAIN grades = {} /\ Len(answer) < Min({limit, Len(top)}) =>
    \E i \in DOMAIN top : ~There(top[i])
=============================================================================
