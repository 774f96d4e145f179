----------------------------- MODULE RankFusion -----------------------------
(***************************************************************************)
(* The arithmetic of _hybrid_search in app/services/chat_service.py: how   *)
(* many candidates it asks for, how it fuses the ranks of two rankings     *)
(* into one score, and what becomes of the scores.                         *)
(*                                                                         *)
(* A ranking is a sequence without repetition, the best first.  A fused    *)
(* score is a fraction; a relevance is in ten-thousandths.                 *)
(***************************************************************************)
EXTENDS Integers, Sequences, FiniteSets, FiniteSetsExt, SequencesExt

CONSTANTS RRFK,        \* rrf_k
          Multiplier,  \* rrf_candidate_multiplier
          MaxContext,  \* MAX_CONTEXT_CHUNKS
          PoolSize     \* rerank_candidate_pool_size

\* candidate_k, the LIMIT of both queries.
CandidateK(limit) == Min({limit, MaxContext}) * Multiplier

\* fetch_limit: a reranker wants more candidates than the caller does.
FetchLimit(limit, rerank) ==
  LET wanted == Min({limit, MaxContext})
  IN  IF rerank THEN Max({wanted, PoolSize}) ELSE wanted

\* A mutant of AbsentRank: what a ranking does not have counts as its best.
AbsentFirst(k) == 1

\* The rank of a chunk that a ranking of k does not have.
AbsentRank(k) == k + 1

RankIn(c, ranking, k) == IF Contains(ranking, c)
                         THEN CHOOSE i \in DOMAIN ranking : ranking[i] = c
                         ELSE AbsentRank(k)

\* rrf_score of a pair of ranks: 1/(rrf_k + v) + 1/(rrf_k + f).
Fused(v, f) == [num |-> 2 * RRFK + v + f, den |-> (RRFK + v) * (RRFK + f)]

AtLeast(a, b) == a.num * b.den >= b.num * a.den

\* The n best of ids by score may come out of scored.sort in any of these
\* orders: a set is iterated over, so ties are broken at will.
Tops(ids, score, n) ==
  {t \in UNION {SetToSeqs(s) : s \in kSubset(Min({n, Cardinality(ids)}), ids)} :
     /\ \A i, j \in DOMAIN t : i < j => AtLeast(score[t[i]], score[t[j]])
     /\ \A c \in ids : ~Contains(t, c) => \A i \in DOMAIN t : AtLeast(score[t[i]], score[c])}

\* max_score
Reference(top, score) == score[top[1]]

\* round(x / best, 4), in two steps that keep the numbers small.
Normalised(x, best) ==
  LET num == x.num * best.den
      den == best.num * x.den
      low == (100 * num) % den
  IN  100 * ((100 * num) \div den) + (100 * low + den \div 2) \div den
-----------------------------------------------------------------------------
(* Rows are records with a relevance. *)

Regraded(rows, grades) ==
  [i \in DOMAIN rows |-> IF rows[i].chunk \in DOMAIN grades
                         THEN [rows[i] EXCEPT !.relevance = grades[rows[i].chunk]]
                         ELSE rows[i]]

\* The members of S, listed as a strict order on them, a set of pairs, has them.
Listed(S, before) ==
  [p \in 1..Cardinality(S) |->
     CHOOSE j \in S : Cardinality({i \in S : <<i, j>> \in before}) = p - 1]

\* Rows in the order of their relevance; equal ones keep their order.
Better(rows) ==
  {p \in (DOMAIN rows) \X (DOMAIN rows) :
     \/ rows[p[1]].relevance > rows[p[2]].relevance
     \/ rows[p[1]].relevance = rows[p[2]].relevance /\ p[1] < p[2]}

ByRelevance(rows) ==
  LET order == Listed(DOMAIN rows, Better(rows)) IN [p \in DOMAIN rows |-> rows[order[p]]]

\* A mutant of Reranked: the rows are graded but not sorted again.
GradedOnly(rows, grades) == Regraded(rows, grades)

\* What the reranker's grades, for some of the rows or for none, make of them.
Reranked(rows, grades) == IF DOMAIN grades = {} THEN rows ELSE ByRelevance(Regraded(rows, grades))

\* A mutant of MinRelevance: high enough to drop what was only fused.
HighBar == 9999

\* MIN_RELEVANCE_SCORE
MinRelevance == 4500

\* Those of them that pass, in their order.
Relevant(rows) == {i \in DOMAIN rows : rows[i].relevance >= MinRelevance}
Earlier(rows) == {p \in (DOMAIN rows) \X (DOMAIN rows) : p[1] < p[2]}

\* filtered_results[:limit]
Selected(rows, limit) ==
  LET order == Listed(Relevant(rows), Earlier(rows))
  IN  [p \in 1..Min({limit, Cardinality(Relevant(rows))}) |-> rows[order[p]]]
=============================================================================
