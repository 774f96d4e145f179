# A verification project for the RAG backend

TLA+ models of the FastAPI retrieval-augmented-generation backend in this
repository (`app/`), model-checked with TLC on small instances and, but for
liveness, proved with TLAPS for every instance. File names below are relative to
the repository.

## 1. The system

One gunicorn master runs four worker processes (`gunicorn.conf.py`), each a
single-threaded asyncio event loop with its own caches and semaphores. They
share one PostgreSQL database and one external API (Gemini). A coroutine can be
interrupted at every `await`, so two handlers of one worker interleave between
awaits, and handlers of different workers interleave between database
statements. Every transaction runs at READ COMMITTED and every session is
created with `expire_on_commit=False`: objects keep the values they were loaded
with.

| component | source | state | operations |
|---|---|---|---|
| document ingestion | `services/document_service.py`, `routers/documents.py` | rows of `documents` and `document_chunks`; a per-process semaphore of 3; in-memory background tasks | upload, process, list, get, delete |
| Gemini client | `services/gemini_service.py` | a per-process semaphore of 20 | embed, answer, stream, rerank, with three attempts each |
| embedding cache | `utils/embedding_cache.py` | an OrderedDict of 1024 entries, LRU, one hour to live | get_or_compute |
| router cache | `utils/router_cache.py` | a dict in insertion order and a tag index, 120 s to live | get, set, invalidate_tag |
| chat router | `routers/chat.py` | none | five endpoints, three of which invalidate |
| chat service: conversations | `services/chat_service.py` | rows of `conversations` and `messages` | chat, stream_chat, list, get, delete |
| chat service: hybrid search | `services/chat_service.py` | none | two ranked queries, rank fusion, fetch, rerank, filter |
| user accounts, security | `services/user_service.py`, `routers/auth.py`, `security.py` | rows of `users`; a per-process semaphore of 4 for bcrypt; stateless JWTs | register, login |
| sessions and pool | `database.py`, `config.py` | 20 + 10 connections per process | checkout, return, time-out |
| text chunker | `utils/chunker.py` | none | text to chunks, recursively or by meaning |
| parser | `utils/parser.py` | none | bytes to text |
| metrics | `utils/metrics.py` | counters, a gauge of active requests | record, report |
| index bootstrap | `utils/db_indexes.py` | five indexes | ensure_indexes at start-up |
| application | `main.py`, `utils/limiter.py`, `observability/` | request id | middleware, exception handlers |

How they interact:

* A router takes the caller from a JWT (no database lookup), asks its cache,
  calls a service and, after a write, invalidates its own worker's cache. No
  other worker hears of it.
* An upload commits a row, answers the client, and hands the bytes to a
  background task of the same process. Nothing but that task's memory links the
  row to the file.
* The task and every chat call the Gemini client, through the embedding cache
  for embeddings; all calls of a process share one semaphore.
* A chat reads the conversation and the chunks in one session, closes it, waits
  for the model, and saves in another session.
* Every handler, stream and task takes its connections from one pool of its
  process, one transaction after the other.
* The task hands the parsed text to the semantic chunker, which embeds its
  sentences, and to the recursive one if that fails.
* A deletion of a document or conversation relies on `ON DELETE CASCADE` for
  whatever was added since it looked.

What is hard in it: tasks and handlers that hold state across minutes of
`await` while rows change or vanish; failures inside the error handling; work
that lives in memory and its record in a database; permits that must come back
on every path; caches filled by a read that an invalidation overtook; order
defined by timestamps. `PROJECT.json` lists these hazards one by one, each at
its line, with the properties that cover it.

What makes each component correct:

* ingestion: a row's status tells the truth about its chunks; every accepted
  upload ends, with its outcome on record unless something broke; permits are
  conserved; only the owner deletes.
* Gemini client: no permit is lost; every call returns something; a failure
  stays a failure and is never cached.
* caches: bounded, indexed exactly, evicting in the right order, serving nobody
  else's data, and stale for no longer than one lifetime.
* conversations: every saved answer has its question, a promised answer is
  saved, conversations of different users do not mix, a deletion is final.
* search: only chunks of the caller's COMPLETED documents, in the order of
  their scores, within the limits.
* accounts: one user per name and address; a client is told the truth about its
  account; no token without the password of an account that is active.
* pool: nobody holds a connection through a slow call, or waits for one while
  holding another; everyone gets one in the end.
* chunker: no word is lost or moved; chunks repeat exactly the overlap and have
  a bounded size; the recursion ends.

## 2. The plan

Written so far, in this order: `DocumentLedger` and `DocumentIngestion` with
`DocumentIngestionProofs`; `RouterCache` and `ConversationCache` with
`ConversationCacheProofs`; `EmbeddingCache` and `GeminiService` with
`GeminiServiceProofs`; `Conversations` with `ConversationsProofs`; `RankFusion`
and `HybridSearch`, on top of `DocumentLedger`, with `HybridSearchProofs`;
`TextChunker` with `TextChunkerProofs`; `UserAccounts` with
`UserAccountsProofs`; `ConnectionPool` with `ConnectionPoolProofs`.

To come, if anything: semaphore and pool in one module, with the calls of Gemini
as a queue of their own in `ConnectionPool`, so that what a slow client of a
stream does to a task that holds a connection is part of the model.

## 3. The modules

**`DocumentLedger`** is the abstract store: a document goes `absent -> PENDING
-> PROCESSING -> COMPLETED | FAILED`, may be deleted at any point, shows its
chunks exactly while it is COMPLETED, and never comes back. It is what the
list and get endpoints and the retrieval queries rely on.

**`DocumentIngestion`** is the code. `stage[d]` is where the upload request or
the task of document `d` stands; one action is what the coroutine does from one
`await` to the next, commit included: `Upload`, `ScheduleProcessing` or
`LoseUpload` (the response's refresh failed), `Acquire`, `Fetch`,
`MarkProcessing`, `RefreshAndChunk`, one `EmbedChunk` per chunk, `SaveChunks`,
`HandleFailure`. `stage = "failing"` is an exception in a usable session,
`"broken"` one in a session that needs a rollback. A deletion is `CheckOwner`,
`SweepChunks` (inside its transaction) and `CommitRemoval`. `Crash(w)` empties
a worker's memory. `Faults` names what may go wrong: `"db"` a statement or
commit fails, applied or not; `"reject"` the database refuses a document's
rows; `"crash"`. The ghost `hit` remembers which documents met a fault.

**`RouterCache`** is `router_cache.py` as pure operators. A cache is a record of
a function from keys to entries, the order in which the dictionary lists its
keys, as a set of pairs `before` (it decides who is evicted), and a function
from tags to sets of keys. `left` counts an entry's remaining time.

**`ConversationCache`** runs the five chat endpoints around it: `Lookup`, `Read`
and `Fill` are the three parts of a cached GET, with the database in between;
`StartWrite`, `Commit`, `FinishWrite` a POST or DELETE; `StartStream` the stream
endpoint, which invalidates *before* its generator commits anything;
`LeaveWrite` a service that raised after it had committed. A user's
conversations are a version number. `purged` and the `overtaken` flag are
history.

**`EmbeddingCache`** and **`GeminiService`** model the cache (a sequence in
recency order) and the client: `Acquire` from the FIFO queue of the semaphore,
`PostAnswered`, `PostFails` (caught, with a retry unless it was the last
attempt), `PostBreaks` (an error outside the caught list), `Retry` after the
back-off, `Store` after the semaphore was left, `EndStream`. The history
variable `after` records which texts were used since a text was used last, an
independent account of recency.

**`Conversations`** models the writers of the conversation tables. A request
goes `asked` (`Arrive`), `found` (`Create` or `Find`), `recalled` for a stream
(`Recall` reads the history, `SaveQuestion` commits the question), `answering`,
`saving` (`BeginSaving` reads the conversation again), `saved` (`SaveAnswer`),
`done`; `Break` ends it anywhere. A conversation is named after the request
that created it. `created` is `now()`, the start of the transaction, so
messages saved together share it. `Accepts` is the foreign key, `Cascade` the
`ON DELETE CASCADE`.

**`HybridSearch`** extends `DocumentLedger`, the promise that `DocumentIngestion`
was shown to keep, and puts one search on top of it: `Query` (the vector query
with its snapshot), `Fuse` (the full-text query and the fusion, with no await in
between), one `Collect` for each candidate (a fetch only if the vector query did
not have it), `Finish` (grades, filter, cut); the store may take a step between
any two. A query returns any ranking of any of the rows it may see: the vector
index is approximate and the embeddings are arbitrary. **`RankFusion`** has the
arithmetic: limits, ranks, fused scores as exact fractions, relevance rounded to
ten-thousandths, the stable sort after grading. A sort is written as what it
does: `Listed` lists a set in a given order, the `p`-th element being the one
with `p - 1` others before it. `shown` is history.

**`TextChunker`** is `chunker.py` together with the fallback of the task that
calls it. A word is its position in the text and a chunk a sequence of
positions; of what stands between two words only the coarsest separator matters
(`gap`), whether the first ends a sentence (`ends`, `stops`), and whether it is
a period that stands alone, which the split at periods swallows (`lone`). The
recursion of `_split_recursive` is a stack of frames: a call returns its range
as it is (`Fits`), tries the next separator (`TryNext`), or loops over the parts
(`Loop`, `NextPart`, `Return`). `MergePiece` and `MergeDone` are
`_merge_with_overlap`. The semantic chunker groups sentences at any cuts, for
the embeddings are arbitrary (`Group`), splits the groups that are too large
(`TakeGroup`) and merges everything once more (`MergeRaw`); any exception before
that makes the service start over with the recursive one (`FallBack`).

**`UserAccounts`** is `user_service.py` over the table of users, with the
semaphore of `security.py` around every bcrypt call. A registration goes
`queued`, `hashing`, `naming`, `mailing`, `inserting`, `refreshing`: it hashes
first, then checks name and address in two statements, and relies on the unique
constraints for what happened in between (`Unique`, `Refused`). A login reads
its row, closes the session (`LookUp`) and queues for bcrypt with the row in
memory (`Verified`). `HashFails` is there because bcrypt may refuse a password
of more than 72 bytes, which the request schema allows; `CommitFails` leaves
open whether the commit was applied, if the row breaks no constraint. `Deactivate` is an administrator's update,
which no endpoint makes. `inactive` is history.

**`ConnectionPool`** has everyone who takes connections from the pool of one
worker. A handler is the sequence of what it takes and gives and what it awaits
meanwhile: connections (`take`, `give`), the semaphore of the documents
(`enter`, `leave`), calls of the model (`api`), a thread (`hash`), a client that
receives (`send`). The comment of each program names its transactions. An
exception anywhere unwinds what is held (`Unwind`); a wait at an empty pool ends
in the pool's time-out (`TimeOut`). `late` is a choice made at the start: a
session of `Depends(get_db)` is closed before the response with FastAPI before
0.118, and after the response *and its background task* from then on. The
requirements allow both (`fastapi>=0.110.0`).

Definitions marked "mutant" in the modules are never used by a specification:
each is a plausible bug that, put in the place of the definition after it, makes
the property named in `PROJECT.json` fail.

## 4. The runs

| run | configuration | result |
|---|---|---|
| `ingestion` | 2 uploads, 2 workers with 1 permit, 2 delete requests, up to 2 chunks, all faults | passes, 176 thousand states |
| `stuck_document` | the same with `Faults = {"reject"}` | `OutcomeRecorded` violated |
| `conversation_cache` | 1 worker, 2 users, 2 handlers, 3 keys, room for 2, lifetime 1 tick, 1 commit per user | passes, 455 thousand states |
| `gemini_service` | 2 calls, 1 permit, 2 attempts, 4 texts (1 blank), room for 2, lifetime 1 tick | passes, 134 thousand states |
| `retry_client_error` | 2 calls, 1 text | `RetriesOnlyRetryable` violated |
| `conversations` | 3 requests of 2 users, any kind, window of 1 message | passes, 396 thousand states |
| `hybrid_search` | 2 documents of the caller, 1 of another user, up to 2 chunks each, `rrf_k` 60, limits 1 and 3, at most 2 candidates per query, a pool of 3 | passes, 524 thousand states |
| `message_order` | the same as `conversations` | `QuestionsFirst` violated |
| `text_chunker` | texts of 6 words with any separators, of 7 words with any sentences; sizes 3, overlaps 1 and 2 | passes, 560 thousand states |
| `chunk_size` | the same | `SizeRespected` violated |
| `user_accounts` | 3 requests on 2 workers, registrations that clash in name or address, logins with the right and a wrong password, 1 permit | passes, 174 thousand states |
| `connection_pool` | 3 requests of any kind, 2 connections, 1 task at a time, both orders of closing | passes, 404 thousand states |

What the passing runs show:

* `ingestion`: the typing (permits never above the limit), `SemaphoreConserved` (free permits and running tasks
  add up, whatever fails), `ChunksAllOrNothing` (all chunks exactly while
  COMPLETED, also when a deletion sweeps chunks between two commits of the
  task), `OrderlyRunSettles` (only a fault leaves a row PENDING or PROCESSING),
  `OnlyOwnerDeletes`, `LedgerPromise` (refinement of `DocumentLedger`),
  `UploadsEnd` (every accepted upload comes to an end).
* `conversation_cache`: `IndexExact` (within its room, dict and tag index agree
  after any mix of evictions, expiries, invalidations), `HitsAreOwn` (a hit
  skips the ownership query and still is right), `StaleOnlyWhenOvertaken` (what
  an invalidation leaves stale was read before it and stored after it),
  `StaleAnswersDieOut` (once writes end, so do stale answers).
* `gemini_service`: `LimiterConserved`, `CacheWellFormed` (bounded, one entry
  per text, though two calls may both miss and both store),
  `CacheInRecencyOrder` (the entry that goes is the least recently used by an
  independent account), `FailuresNotCached`, `CallsReturn`; `TypeOK` includes
  the retry budget.
* `conversations`: `NoOrphans` (an answer that comes after the deletion is
  refused), `OwnMessagesOnly`, `PromisesKept` (a client told "done" finds
  question and answer), `TitleHasExchange`, `TitleReplacedOnlyInRace`,
  `HistoryWellCut`, `EmptyOnlyUnfinished`, `QuestionsAnswered`.
* `hybrid_search`: `OnlyOwnFinished` (what is collected, shown to the reranker
  and returned was the caller's, in a finished document, at some moment of the
  search), `AgreementCounts` (what both rankings prefer is the better
  candidate), `BestAnswer` (the answer is made of the collected rows, and
  partial grades and fused scores are sorted before the cut),
  `FewerOnlyIfDeleted` (without grades only deletions shorten an answer).
* `text_chunker`: `ChunksBounded` (the limit is exceeded by the overlap at most,
  or twice the overlap), `TextKept` (no word is lost or comes before an earlier
  one has come), `OverlapExact` (the recursive chunker repeats the overlap and
  nothing else), `ChunkerEnds`.
* `user_accounts`: `UniqueAccounts`, `RepliesTrue` ("taken" is never said to a
  client whose account exists, nor a token given to one whose account does not),
  `TokensEarned` (an account deactivated before the login arrived gets no token,
  though one deactivated while bcrypt runs does), `EveryoneAnswered`.
* `connection_pool`: `SlowCallsHoldNothing` (only tasks that are being processed
  keep a connection through calls of the model), `HoldAndWait` (nobody waits
  while holding a connection, except an upload whose session is closed late),
  `EveryoneEnds` (with sessions closed before the response without a single
  time-out, and thanks to the time-outs otherwise: uploads that keep a
  connection each can then take all of them from the tasks they wait for).

The four violations are disagreements of the code with its own words, quoted
under "findings": the failure handler of the ingestion commits on a session
that needs a rollback, so the outcome is lost; the client retries 4xx errors
under the comment "Retry only retryable failures"; a chat's question and answer
get one `created_at`, and the only sort key of a conversation is `created_at`;
the chunker's merge exceeds the size that its docstring says every chunk
respects.

### The bounds, and why they are enough

Two of everything that competes is the least that interleaves: two tasks on one
permit queue, two workers crash separately, two deletions race each other and
the task. One permit is already exhausted by one holder. Two chunks are the
least that can be half embedded. One cache slot fewer than there are keys makes
every `set` on a full cache possible, of a present and of an absent key; a
lifetime of one tick lets entries be fresh, at their last tick and expired. One
worker is enough for the cache of conversations, because caches share nothing:
a write on another worker is, here, a write that does not invalidate. Two
attempts have a first, a retry and a last. Three requests are needed for a
conversation to be created, answered in and deleted, or titled by two requests
at once; a window of one message cuts every exchange. A search needs two chunks
in a document and two documents, so that a deletion takes some of its candidates
and not others, and more chunks than either query returns; its limits are scaled
down with them so that each of the three is the tightest in some search. A text
of seven words with a size of three has two flushes in a row, so that an overlap
is carried into a chunk that is cut itself, and groups above and below the size;
each separator can be the one that splits, and four levels of recursion the one
that ends it. Two registrations race and a third request meets what they leave.
Two connections can be taken by two uploads with their tasks waiting, and a
third request waits for either. Clocks are bounded by the
requests themselves, each of which starts at most two transactions that matter.
`MaxChunks` and `MaxVersion` are the only bounds that are not parameters of the
program.

### Fairness

Weak fairness of a coroutine's steps: the event loop runs what is ready, and
every await ends, because each database statement and each POST has a timeout
(30, 90 and 10 seconds, times three attempts with back-off) and each sleep is
finite. It is enough because semaphores wake their waiters in order. For
streams it assumes that a client that stops reading goes away some day; the code
sets no limit. `StaleAnswersDieOut` also needs time to pass. Nothing is assumed
of arrivals, deletions, faults or crashes: they may happen or not.

The chunker computes until it is done, and the embeddings it awaits return. A
request for an account proceeds whenever it can, and so does a request for a
connection; that a wait at an empty pool times out is assumed only where
sessions are closed late (`late /\ TimeOut(a)`), so that for the other order
`EveryoneEnds` says that nobody needs to time out.

`CHECK_DEADLOCK FALSE` is set where the system comes to rest: the ingestion when
every upload has ended, the accounts and the pool when every request has, the
chunker when it is done. In `Conversations` the end is the explicit `Finished`.

## 5. The proofs

`DocumentIngestionProofs` proves, for any documents, workers, owners, requests,
limits and faults that satisfy the module's assumptions (finitely many
documents, at least one worker, positive limits):

* `TypeCorrect`, `PermitsConserved`, `ChunksAtomic`, `OrderlyRunsSettle`: the
  four invariants of the run `ingestion`;
* `OwnersOnly`: its action property;
* `KeepsPromise`: that the pipeline implements `DocumentLedger`.

All follow from `Invariance`, `Spec => []IInv`. None of the four invariants is
inductive by itself: that an ended task has settled its row depends on which
status a row can have at each stage of its task, that the published chunks are
as many as announced depends on `made` never outgrowing `plan`, and that a
deletion leaves no chunks depends on what an open removal has checked. `IInv` is
the conjunction of `Typing`, `RowFollowsTask` (stage and status), `PlanOK`,
`RemovalOK`, `ChunksAllOrNothing` and `SemaphoreConserved`; each part has a
lemma `IInv /\ [Next]_vars => Part'` with one step per action. The semaphore's
lemma rests on three facts on the set of holders: a step that stays on its side
leaves it alone, one that takes a permit adds one element, one that returns it
removes one. For the refinement every step is mapped to one step of the ledger
or to a stutter (`TaskRefines`, `RemovalRefines`).

`ConversationsProofs` proves, for any finite set of requests, any users and any
window (the assumptions of `Conversations`), the six invariants of the run
`conversations` (`TypeCorrect`, `Orphanless`, `Isolation`, `AnswersSaved`,
`TitlesWhole`, `EmptyExplained`) and its two action properties (`TitlesKept`,
`HistoriesWellCut`). Its `IInv` has, beside `TypeOK` and `NoOrphans`:

* `Admitted`, `Created`: a request inside a conversation passed the ownership
  check, and a conversation exists only after its creator came that far. Without
  them an arbitrary request could save into any conversation, or find its own
  message there before it wrote one.
* `Begun`, `Origin`, `StreamOrder`: transactions began before now, a message's
  request has come as far as the message says, and so a stream's question is
  older than its answer. This is what makes the newest messages contain the
  answer whenever they contain the question.
* `Exchanges`: what a request has saved stays while the conversation does, for
  only a deletion of the whole conversation removes messages.
* `Titles`, `Races`: a title has its exchange, and a request that is about to
  set a title that is set by now knows who set it.
* `OwnHistory`: a history is empty until it is recalled, and then the user's own.

Each part has a lemma with one step per action, as above.

`GeminiServiceProofs` proves the five invariants of the run `gemini_service`, for
any finite set of calls, any texts, permits, attempts, cache size and lifetime.
Its `IInv` adds two parts to the properties: `JobOK` (what a call carries at each
stage, with an attempt left whenever it waits to retry) and `Good`, which says of
the cache, together with the history of uses, that it is well formed, in order
of recency and without failures. The proof is about the operators first: what
`RemoveAt` does to a sequence, then that removing an entry, dropping the first,
appending a fresh one and ageing all of them keep a store `Good`, and from these
that a hit, a miss and a store do. Each part of the order needs the others: a
hit moves an entry past the rest without harm only because no other entry has
its text.

`UserAccountsProofs` proves, for any workers, names and passwords and any finite
set of requests, the three invariants of the run `user_accounts` and type
correctness. Uniqueness alone is nearly inductive, since an insertion checks it;
the others are not. `IInv` adds `Formed` (a request at a stage of a registration
has a registration's body), `Accounts` (a registration has no row before its
insert, and its own after it), `ReadRows` (a row that a
login has read is the row of the table, but for having become inactive),
`Deactivated` (an account that was inactive stays so), `OneEach`, and `Conserved`
(permits and hashing requests of a worker add up to the limit).

`ConnectionPoolProofs` proves `SlowCallsHoldNothing` and `HoldAndWait` for any
requests, pool and number of tasks. The argument is a table: `Holds(k)` lists how
many connections a request of kind `k` holds before each element of its program,
`Inside(k, p)` where it has the semaphore, and `AllBalanced` checks that every
program keeps them, at both orders of closing. The invariant `Books` says that
the table is right of every request at every moment, through exceptions and
time-outs too.

`ConversationCacheProofs` proves the three invariants of the run
`conversation_cache` for any workers, users, handlers and conversations, any size
of at least one and any lifetime. The operators of the cache come first.
`Kept(c)` says that a cache is in order: within its bound, its keys ordered
strictly and entirely by `before`, each entry about the user of its key, who may
see what the key names, and the index of a user exactly the keys of that user.
`Fresh(c, p)` says that what is older than the invalidations `p` was overtaken.
Lemmas show that dropping any keys, the eviction, a `set` on a cache that may be
full, and the clock keep both. That an eviction makes room needs the oldest key
to exist, and so the fact that a finite ordered set has a first element: the
number of elements before it is the least, and numbers are well-founded. The
inductive `IInv` is `Kept` and `Fresh` of every cache, `ReadOK` of every request
between its read and its `set` (what it carries is its user's, and overtaken if
an invalidation came in between), and that no invalidation is newer than the
data. `HitsAreOwn` and `StaleOnlyWhenOvertaken` need each other's part: without
the exact index an invalidation would miss keys of its user.

`TextChunkerProofs` proves the three invariants of the run `text_chunker` for any
texts, sizes and overlaps, `ChunksBounded` first.
`Lengths` bounds pieces, the current words, chunks and raw chunks in each phase:
pieces of the splitter are at most the size; what is merged is that, or the size
and an overlap where chunks of a group are merged again; and a chunk is what is
merged behind one more overlap.

For `TextKept` the invariant `Telling` follows the words. The ranges on the stack
of calls are `Seamless`: the innermost begins where the text has been told so
far, and between the end of one range and the start of the next lie only lone
periods. The pieces tell everything up to there; in the merge, chunks, current
words and remaining pieces together tell everything; and each of these lists is
in turn (`AllInTurn`): no word comes before all earlier ones have come, in it or
in the lists before it. What the overlap carries over has been told, so it may
stand anywhere. The sequences are read as sets of words with lemmas for
concatenation (`ToldJoin`, `AllTurnsJoin`), and no step needs induction.

For `OverlapExact` the invariant `Layers` of the recursive chunker adds that the
words of each piece rise and that the pieces lie apart (`Layered`), and that each
chunk continues its predecessor (`Linked`): it starts with the words carried
over, and is longer than them. The current words always continue the last chunk,
which is why closing it, or adding a piece to it, keeps the chunks linked.

`HybridSearchProofs` proves `OnlyOwnFinished` for any documents, owners,
rankings and limits, from the invariant that everything found was shown to the
caller since the search began; and `ThresholdDropsNothing`, which the run can
only sample: if `100 (rrf_k + 1) >= 45 (rrf_k + most + 1)`, where `most` is the
largest LIMIT of a query, then no relevance that comes from fusion alone is
below `MIN_RELEVANCE_SCORE`, whatever the ranks. With the configured `rrf_k` of
60, 8 chunks of context and a multiplier of 6 the two sides are 6100 and 4905.
The lemmas bound a fused score by those of the best and the worst pair of ranks,
and carry the ratio through the rounding.

The other three invariants of the run follow from `JInv`, which adds to `IInv`
what became of the candidates: the rows collected are sorted and none of the
pending ones is better (`Collected`), what was shown is still there or its
document was deleted for good (`Lasting`), rows and pending candidates are all
candidates unless one is gone (`Accounted`), and the answer is what `Selected`
makes of the graded rows (`Answered`). `AgreementCounts` is about the scores:
two ranks that are no worse, one of them better, make a sum of inverses that is
greater (`GreaterInverses`), whatever the lengths of the rankings. `BestAnswer`
rests on `ListedInOrder`: listing a finite set in a strict total order takes
every element once and in order, by counting, so sorting and filtering are
proved without induction over sequences. `FewerOnlyIfDeleted` is proved under
the same condition on `rrf_k` as `ThresholdDropsNothing`: without it the
threshold may drop rows too, as the higher one of the property's mutant does.

So every invariant of every passing run is proved for all values of the
constants, and so are its action properties and the refinement.

Only model-checked: everything about liveness (`UploadsEnd`, `CallsReturn`,
`QuestionsAnswered`, `StaleAnswersDieOut`, `ChunkerEnds`, `EveryoneAnswered`,
`EveryoneEnds`), which is beyond the prover. The four violations are behaviours
that TLC exhibits, so there is nothing to prove about them.

## 6. What is not modelled

Steps that are coarser than the code: the two SELECTs of a cached read are one
snapshot (`ConversationCache!Read`), and the commit and the refresh of a new
conversation one step, with the same outcome if either fails
(`Conversations!Create`). A call of Gemini is cancelled only while it streams
(`EndStream`); elsewhere `async with` would give the permit back too.

Outcomes that the code has and no document forbids are not violations. Properties
bound them from one side: rows left unfinished need a crash or a failed statement
(`OrderlyRunSettles`), empty conversations and questions without an answer need a
request that failed (`EmptyOnlyUnfinished`, `QuestionsAnswered`), a token for an
inactive account needs a deactivation during its login (`TokensEarned`), and the
three limits of a search are taken as they are. `PROJECT.json` says so in the
notes of these hazards.

Parsing of file formats, JSON bodies and API answers (their outcomes are
choices), bcrypt and JWT (libraries; the caller's identity is taken as given, and
`get_current_user` reads it from the token alone), rate limiting by address (a
library, one decorator per endpoint), logging, the counters of the metrics and
their two reports, the middleware and the exception handlers, which pass requests
on and shape responses without any state that another part reads, tests, load
test and container. The two listing endpoints and the two readers of
conversations change no state; their answers matter to the cache and are
versions there.

The index bootstrap of `db_indexes.py` runs its DDL in ordinary transactions,
though its comment speaks of AUTOCOMMIT; whether an index is built under the
`lock_timeout` that was set, and what two workers that start together make of
`IF NOT EXISTS`, is up to PostgreSQL and not to any code here.

Of a stream, what is committed and when is in `Conversations`, the connections
it holds in `ConnectionPool` and its permit in `GeminiService`; the framing of
its events is not modelled. That a conversation that is not found is reported
inside a response that has already started is a consequence of its being a
generator, and the outcome, a failed request that writes nothing, is part of
`Conversations`. The 503 of a chat whose question cannot be embedded is
unreachable, because `generate_embedding` turns every failure into the zero
vector, which is true as a list; with that vector a search returns any ranking,
as every search does here.
