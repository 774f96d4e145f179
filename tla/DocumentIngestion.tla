-------------------------- MODULE DocumentIngestion --------------------------
(***************************************************************************)
(* app/services/document_service.py and its router: the upload that        *)
(* commits a PENDING row, the background task that turns the file into     *)
(* chunks under a semaphore, and the deletion that may run beside it.      *)
(*                                                                         *)
(* A task is a coroutine of one worker process.  An action is what it does *)
(* from one await to the next; a commit is the last thing such a step      *)
(* does, so its writes are visible from the next state on.  Each worker    *)
(* process has its own semaphore; the database is shared.                  *)
(***************************************************************************)
EXTENDS Naturals, Sequences, FiniteSets

CONSTANTS Docs,          \* document ids
          Workers,       \* gunicorn worker processes
          Requesters,    \* delete requests that may be open at one time
          Users,
          Owner,         \* Owner[d]: the user who uploads d
          Caller,        \* Caller[r]: the user who sends delete request r
          MaxConcurrent, \* settings.doc_processing_max_concurrent
          MaxChunks,     \* bound on the chunks of one document
          Faults         \* what may go wrong: a subset of FaultKinds

FaultKinds == {"db",      \* a statement or commit fails, applied or not
               "reject",  \* the database refuses the rows of a document
               "crash"}   \* a worker process dies or is recycled

ASSUME DocsAssumption    == IsFiniteSet(Docs)
ASSUME WorkersAssumption == Workers # {}
ASSUME OwnersAssumption  == Owner \in [Docs -> Users] /\ Caller \in [Requesters -> Users]
ASSUME LimitAssumption   == MaxConcurrent \in Nat \ {0} /\ MaxChunks \in Nat \ {0}
ASSUME FaultsAssumption  == Faults \subseteq FaultKinds

VARIABLES
  status,      \* documents.status, with "absent" and "deleted" rows
  chunkCount,  \* documents.chunk_count
  chunks,      \* the rows of document_chunks: per document, their embeddings
  stage,       \* where the document's upload request or task stands
  home,        \* the worker that runs it
  plan,        \* len(chunks) after parsing and chunking
  made,        \* chunk_entities: the embeddings computed so far
  permits,     \* doc_processing_semaphore._value, per worker
  waiting,     \* doc_processing_semaphore._waiters, per worker
  removal,     \* the open delete requests
  hit          \* history: documents whose upload or task met a fault

rows    == <<status, chunkCount, chunks>>
work    == <<stage, home, plan, made, hit>>
sem     == <<permits, waiting>>
vars    == <<status, chunkCount, chunks, stage, home, plan, made,
             permits, waiting, removal, hit>>

Stored == {"PENDING", "PROCESSING", "COMPLETED", "FAILED"}
Settled == {"COMPLETED", "FAILED", "deleted"}
Embedding == {"vector", "zero"}

\* The stages in which a task holds a permit of its worker's semaphore.
Holding == {"fetching", "marking", "parsing", "embedding", "failing", "broken"}
Stage == Holding \cup {"none", "created", "waiting", "ended"}

Exists(d) == status[d] \in Stored
Idle == [doc |-> "none", at |-> "idle", swept |-> 0]

Init == /\ status = [d \in Docs |-> "absent"]
        /\ chunkCount = [d \in Docs |-> 0]
        /\ chunks = [d \in Docs |-> <<>>]
        /\ stage = [d \in Docs |-> "none"]
        /\ home \in [Docs -> Workers]
        /\ plan = [d \in Docs |-> 0]
        /\ made = [d \in Docs |-> <<>>]
        /\ permits = [w \in Workers |-> MaxConcurrent]
        /\ waiting = [w \in Workers |-> <<>>]
        /\ removal = [r \in Requesters |-> Idle]
        /\ hit = [d \in Docs |-> FALSE]
-----------------------------------------------------------------------------
(* What the steps are made of. *)

\* A commit that sets documents.status.
Write(d, s) == status' = [status EXCEPT ![d] = s]

\* asyncio.Semaphore wakes its waiters in the order they came.
Enqueue(d) == /\ stage' = [stage EXCEPT ![d] = "waiting"]
              /\ waiting' = [waiting EXCEPT ![home[d]] = Append(@, d)]

\* Mutants of End: the permit is kept, or given back twice.
EndHoldingPermit(d) == stage' = [stage EXCEPT ![d] = "ended"] /\ UNCHANGED permits
EndReleasingTwice(d) == /\ stage' = [stage EXCEPT ![d] = "ended"]
                        /\ permits' = [permits EXCEPT ![home[d]] = @ + 2]

\* Leaving both async-with blocks, by return or by exception.
End(d) == /\ stage' = [stage EXCEPT ![d] = "ended"]
          /\ permits' = [permits EXCEPT ![home[d]] = @ + 1]

GoTo(d, s) == /\ stage' = [stage EXCEPT ![d] = s]
              /\ UNCHANGED permits

\* Only the ghost variable hit tells a fault from an orderly step.
Faulty(d) == hit' = [hit EXCEPT ![d] = TRUE]
-----------------------------------------------------------------------------
(* upload and its router *)

\* The file passed the checks of its size and type.  The row is committed
\* before the response, and before anything is scheduled to process it.
Upload(d) ==
  /\ stage[d] = "none"
  /\ Write(d, "PENDING")
  /\ stage' = [stage EXCEPT ![d] = "created"]
  /\ UNCHANGED <<chunkCount, chunks, home, plan, made, hit, permits, waiting, removal>>

\* db.refresh finds the row, the response goes out, and Starlette then runs
\* the background task, which asks for the semaphore.
ScheduleProcessing(d) ==
  /\ stage[d] = "created" /\ Exists(d)
  /\ Enqueue(d)
  /\ UNCHANGED <<rows, home, plan, made, hit, permits, removal>>

\* db.refresh raises: its owner deleted the row already, or the database
\* failed.  The request ends in an error and no task is ever scheduled.
LoseUpload(d) ==
  /\ stage[d] = "created"
  /\ \/ ~Exists(d) /\ UNCHANGED hit
     \/ "db" \in Faults /\ Faulty(d)
  /\ stage' = [stage EXCEPT ![d] = "ended"]
  /\ UNCHANGED <<rows, home, plan, made, permits, waiting, removal>>
-----------------------------------------------------------------------------
(* process_document_async *)

Acquire(d) ==
  /\ stage[d] = "waiting" /\ permits[home[d]] > 0
  /\ waiting[home[d]] # <<>> /\ d = Head(waiting[home[d]])
  /\ permits' = [permits EXCEPT ![home[d]] = @ - 1]
  /\ waiting' = [waiting EXCEPT ![home[d]] = Tail(@)]
  /\ stage' = [stage EXCEPT ![d] = "fetching"]
  /\ UNCHANGED <<rows, home, plan, made, hit, removal>>

\* The SELECT stands outside the try: without a row, or with an error, the
\* task is over and nothing is written.
Fetch(d) ==
  /\ stage[d] = "fetching"
  /\ \/ Exists(d)  /\ GoTo(d, "marking") /\ UNCHANGED hit
     \/ ~Exists(d) /\ End(d) /\ UNCHANGED hit
     \/ "db" \in Faults /\ End(d) /\ Faulty(d)
  /\ UNCHANGED <<rows, home, plan, made, waiting, removal>>

\* status = PROCESSING; commit.  An UPDATE that matches no row fails in the
\* flush, which leaves the session unusable until a rollback.
MarkProcessing(d) ==
  /\ stage[d] = "marking"
  /\ \/ Exists(d)  /\ Write(d, "PROCESSING") /\ GoTo(d, "parsing") /\ UNCHANGED hit
     \/ ~Exists(d) /\ GoTo(d, "broken") /\ UNCHANGED <<status, hit>>
     \/ /\ "db" \in Faults /\ GoTo(d, "broken") /\ Faulty(d)
        /\ \/ UNCHANGED status
           \/ Exists(d) /\ Write(d, "PROCESSING")   \* applied, but not acknowledged
  /\ UNCHANGED <<chunkCount, chunks, home, plan, made, waiting, removal>>

\* refresh; parse_document; chunk.  n = 0 stands for every ValueError on the
\* way: no text, a file the parser refuses, no chunks.  Those, and a refresh
\* that finds no row, leave the session usable.
RefreshAndChunk(d) ==
  /\ stage[d] = "parsing"
  /\ \/ /\ Exists(d) /\ GoTo(d, "embedding") /\ UNCHANGED hit
        /\ \E n \in 1..MaxChunks : plan' = [plan EXCEPT ![d] = n]
     \/ GoTo(d, "failing") /\ UNCHANGED <<plan, hit>>
     \/ "db" \in Faults /\ GoTo(d, "broken") /\ Faulty(d) /\ UNCHANGED plan
  /\ UNCHANGED <<rows, home, made, waiting, removal>>

\* One turn of the loop.  generate_embedding answers with a zero vector when
\* the API fails, so it never raises.
EmbedChunk(d) ==
  /\ stage[d] = "embedding" /\ Len(made[d]) < plan[d]
  /\ \E e \in Embedding : made' = [made EXCEPT ![d] = Append(@, e)]
  /\ UNCHANGED <<rows, stage, home, plan, hit, permits, waiting, removal>>

Publish(d) == /\ Write(d, "COMPLETED")
              /\ chunkCount' = [chunkCount EXCEPT ![d] = plan[d]]
              /\ chunks' = [chunks EXCEPT ![d] = made[d]]

\* add_all, chunk_count, status = COMPLETED, in one commit.
SaveChunks(d) ==
  /\ stage[d] = "embedding" /\ Len(made[d]) = plan[d]
  /\ \/ Exists(d)  /\ Publish(d) /\ End(d) /\ UNCHANGED hit
     \/ ~Exists(d) /\ GoTo(d, "broken") /\ UNCHANGED <<rows, hit>>
     \/ "reject" \in Faults /\ GoTo(d, "broken") /\ Faulty(d) /\ UNCHANGED rows
     \/ /\ "db" \in Faults /\ GoTo(d, "broken") /\ Faulty(d)
        /\ \/ UNCHANGED rows
           \/ Exists(d) /\ Publish(d)               \* applied, but not acknowledged
  /\ UNCHANGED <<home, plan, made, waiting, removal>>

\* Mutants of RecordFailure: the exception is only logged; the row is written
\* whether it is still there or not.
OnlyLogFailure(d)  == UNCHANGED status
UpsertFailure(d)   == Write(d, "FAILED")

\* UPDATE documents SET status = 'FAILED' WHERE id = d.
RecordFailure(d) == IF Exists(d) THEN Write(d, "FAILED") ELSE UNCHANGED status

\* The except block: status = FAILED; commit.  It does not roll back first, so
\* on a broken session the commit raises and the row keeps its status.
HandleFailure(d) ==
  /\ \/ stage[d] = "failing" /\ RecordFailure(d) /\ UNCHANGED hit
     \/ stage[d] = "broken" /\ UNCHANGED <<status, hit>>
     \/ stage[d] = "failing" /\ "db" \in Faults /\ Faulty(d) /\ UNCHANGED status
  /\ End(d)
  /\ UNCHANGED <<chunkCount, chunks, home, plan, made, waiting, removal>>
-----------------------------------------------------------------------------
(* delete_document *)

\* A mutant of MayDelete: the lookup is by id alone.
AnyoneMayDelete(r, d) == Exists(d)

MayDelete(r, d) == Exists(d) /\ Owner[d] = Caller[r]

\* The ownership check is a statement of its own.
CheckOwner(r, d) ==
  /\ removal[r].at = "idle" /\ MayDelete(r, d)
  /\ removal' = [removal EXCEPT ![r] = [doc |-> d, at |-> "checked", swept |-> 0]]
  /\ UNCHANGED <<rows, work, sem>>

\* DELETE FROM document_chunks: the rows committed by now, in a transaction
\* that nobody sees yet.
SweepChunks(r) ==
  /\ removal[r].at = "checked"
  /\ removal' = [removal EXCEPT ![r].at = "swept", ![r].swept = Len(chunks[removal[r].doc])]
  /\ UNCHANGED <<rows, work, sem>>

\* A mutant of Leftover: document_chunks.document_id is a plain column, without
\* a foreign key to refuse the deletion or to cascade.
WithoutCascade(d, swept) == IF swept = Len(chunks[d]) THEN <<>> ELSE chunks[d]

\* The rows of document_chunks that outlive the deletion of d: none, since
\* ON DELETE CASCADE takes those that the sweep did not see.
Leftover(d, swept) == <<>>

\* DELETE FROM documents; commit.  The row may be gone by another request.
CommitRemoval(r) ==
  LET d == removal[r].doc IN
  /\ removal[r].at = "swept"
  /\ Write(d, "deleted")
  /\ chunkCount' = [chunkCount EXCEPT ![d] = 0]
  /\ chunks' = [chunks EXCEPT ![d] = Leftover(d, removal[r].swept)]
  /\ removal' = [removal EXCEPT ![r] = Idle]
  /\ UNCHANGED <<work, sem>>

\* A failed or abandoned request rolls its transaction back.
AbandonRemoval(r) ==
  /\ Faults # {} /\ removal[r].at # "idle"
  /\ removal' = [removal EXCEPT ![r] = Idle]
  /\ UNCHANGED <<rows, work, sem>>
-----------------------------------------------------------------------------
(* The process *)

\* A crash, or a recycling by gunicorn (max_requests) that outlasts its grace
\* period: the worker's requests, tasks and semaphore go, and nothing on
\* start-up looks for the rows they leave.
Crash(w) ==
  LET lost == {d \in Docs : home[d] = w /\ stage[d] \notin {"none", "ended"}} IN
  /\ "crash" \in Faults /\ lost # {}
  /\ stage' = [d \in Docs |-> IF d \in lost THEN "ended" ELSE stage[d]]
  /\ hit' = [d \in Docs |-> d \in lost \/ hit[d]]
  /\ permits' = [permits EXCEPT ![w] = MaxConcurrent]
  /\ waiting' = [waiting EXCEPT ![w] = <<>>]
  /\ UNCHANGED <<rows, home, plan, made, removal>>

TaskStep(d) == \/ ScheduleProcessing(d) \/ LoseUpload(d)
               \/ Acquire(d) \/ Fetch(d) \/ MarkProcessing(d) \/ RefreshAndChunk(d)
               \/ EmbedChunk(d) \/ SaveChunks(d) \/ HandleFailure(d)

RemovalStep(r) == \/ \E d \in Docs : CheckOwner(r, d)
                  \/ SweepChunks(r) \/ CommitRemoval(r) \/ AbandonRemoval(r)

Next == \/ \E d \in Docs : Upload(d) \/ TaskStep(d)
        \/ \E r \in Requesters : RemovalStep(r)
        \/ \E w \in Workers : Crash(w)

\* The event loop runs every coroutine whose await is over; the awaits on the
\* database and on Gemini end, by their timeouts if not by an answer.
Fairness == \A d \in Docs : WF_vars(TaskStep(d))

Spec == Init /\ [][Next]_vars /\ Fairness
-----------------------------------------------------------------------------
(* Properties *)

\* Every variable holds values the program can store in it.
TypeOK ==
  /\ status \in [Docs -> Stored \cup {"absent", "deleted"}]
  /\ chunkCount \in [Docs -> 0..MaxChunks]
  /\ chunks \in [Docs -> Seq(Embedding)]
  /\ stage \in [Docs -> Stage]
  /\ home \in [Docs -> Workers]
  /\ plan \in [Docs -> 0..MaxChunks]
  /\ made \in [Docs -> Seq(Embedding)]
  /\ permits \in [Workers -> 0..MaxConcurrent]
  /\ waiting \in [Workers -> Seq(Docs)]
  /\ removal \in [Requesters -> [doc : Docs \cup {"none"},
                                 at : {"idle", "checked", "swept"},
                                 swept : Nat]]
  /\ hit \in [Docs -> BOOLEAN]

Holders(w) == {d \in Docs : home[d] = w /\ stage[d] \in Holding}

\* No path through a task loses or doubles a permit: a worker's free permits
\* and its running tasks always add up to the limit, so that at most
\* MaxConcurrent documents are embedded at once and all permits come back.
SemaphoreConserved ==
  \A w \in Workers : permits[w] + Cardinality(Holders(w)) = MaxConcurrent

\* A reader sees all the chunks of a document or none of them: a COMPLETED row
\* has exactly the chunk_count rows it announces, at least one, and a row in
\* any other state, or a deleted one, has no chunk at all.
ChunksAllOrNothing ==
  \A d \in Docs : IF status[d] = "COMPLETED"
                  THEN Len(chunks[d]) = chunkCount[d] /\ chunkCount[d] > 0
                  ELSE chunks[d] = <<>>

\* A task that met no database error and no crash leaves its document
\* COMPLETED, FAILED or deleted, whatever was deleted under its feet: no
\* orderly run leaves a row PENDING or PROCESSING for ever.
OrderlyRunSettles ==
  \A d \in Docs : stage[d] = "ended" /\ ~hit[d] => status[d] \in Settled

\* What the except block is there for: a task that is over has recorded its
\* outcome in the row, an exception as FAILED.
OutcomeRecorded ==
  \A d \in Docs : stage[d] = "ended" => status[d] \in Settled

\* Only a request of the document's owner can make it disappear.
OnlyOwnerDeletes ==
  [][\A d \in Docs : Exists(d) /\ ~Exists(d)' =>
       \E r \in Requesters : removal[r].doc = d /\ Caller[r] = Owner[d]]_vars

\* The store keeps the promise of DocumentLedger.
Ledger == INSTANCE DocumentLedger
LedgerPromise == Ledger!LedgerSpec

\* Every accepted upload comes to an end: no waiter is forgotten and no permit
\* is lost that it would need, whatever fails around it.
UploadsEnd == \A d \in Docs : stage[d] = "created" ~> stage[d] = "ended"
=============================================================================
