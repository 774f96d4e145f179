---------------------- MODULE DocumentIngestionProofs ----------------------
(***************************************************************************)
(* Theorems about DocumentIngestion, for any number of documents, workers  *)
(* and delete requests, any limit of the semaphore and any set of faults.  *)
(***************************************************************************)
EXTENDS DocumentIngestion, FiniteSetTheorems, TLAPS

\* TypeOK without the upper bound of permits, which is not inductive by itself.
Typing ==
  /\ status \in [Docs -> Stored \cup {"absent", "deleted"}]
  /\ chunkCount \in [Docs -> 0..MaxChunks]
  /\ chunks \in [Docs -> Seq(Embedding)]
  /\ stage \in [Docs -> Stage]
  /\ home \in [Docs -> Workers]
  /\ plan \in [Docs -> 0..MaxChunks]
  /\ made \in [Docs -> Seq(Embedding)]
  /\ permits \in [Workers -> Nat]
  /\ waiting \in [Workers -> Seq(Docs)]
  /\ removal \in [Requesters -> [doc : Docs \cup {"none"},
                                 at : {"idle", "checked", "swept"},
                                 swept : Nat]]
  /\ hit \in [Docs -> BOOLEAN]

\* What the row of a document may say while its task is at a given stage,
\* deletions aside.
StatusAt(d) ==
  CASE stage[d] = "none" -> {"absent"}
    [] stage[d] \in {"created", "waiting", "fetching", "marking"} -> {"PENDING", "deleted"}
    [] stage[d] \in {"parsing", "embedding", "failing"} -> {"PROCESSING", "deleted"}
    [] stage[d] \in {"broken", "ended"} -> IF hit[d] THEN Stored \cup {"deleted"}
                                           ELSE IF stage[d] = "broken" THEN {"deleted"}
                                           ELSE Settled

RowFollowsTask == \A d \in Docs : status[d] \in StatusAt(d)

PlanOK == \A d \in Docs : stage[d] = "embedding" => plan[d] > 0

RemovalOK == \A r \in Requesters :
               removal[r].at # "idle" => /\ removal[r].doc \in Docs
                                         /\ status[removal[r].doc] # "absent"
                                         /\ Caller[r] = Owner[removal[r].doc]

\* The inductive invariant.
IInv == /\ Typing
        /\ RowFollowsTask
        /\ PlanOK
        /\ RemovalOK
        /\ SemaphoreConserved
        /\ ChunksAllOrNothing
-----------------------------------------------------------------------------

\* Every step stores values of the right kind.
LEMMA TypingStep == IInv /\ [Next]_vars => Typing'
<1> SUFFICES ASSUME IInv, [Next]_vars PROVE Typing'
  OBVIOUS
<1> USE DEF IInv, Typing, rows, work, sem, Stage, Holding, Embedding, Stored
<1>1. CASE \E d \in Docs : Upload(d)
  BY <1>1 DEF Upload, Write
<1>2. CASE \E d \in Docs : ScheduleProcessing(d)
  BY <1>2 DEF ScheduleProcessing, Enqueue
<1>3. CASE \E d \in Docs : LoseUpload(d)
  <2> PICK d \in Docs : LoseUpload(d)
    BY <1>3
  <2>1. stage' \in [Docs -> Stage] /\ hit' \in [Docs -> BOOLEAN]
    BY DEF LoseUpload, Faulty
  <2> QED
    BY <2>1 DEF LoseUpload
<1>4. CASE \E d \in Docs : Acquire(d)
  <2> PICK d \in Docs : Acquire(d)
    BY <1>4
  <2>1. stage' \in [Docs -> Stage]
    BY DEF Acquire
  <2>2. permits' \in [Workers -> Nat]
    BY DEF Acquire
  <2>3. Tail(waiting[home[d]]) \in Seq(Docs)
    BY DEF Acquire
  <2>4. waiting' \in [Workers -> Seq(Docs)]
    BY <2>3 DEF Acquire
  <2> QED
    BY <2>1, <2>2, <2>4 DEF Acquire
<1>5. CASE \E d \in Docs : Fetch(d)
  <2> PICK d \in Docs : Fetch(d)
    BY <1>5
  <2>0. GoTo(d, "marking") \/ End(d)
    BY DEF Fetch
  <2>1. stage' \in [Docs -> Stage] /\ permits' \in [Workers -> Nat]
    <3>1. CASE GoTo(d, "marking")
      BY <3>1 DEF GoTo
    <3>2. CASE End(d)
      BY <3>2 DEF End
    <3> QED
      BY <2>0, <3>1, <3>2
  <2>3. hit' \in [Docs -> BOOLEAN]
    BY DEF Fetch, Faulty
  <2> QED
    BY <2>1, <2>3 DEF Fetch
<1>6. CASE \E d \in Docs : MarkProcessing(d)
  <2> PICK d \in Docs : MarkProcessing(d)
    BY <1>6
  <2>1. stage' \in [Docs -> Stage] /\ permits' \in [Workers -> Nat]
    <3>1. \E s \in Stage : GoTo(d, s)
      BY DEF MarkProcessing
    <3> QED
      BY <3>1 DEF GoTo
  <2>2. status' \in [Docs -> Stored \cup {"absent", "deleted"}]
    BY DEF MarkProcessing, Write
  <2>3. hit' \in [Docs -> BOOLEAN]
    BY DEF MarkProcessing, Faulty
  <2> QED
    BY <2>1, <2>2, <2>3 DEF MarkProcessing
<1>7. CASE \E d \in Docs : RefreshAndChunk(d)
  <2> PICK d \in Docs : RefreshAndChunk(d)
    BY <1>7
  <2>1. stage' \in [Docs -> Stage] /\ permits' \in [Workers -> Nat]
    <3>1. \E s \in Stage : GoTo(d, s)
      BY DEF RefreshAndChunk
    <3> QED
      BY <3>1 DEF GoTo
  <2>0. \/ \E n \in 1..MaxChunks : plan' = [plan EXCEPT ![d] = n]
        \/ UNCHANGED plan
    BY DEF RefreshAndChunk
  <2>2. plan' \in [Docs -> 0..MaxChunks]
    <3>1. CASE UNCHANGED plan
      BY <3>1
    <3>2. CASE \E n \in 1..MaxChunks : plan' = [plan EXCEPT ![d] = n]
      <4> PICK n \in 1..MaxChunks : plan' = [plan EXCEPT ![d] = n]
        BY <3>2
      <4> n \in 0..MaxChunks
        BY LimitAssumption
      <4> QED
        OBVIOUS
    <3> QED
      BY <2>0, <3>1, <3>2
  <2>3. hit' \in [Docs -> BOOLEAN]
    BY DEF RefreshAndChunk, Faulty
  <2> QED
    BY <2>1, <2>2, <2>3 DEF RefreshAndChunk
<1>8. CASE \E d \in Docs : EmbedChunk(d)
  <2> PICK d \in Docs, e \in Embedding :
           EmbedChunk(d) /\ made' = [made EXCEPT ![d] = Append(@, e)]
    BY <1>8 DEF EmbedChunk
  <2>1. Append(made[d], e) \in Seq(Embedding)
    OBVIOUS
  <2>2. made' \in [Docs -> Seq(Embedding)]
    BY <2>1
  <2> QED
    BY <2>2 DEF EmbedChunk
<1>9. CASE \E d \in Docs : SaveChunks(d)
  <2> PICK d \in Docs : SaveChunks(d)
    BY <1>9
  <2>0. GoTo(d, "broken") \/ End(d)
    BY DEF SaveChunks
  <2>1. stage' \in [Docs -> Stage] /\ permits' \in [Workers -> Nat]
    <3>1. CASE GoTo(d, "broken")
      BY <3>1 DEF GoTo
    <3>2. CASE End(d)
      BY <3>2 DEF End
    <3> QED
      BY <2>0, <3>1, <3>2
  <2>2. status' \in [Docs -> Stored \cup {"absent", "deleted"}]
    BY DEF SaveChunks, Publish, Write
  <2>3. chunkCount' \in [Docs -> 0..MaxChunks]
    BY DEF SaveChunks, Publish
  <2>4. chunks' \in [Docs -> Seq(Embedding)]
    BY DEF SaveChunks, Publish
  <2>5. hit' \in [Docs -> BOOLEAN]
    BY DEF SaveChunks, Faulty
  <2> QED
    BY <2>1, <2>2, <2>3, <2>4, <2>5 DEF SaveChunks
<1>10. CASE \E d \in Docs : HandleFailure(d)
  <2> PICK d \in Docs : HandleFailure(d)
    BY <1>10
  <2>1. stage' \in [Docs -> Stage] /\ permits' \in [Workers -> Nat]
    BY DEF HandleFailure, End
  <2>2. status' \in [Docs -> Stored \cup {"absent", "deleted"}]
    BY DEF HandleFailure, RecordFailure, Write
  <2>3. hit' \in [Docs -> BOOLEAN]
    BY DEF HandleFailure, Faulty
  <2> QED
    BY <2>1, <2>2, <2>3 DEF HandleFailure
<1>11. CASE \E r \in Requesters, d \in Docs : CheckOwner(r, d)
  BY <1>11 DEF CheckOwner, MayDelete, Exists
<1>12. CASE \E r \in Requesters : SweepChunks(r)
  <2> PICK r \in Requesters : SweepChunks(r)
    BY <1>12
  <2>1. removal[r].doc \in Docs
    BY DEF SweepChunks, RemovalOK
  <2>2. Len(chunks[removal[r].doc]) \in Nat
    BY <2>1
  <2> QED
    BY <2>2 DEF SweepChunks
<1>13. CASE \E r \in Requesters : CommitRemoval(r)
  <2> PICK r \in Requesters : CommitRemoval(r)
    BY <1>13
  <2>1. removal[r].doc \in Docs
    BY DEF CommitRemoval, RemovalOK
  <2>2. /\ status' \in [Docs -> Stored \cup {"absent", "deleted"}]
        /\ chunks' \in [Docs -> Seq(Embedding)]
    BY <2>1 DEF CommitRemoval, Write, Leftover
  <2>3. chunkCount' \in [Docs -> 0..MaxChunks]
    BY <2>1, LimitAssumption DEF CommitRemoval
  <2>4. removal' \in [Requesters -> [doc : Docs \cup {"none"},
                                     at : {"idle", "checked", "swept"},
                                     swept : Nat]]
    BY DEF CommitRemoval, Idle
  <2> QED
    BY <2>2, <2>3, <2>4 DEF CommitRemoval
<1>14. CASE \E r \in Requesters : AbandonRemoval(r)
  BY <1>14 DEF AbandonRemoval, Idle
<1>15. CASE \E w \in Workers : Crash(w)
  <2> PICK w \in Workers : Crash(w)
    BY <1>15
  <2>1. stage' \in [Docs -> Stage]
    BY DEF Crash
  <2>2. hit' \in [Docs -> BOOLEAN]
    BY DEF Crash
  <2>3. permits' \in [Workers -> Nat] /\ waiting' \in [Workers -> Seq(Docs)]
    BY LimitAssumption DEF Crash
  <2> QED
    BY <2>1, <2>2, <2>3 DEF Crash
<1>16. CASE UNCHANGED vars
  BY <1>16 DEF vars
<1> QED
  BY <1>1, <1>2, <1>3, <1>4, <1>5, <1>6, <1>7, <1>8, <1>9, <1>10, <1>11, <1>12, <1>13, <1>14, <1>15, <1>16 DEF Next, TaskStep, RemovalStep

\* No step lets a row disagree with the stage of its task.
LEMMA RowFollowsTaskStep == IInv /\ [Next]_vars => RowFollowsTask'
<1> SUFFICES ASSUME IInv, [Next]_vars PROVE RowFollowsTask'
  OBVIOUS
<1> USE DEF IInv, Typing, RowFollowsTask, StatusAt, Exists, Settled, rows, work, sem, Stage, Holding, Embedding, Stored
<1>1. CASE \E d \in Docs : Upload(d)
  BY <1>1 DEF Upload, Write
<1>2. CASE \E d \in Docs : ScheduleProcessing(d)
  BY <1>2 DEF ScheduleProcessing, Enqueue
<1>3. CASE \E d \in Docs : LoseUpload(d)
  BY <1>3 DEF LoseUpload, Faulty
<1>4. CASE \E d \in Docs : Acquire(d)
  <2> PICK d \in Docs : Acquire(d)
    BY <1>4
  <2>1. status'[d] \in StatusAt(d)'
    BY DEF Acquire
  <2>2. ASSUME NEW e \in Docs, e # d PROVE status'[e] \in StatusAt(e)'
    BY <2>2 DEF Acquire
  <2> QED
    BY <2>1, <2>2 DEF Acquire
<1>5. CASE \E d \in Docs : Fetch(d)
  <2> PICK d \in Docs : Fetch(d)
    BY <1>5
  <2>1. status'[d] \in StatusAt(d)'
    BY DEF Fetch, GoTo, End, Faulty
  <2>2. ASSUME NEW e \in Docs, e # d PROVE status'[e] \in StatusAt(e)'
    BY <2>2 DEF Fetch, GoTo, End, Faulty
  <2> QED
    BY <2>1, <2>2 DEF Fetch
<1>6. CASE \E d \in Docs : MarkProcessing(d)
  <2> PICK d \in Docs : MarkProcessing(d)
    BY <1>6
  <2>1. status'[d] \in StatusAt(d)'
    BY DEF MarkProcessing, GoTo, Write, Faulty
  <2>2. ASSUME NEW e \in Docs, e # d PROVE status'[e] \in StatusAt(e)'
    BY <2>2 DEF MarkProcessing, GoTo, Write, Faulty
  <2> QED
    BY <2>1, <2>2 DEF MarkProcessing
<1>7. CASE \E d \in Docs : RefreshAndChunk(d)
  <2> PICK d \in Docs : RefreshAndChunk(d)
    BY <1>7
  <2>1. status'[d] \in StatusAt(d)'
    BY DEF RefreshAndChunk, GoTo, Faulty
  <2>2. ASSUME NEW e \in Docs, e # d PROVE status'[e] \in StatusAt(e)'
    BY <2>2 DEF RefreshAndChunk, GoTo, Faulty
  <2> QED
    BY <2>1, <2>2 DEF RefreshAndChunk
<1>8. CASE \E d \in Docs : EmbedChunk(d)
  BY <1>8 DEF EmbedChunk
<1>9. CASE \E d \in Docs : SaveChunks(d)
  <2> PICK d \in Docs : SaveChunks(d)
    BY <1>9
  <2>1. status'[d] \in StatusAt(d)'
    BY DEF SaveChunks, GoTo, End, Write, Publish, Faulty
  <2>2. ASSUME NEW e \in Docs, e # d PROVE status'[e] \in StatusAt(e)'
    BY <2>2 DEF SaveChunks, GoTo, End, Write, Publish, Faulty
  <2> QED
    BY <2>1, <2>2 DEF SaveChunks
<1>10. CASE \E d \in Docs : HandleFailure(d)
  BY <1>10 DEF HandleFailure, End, Write, RecordFailure, Faulty
<1>11. CASE \E r \in Requesters, d \in Docs : CheckOwner(r, d)
  BY <1>11 DEF CheckOwner, MayDelete, Exists
<1>12. CASE \E r \in Requesters : SweepChunks(r)
  BY <1>12 DEF SweepChunks
<1>13. CASE \E r \in Requesters : CommitRemoval(r)
  BY <1>13 DEF CommitRemoval, RemovalOK, Write
<1>14. CASE \E r \in Requesters : AbandonRemoval(r)
  BY <1>14 DEF AbandonRemoval, Idle
<1>15. CASE \E w \in Workers : Crash(w)
  <2> PICK w \in Workers : Crash(w)
    BY <1>15
  <2> SUFFICES ASSUME NEW d \in Docs PROVE status'[d] \in StatusAt(d)'
    OBVIOUS
  <2>1. CASE home[d] = w /\ stage[d] \notin {"none", "ended"}
    BY <2>1 DEF Crash
  <2>2. CASE ~(home[d] = w /\ stage[d] \notin {"none", "ended"})
    BY <2>2 DEF Crash
  <2> QED
    BY <2>1, <2>2
<1>16. CASE UNCHANGED vars
  BY <1>16 DEF vars
<1> QED
  BY <1>1, <1>2, <1>3, <1>4, <1>5, <1>6, <1>7, <1>8, <1>9, <1>10, <1>11, <1>12, <1>13, <1>14, <1>15, <1>16 DEF Next, TaskStep, RemovalStep

\* A task that embeds has at least one chunk to embed.
LEMMA PlanStep == IInv /\ [Next]_vars => PlanOK'
<1> SUFFICES ASSUME IInv, [Next]_vars PROVE PlanOK'
  OBVIOUS
<1> USE DEF IInv, Typing, PlanOK, rows, work, sem, Stage, Holding, Embedding, Stored
<1>1. CASE \E d \in Docs : Upload(d)
  BY <1>1 DEF Upload, Write
<1>2. CASE \E d \in Docs : ScheduleProcessing(d)
  BY <1>2 DEF ScheduleProcessing, Enqueue
<1>3. CASE \E d \in Docs : LoseUpload(d)
  BY <1>3 DEF LoseUpload, Faulty
<1>4. CASE \E d \in Docs : Acquire(d)
  BY <1>4 DEF Acquire
<1>5. CASE \E d \in Docs : Fetch(d)
  BY <1>5 DEF Fetch, GoTo, End, Faulty
<1>6. CASE \E d \in Docs : MarkProcessing(d)
  BY <1>6 DEF MarkProcessing, GoTo, Write, Faulty
<1>7. CASE \E d \in Docs : RefreshAndChunk(d)
  BY <1>7 DEF RefreshAndChunk, GoTo, Faulty
<1>8. CASE \E d \in Docs : EmbedChunk(d)
  BY <1>8 DEF EmbedChunk
<1>9. CASE \E d \in Docs : SaveChunks(d)
  BY <1>9 DEF SaveChunks, GoTo, End, Write, Publish, Faulty
<1>10. CASE \E d \in Docs : HandleFailure(d)
  BY <1>10 DEF HandleFailure, End, Write, RecordFailure, Faulty
<1>11. CASE \E r \in Requesters, d \in Docs : CheckOwner(r, d)
  BY <1>11 DEF CheckOwner, MayDelete, Exists
<1>12. CASE \E r \in Requesters : SweepChunks(r)
  BY <1>12 DEF SweepChunks
<1>13. CASE \E r \in Requesters : CommitRemoval(r)
  BY <1>13 DEF CommitRemoval, Idle, Write, Leftover
<1>14. CASE \E r \in Requesters : AbandonRemoval(r)
  BY <1>14 DEF AbandonRemoval, Idle
<1>15. CASE \E w \in Workers : Crash(w)
  BY <1>15 DEF Crash
<1>16. CASE UNCHANGED vars
  BY <1>16 DEF vars
<1> QED
  BY <1>1, <1>2, <1>3, <1>4, <1>5, <1>6, <1>7, <1>8, <1>9, <1>10, <1>11, <1>12, <1>13, <1>14, <1>15, <1>16 DEF Next, TaskStep, RemovalStep

\* What an upload or a task commits is a status of its own document.
LEMMA TaskWrites ==
  ASSUME NEW d \in Docs, Upload(d) \/ TaskStep(d)
  PROVE  (UNCHANGED status \/ \E s \in Stored : Write(d, s)) /\ UNCHANGED removal
BY DEF Upload, TaskStep, ScheduleProcessing, LoseUpload, Acquire, Fetch, MarkProcessing,
       RefreshAndChunk, EmbedChunk, SaveChunks, Publish, HandleFailure, RecordFailure,
       Write, Stored, rows

\* A delete request keeps naming a document that was uploaded, by its caller.
LEMMA RemovalStepOK == IInv /\ [Next]_vars => RemovalOK'
<1> SUFFICES ASSUME IInv, [Next]_vars PROVE RemovalOK'
  OBVIOUS
<1> USE DEF IInv, Typing, RemovalOK
<1>1. CASE \E d \in Docs : Upload(d) \/ TaskStep(d)
  <2>1. \A e \in Docs : status[e] # "absent" => status'[e] # "absent"
    BY <1>1, TaskWrites DEF Write, Stored
  <2>2. UNCHANGED removal
    BY <1>1, TaskWrites
  <2> QED
    BY <2>1, <2>2
<1>2. CASE \E r \in Requesters, d \in Docs : CheckOwner(r, d)
  BY <1>2 DEF CheckOwner, MayDelete, Exists, Stored, rows
<1>3. CASE \E r \in Requesters : SweepChunks(r)
  BY <1>3 DEF SweepChunks, rows
<1>4. CASE \E r \in Requesters : CommitRemoval(r)
  BY <1>4 DEF CommitRemoval, Idle, Write
<1>5. CASE \E r \in Requesters : AbandonRemoval(r)
  BY <1>5 DEF AbandonRemoval, Idle, rows
<1>6. CASE (\E w \in Workers : Crash(w)) \/ UNCHANGED vars
  BY <1>6 DEF Crash, rows, vars
<1> QED
  BY <1>1, <1>2, <1>3, <1>4, <1>5, <1>6 DEF Next, RemovalStep

\* Chunks come and go with the status COMPLETED only.
LEMMA ChunksStep == IInv /\ [Next]_vars => ChunksAllOrNothing'
<1> SUFFICES ASSUME IInv, [Next]_vars PROVE ChunksAllOrNothing'
  OBVIOUS
<1> USE DEF IInv, Typing, RowFollowsTask, StatusAt, ChunksAllOrNothing, Exists, Settled, rows, work, sem, Stage, Holding, Embedding, Stored
<1>1. CASE \E d \in Docs : Upload(d)
  <2> PICK d \in Docs : Upload(d)
    BY <1>1
  <2>1. chunks[d] = <<>>
    BY DEF Upload
  <2> QED
    BY <2>1 DEF Upload, Write
<1>2. CASE \E d \in Docs : ScheduleProcessing(d)
  BY <1>2 DEF ScheduleProcessing, Enqueue
<1>3. CASE \E d \in Docs : LoseUpload(d)
  BY <1>3 DEF LoseUpload, Faulty
<1>4. CASE \E d \in Docs : Acquire(d)
  BY <1>4 DEF Acquire
<1>5. CASE \E d \in Docs : Fetch(d)
  BY <1>5 DEF Fetch, GoTo, End, Faulty
<1>6. CASE \E d \in Docs : MarkProcessing(d)
  BY <1>6 DEF MarkProcessing, GoTo, Write, Faulty
<1>7. CASE \E d \in Docs : RefreshAndChunk(d)
  BY <1>7 DEF RefreshAndChunk, GoTo, Faulty
<1>8. CASE \E d \in Docs : EmbedChunk(d)
  BY <1>8 DEF EmbedChunk
<1>9. CASE \E d \in Docs : SaveChunks(d)
  <2> PICK d \in Docs : SaveChunks(d)
    BY <1>9
  <2>1. plan[d] \in Nat /\ plan[d] > 0 /\ Len(made[d]) = plan[d]
    BY DEF SaveChunks, PlanOK
  <2>2. CASE Publish(d)
    BY <2>1, <2>2 DEF Publish, Write
  <2>3. CASE UNCHANGED rows
    BY <2>3
  <2> QED
    BY <2>2, <2>3 DEF SaveChunks
<1>10. CASE \E d \in Docs : HandleFailure(d)
  <2> PICK d \in Docs : HandleFailure(d)
    BY <1>10
  <2>1. CASE stage[d] = "failing" /\ Exists(d) /\ Write(d, "FAILED")
    <3>1. status[d] = "PROCESSING" /\ chunks[d] = <<>>
      BY <2>1
    <3> QED
      BY <2>1, <3>1 DEF HandleFailure, Write
  <2>2. CASE UNCHANGED status
    BY <2>2 DEF HandleFailure
  <2> QED
    BY <2>1, <2>2 DEF HandleFailure, RecordFailure
<1>11. CASE \E r \in Requesters, d \in Docs : CheckOwner(r, d)
  BY <1>11 DEF CheckOwner, MayDelete, Exists
<1>12. CASE \E r \in Requesters : SweepChunks(r)
  BY <1>12 DEF SweepChunks
<1>13. CASE \E r \in Requesters : CommitRemoval(r)
  BY <1>13 DEF CommitRemoval, RemovalOK, Write, Leftover
<1>14. CASE \E r \in Requesters : AbandonRemoval(r)
  BY <1>14 DEF AbandonRemoval, Idle
<1>15. CASE \E w \in Workers : Crash(w)
  BY <1>15 DEF Crash
<1>16. CASE UNCHANGED vars
  BY <1>16 DEF vars
<1> QED
  BY <1>1, <1>2, <1>3, <1>4, <1>5, <1>6, <1>7, <1>8, <1>9, <1>10, <1>11, <1>12, <1>13, <1>14, <1>15, <1>16 DEF Next, TaskStep, RemovalStep
-----------------------------------------------------------------------------
(* The semaphore, by counting. *)

\* The holders of a worker's permits can be counted.
LEMMA HoldersFinite ==
  ASSUME NEW w PROVE IsFiniteSet(Holders(w)) /\ Cardinality(Holders(w)) \in Nat
<1>1. Holders(w) \subseteq Docs
  BY DEF Holders
<1> QED
  BY <1>1, DocsAssumption, FS_Subset, FS_CardinalityType

\* A step from one stage to another on the same side of the semaphore.
LEMMA StayOnSide ==
  ASSUME Typing, SemaphoreConserved, NEW d \in Docs, NEW s,
         stage' = [stage EXCEPT ![d] = s], UNCHANGED <<home, permits>>,
         stage[d] \in Holding <=> s \in Holding
  PROVE  SemaphoreConserved'
<1>1. \A w \in Workers : Holders(w)' = Holders(w)
  BY DEF Holders, Typing
<1> QED
  BY <1>1 DEF SemaphoreConserved

\* Acquire takes one permit and adds one holder.
LEMMA TakePermit ==
  ASSUME Typing, SemaphoreConserved, NEW d \in Docs, stage[d] \notin Holding,
         stage' = [stage EXCEPT ![d] = "fetching"], UNCHANGED home,
         permits' = [permits EXCEPT ![home[d]] = @ - 1]
  PROVE  SemaphoreConserved'
<1> SUFFICES ASSUME NEW w \in Workers
             PROVE  permits'[w] + Cardinality(Holders(w)') = MaxConcurrent
  BY DEF SemaphoreConserved
<1>1. permits[w] \in Nat /\ permits[w] + Cardinality(Holders(w)) = MaxConcurrent
  BY DEF SemaphoreConserved, Typing
<1>2. CASE home[d] = w
  <2>1. Holders(w)' = Holders(w) \cup {d} /\ d \notin Holders(w)
    BY <1>2 DEF Holders, Typing, Holding
  <2>2. Cardinality(Holders(w)') = Cardinality(Holders(w)) + 1
    BY <2>1, HoldersFinite, FS_AddElement
  <2>3. permits'[w] = permits[w] - 1
    BY <1>2 DEF Typing
  <2> QED
    BY <1>1, <2>2, <2>3, HoldersFinite
<1>3. CASE home[d] # w
  <2>1. Holders(w)' = Holders(w) /\ permits'[w] = permits[w]
    BY <1>3 DEF Holders, Typing
  <2> QED
    BY <1>1, <2>1
<1> QED
  BY <1>2, <1>3

\* Leaving the semaphore's block gives back one permit and removes one holder.
LEMMA ReturnPermit ==
  ASSUME Typing, SemaphoreConserved, NEW d \in Docs, stage[d] \in Holding,
         End(d), UNCHANGED home
  PROVE  SemaphoreConserved'
<1> SUFFICES ASSUME NEW w \in Workers
             PROVE  permits'[w] + Cardinality(Holders(w)') = MaxConcurrent
  BY DEF SemaphoreConserved
<1>1. permits[w] \in Nat /\ permits[w] + Cardinality(Holders(w)) = MaxConcurrent
  BY DEF SemaphoreConserved, Typing
<1>2. CASE home[d] = w
  <2>1. Holders(w)' = Holders(w) \ {d} /\ d \in Holders(w)
    BY <1>2 DEF Holders, Typing, Holding, End
  <2>2. Cardinality(Holders(w)') = Cardinality(Holders(w)) - 1
    BY <2>1, HoldersFinite, FS_RemoveElement
  <2>3. permits'[w] = permits[w] + 1
    BY <1>2 DEF Typing, End
  <2> QED
    BY <1>1, <2>2, <2>3, HoldersFinite
<1>3. CASE home[d] # w
  <2>1. Holders(w)' = Holders(w) /\ permits'[w] = permits[w]
    BY <1>3 DEF Holders, Typing, End
  <2> QED
    BY <1>1, <2>1
<1> QED
  BY <1>2, <1>3

\* A crashed worker starts again with every permit and no task.
LEMMA CrashPermits ==
  ASSUME Typing, SemaphoreConserved, NEW w \in Workers, Crash(w)
  PROVE  SemaphoreConserved'
<1> SUFFICES ASSUME NEW v \in Workers
             PROVE  permits'[v] + Cardinality(Holders(v)') = MaxConcurrent
  BY DEF SemaphoreConserved
<1>1. CASE v = w
  <2>1. Holders(v)' = {}
    BY <1>1 DEF Holders, Typing, Holding, Crash
  <2>2. permits'[v] = MaxConcurrent
    BY <1>1 DEF Typing, Crash
  <2> QED
    BY <2>1, <2>2, FS_EmptySet, LimitAssumption
<1>2. CASE v # w
  <2>1. Holders(v)' = Holders(v) /\ permits'[v] = permits[v]
    BY <1>2 DEF Holders, Typing, Holding, Crash
  <2> QED
    BY <2>1 DEF SemaphoreConserved
<1> QED
  BY <1>1, <1>2

\* No step loses or doubles a permit.
LEMMA SemaphoreStep == IInv /\ [Next]_vars => SemaphoreConserved'
<1> SUFFICES ASSUME IInv, [Next]_vars PROVE SemaphoreConserved'
  OBVIOUS
<1> USE DEF IInv
<1>1. CASE \E d \in Docs : Upload(d) \/ ScheduleProcessing(d) \/ LoseUpload(d)
  BY <1>1, StayOnSide DEF Upload, ScheduleProcessing, LoseUpload, Enqueue, Holding
<1>2. CASE \E d \in Docs : Acquire(d)
  BY <1>2, TakePermit DEF Acquire, Holding
<1>3. CASE \E d \in Docs : Fetch(d)
  BY <1>3, StayOnSide, ReturnPermit DEF Fetch, GoTo, Holding
<1>4. CASE \E d \in Docs : MarkProcessing(d)
  BY <1>4, StayOnSide DEF MarkProcessing, GoTo, Holding
<1>5. CASE \E d \in Docs : RefreshAndChunk(d)
  BY <1>5, StayOnSide DEF RefreshAndChunk, GoTo, Holding
<1>6. CASE \E d \in Docs : SaveChunks(d)
  BY <1>6, StayOnSide, ReturnPermit DEF SaveChunks, GoTo, Holding
<1>7. CASE \E d \in Docs : HandleFailure(d)
  BY <1>7, ReturnPermit DEF HandleFailure, Holding
<1>8. CASE \E w \in Workers : Crash(w)
  BY <1>8, CrashPermits
<1>9. CASE \/ \E d \in Docs : EmbedChunk(d)
           \/ \E r \in Requesters : RemovalStep(r)
           \/ UNCHANGED vars
  <2>1. UNCHANGED <<stage, home, permits>>
    BY <1>9 DEF EmbedChunk, RemovalStep, CheckOwner, SweepChunks, CommitRemoval,
                AbandonRemoval, work, sem, vars
  <2>2. \A w \in Workers : Holders(w)' = Holders(w)
    BY <2>1 DEF Holders
  <2> QED
    BY <2>1, <2>2 DEF SemaphoreConserved
<1> QED
  BY <1>1, <1>2, <1>3, <1>4, <1>5, <1>6, <1>7, <1>8, <1>9 DEF Next, TaskStep
-----------------------------------------------------------------------------
\* The empty database and the idle workers satisfy the invariant.
LEMMA InitIInv == Init => IInv
<1> SUFFICES ASSUME Init PROVE IInv
  OBVIOUS
<1>1. Typing /\ PlanOK /\ RemovalOK /\ ChunksAllOrNothing
  BY LimitAssumption DEF Init, Typing, PlanOK, RemovalOK, ChunksAllOrNothing, Idle,
                         Stage, Stored, Embedding
<1>2. RowFollowsTask
  BY DEF Init, RowFollowsTask, StatusAt
<1>3. SemaphoreConserved
  <2>1. \A w \in Workers : Holders(w) = {}
    BY DEF Init, Holders, Holding
  <2>2. \A w \in Workers : Cardinality(Holders(w)) = 0 /\ permits[w] = MaxConcurrent
    BY <2>1, FS_EmptySet DEF Init
  <2> QED
    BY <2>2, LimitAssumption DEF SemaphoreConserved
<1> QED
  BY <1>1, <1>2, <1>3 DEF IInv

\* Every step of every actor preserves the invariant.
LEMMA NextIInv == IInv /\ [Next]_vars => IInv'
BY TypingStep, RowFollowsTaskStep, PlanStep, RemovalStepOK, ChunksStep, SemaphoreStep
   DEF IInv

\* The inductive invariant holds throughout.
THEOREM Invariance == Spec => []IInv
BY InitIInv, NextIInv, PTL DEF Spec

\* Types, and with them the bound of the semaphore, for every instance.
THEOREM TypeCorrect == Spec => []TypeOK
<1>1. IInv => TypeOK
  <2> SUFFICES ASSUME IInv PROVE TypeOK
    OBVIOUS
  <2>1. ASSUME NEW w \in Workers PROVE permits[w] \in 0..MaxConcurrent
    <3>1. permits[w] + Cardinality(Holders(w)) = MaxConcurrent /\ permits[w] \in Nat
      BY DEF IInv, Typing, SemaphoreConserved
    <3> QED
      BY <3>1, HoldersFinite, LimitAssumption
  <2>2. permits \in [Workers -> 0..MaxConcurrent]
    BY <2>1 DEF IInv, Typing
  <2> QED
    BY <2>2 DEF IInv, Typing, TypeOK
<1> QED
  BY <1>1, Invariance, PTL

\* However tasks fail, and however workers crash, no permit is lost or doubled.
THEOREM PermitsConserved == Spec => []SemaphoreConserved
<1>1. IInv => SemaphoreConserved
  BY DEF IInv
<1> QED
  BY <1>1, Invariance, PTL

\* A document's chunks are visible all together and only while it is COMPLETED.
THEOREM ChunksAtomic == Spec => []ChunksAllOrNothing
<1>1. IInv => ChunksAllOrNothing
  BY DEF IInv
<1> QED
  BY <1>1, Invariance, PTL

\* Only a database fault or a crash can leave a row PENDING or PROCESSING.
THEOREM OrderlyRunsSettle == Spec => []OrderlyRunSettles
<1>1. IInv => OrderlyRunSettles
  BY DEF IInv, RowFollowsTask, StatusAt, OrderlyRunSettles, Typing
<1> QED
  BY <1>1, Invariance, PTL

\* A row that goes was the caller's own, although the check of its owner and
\* its deletion are separate statements.
THEOREM OwnersOnly == Spec => OnlyOwnerDeletes
<1> DEFINE OwnDeletion == \A d \in Docs : Exists(d) /\ ~Exists(d)' =>
             \E r \in Requesters : removal[r].doc = d /\ Caller[r] = Owner[d]
<1>1. IInv /\ [Next]_vars => [OwnDeletion]_vars
  <2> SUFFICES ASSUME IInv, [Next]_vars, NEW d \in Docs, Exists(d), ~Exists(d)'
               PROVE  \E r \in Requesters : removal[r].doc = d /\ Caller[r] = Owner[d]
    OBVIOUS
  <2> USE DEF IInv, Typing, Exists, Stored
  <2>1. CASE \E e \in Docs : Upload(e) \/ TaskStep(e)
    <3>1. PICK e \in Docs : Upload(e) \/ TaskStep(e)
      BY <2>1
    <3>2. UNCHANGED status \/ \E s \in Stored : Write(e, s)
      BY <3>1, TaskWrites
    <3> QED
      BY <3>2 DEF Write
  <2>2. CASE \E r \in Requesters : RemovalStep(r)
    <3>1. PICK r \in Requesters : RemovalStep(r)
      BY <2>2
    <3>2. CommitRemoval(r)
      BY <3>1 DEF RemovalStep, CheckOwner, SweepChunks, AbandonRemoval, rows
    <3>3. removal[r].doc = d
      BY <3>2 DEF CommitRemoval, Write
    <3> QED
      BY <3>2, <3>3 DEF CommitRemoval, RemovalOK
  <2>3. CASE \E w \in Workers : Crash(w)
    BY <2>3 DEF Crash, rows
  <2>4. CASE UNCHANGED vars
    BY <2>4 DEF vars
  <2> QED
    BY <2>1, <2>2, <2>3, <2>4 DEF Next
<1> QED
  BY <1>1, Invariance, PTL DEF Spec, OnlyOwnerDeletes

\* A step of an upload or a task is a step of its document's life, or none.
LEMMA TaskRefines ==
  ASSUME IInv, NEW d \in Docs, Upload(d) \/ TaskStep(d)
  PROVE  [Ledger!LedgerNext]_(Ledger!ledgerVars)
<1> USE DEF IInv, Typing, RowFollowsTask, StatusAt, Exists, Stored
<1>1. CASE Upload(d)
  <2>1. Ledger!Submit(d)
    BY <1>1 DEF Upload, Write, Ledger!Submit
  <2> QED
    BY <2>1 DEF Ledger!LedgerNext
<1>2. CASE MarkProcessing(d)
  <2>1. Ledger!Begin(d) \/ UNCHANGED <<status, chunks>>
    <3>1. status[d] \in {"PENDING", "deleted"}
      BY <1>2 DEF MarkProcessing
    <3> QED
      BY <1>2, <3>1 DEF MarkProcessing, Write, Ledger!Begin
  <2> QED
    BY <2>1 DEF Ledger!LedgerNext, Ledger!ledgerVars
<1>3. CASE SaveChunks(d)
  <2>1. status[d] \in {"PROCESSING", "deleted"} /\ plan[d] \in 1..MaxChunks
    <3>1. stage[d] = "embedding"
      BY <1>3 DEF SaveChunks
    <3>2. plan[d] \in 0..MaxChunks /\ plan[d] > 0
      BY <3>1 DEF PlanOK
    <3>3. plan[d] \in 1..MaxChunks
      <4> HIDE DEF IInv
      <4> QED
        BY <3>2, LimitAssumption
    <3>4. status[d] \in {"PROCESSING", "deleted"}
      BY <3>1
    <3> QED
      BY <3>3, <3>4
  <2>2. CASE Exists(d) /\ Publish(d)
    <3>1. status[d] = "PROCESSING" /\ status' = [status EXCEPT ![d] = "COMPLETED"]
      BY <2>1, <2>2 DEF Publish, Write
    <3>2. /\ chunks' = [chunks EXCEPT ![d] = made[d]] /\ chunks'[d] = made[d]
          /\ made[d] \in Seq(Ledger!Embedding) /\ Len(made[d]) \in 1..MaxChunks
      BY <1>3, <2>1, <2>2 DEF Publish, SaveChunks, Embedding, Ledger!Embedding
    <3>3. Ledger!Publish(d)
      BY <3>1, <3>2 DEF Ledger!Publish
    <3> QED
      BY <3>3 DEF Ledger!LedgerNext
  <2>3. CASE UNCHANGED rows
    BY <2>3 DEF rows, Ledger!ledgerVars
  <2> QED
    BY <1>3, <2>2, <2>3 DEF SaveChunks
<1>4. CASE HandleFailure(d)
  <2>1. Ledger!GiveUp(d) \/ UNCHANGED <<status, chunks>>
    BY <1>4 DEF HandleFailure, RecordFailure, Write, Ledger!GiveUp
  <2> QED
    BY <2>1 DEF Ledger!LedgerNext, Ledger!ledgerVars
<1>5. CASE \/ ScheduleProcessing(d) \/ LoseUpload(d) \/ Acquire(d) \/ Fetch(d)
           \/ RefreshAndChunk(d) \/ EmbedChunk(d)
  BY <1>5 DEF ScheduleProcessing, LoseUpload, Acquire, Fetch, RefreshAndChunk,
              EmbedChunk, rows, Ledger!ledgerVars
<1> QED
  BY <1>1, <1>2, <1>3, <1>4, <1>5 DEF TaskStep

\* A deletion removes the row and its chunks at once, or finds them gone.
LEMMA RemovalRefines ==
  ASSUME IInv, NEW r \in Requesters, RemovalStep(r)
  PROVE  [Ledger!LedgerNext]_(Ledger!ledgerVars)
<1> USE DEF IInv, Typing, Stored
<1>1. CASE CommitRemoval(r)
  <2> DEFINE d == removal[r].doc
  <2>1. d \in Docs /\ status[d] # "absent"
    BY <1>1 DEF CommitRemoval, RemovalOK
  <2>2. /\ status' = [status EXCEPT ![d] = "deleted"]
        /\ chunks' = [chunks EXCEPT ![d] = <<>>]
    BY <1>1 DEF CommitRemoval, Write, Leftover
  <2>3. CASE status[d] = "deleted"
    <3>1. chunks[d] = <<>>
      BY <2>1, <2>3 DEF ChunksAllOrNothing
    <3> QED
      BY <2>1, <2>2, <2>3, <3>1 DEF Ledger!ledgerVars
  <2>4. CASE status[d] # "deleted"
    <3>1. Ledger!Erase(d)
      BY <2>1, <2>2, <2>4 DEF Ledger!Erase, Ledger!DocumentStatus
    <3> QED
      BY <2>1, <3>1 DEF Ledger!LedgerNext
  <2> QED
    BY <2>3, <2>4
<1>2. CASE UNCHANGED rows
  BY <1>2 DEF rows, Ledger!ledgerVars
<1> QED
  BY <1>1, <1>2 DEF RemovalStep, CheckOwner, SweepChunks, AbandonRemoval

\* The ingestion pipeline implements the ledger: every commit of a task or of a
\* deletion, in any order, is one step of the life of one document.
THEOREM KeepsPromise == Spec => LedgerPromise
<1>1. Init => Ledger!LedgerInit
  BY DEF Init, Ledger!LedgerInit
<1>2. IInv /\ [Next]_vars => [Ledger!LedgerNext]_(Ledger!ledgerVars)
  <2> SUFFICES ASSUME IInv, [Next]_vars PROVE [Ledger!LedgerNext]_(Ledger!ledgerVars)
    OBVIOUS
  <2>1. CASE (\E w \in Workers : Crash(w)) \/ UNCHANGED vars
    BY <2>1 DEF Crash, rows, vars, Ledger!ledgerVars
  <2> QED
    BY <2>1, TaskRefines, RemovalRefines DEF Next
<1> QED
  BY <1>1, <1>2, Invariance, PTL DEF Spec, LedgerPromise, Ledger!LedgerSpec
=============================================================================
