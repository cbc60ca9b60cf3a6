------------------------- MODULE BatchPipelineProofs -------------------------
(***************************************************************************)
(* Proofs about the embedding pipeline, for every number of batches,       *)
(* workers, deliveries, jobs, attempts, retries, faults and crashes.       *)
(***************************************************************************)
EXTENDS BatchInvariant, FiniteSetTheorems, TLAPS

-----------------------------------------------------------------------------
(* Lemmas about the operators on entities.                                 *)

\* A fresh entity, whatever its status becomes, is well typed.
LEMMA NewEntityType ==
  NewBatchJobProgress \in Entity
<1>1. /\ 0 \in 0..MaxSubmissionAttempts
      /\ 0 \in 0..MaxRetries
  BY CountsAssumption
<1>2. 0 \in 0..Cardinality(Chunks)
  BY ChunksAssumption, FS_CardinalityType
<1>3. NoJob \in JobIds \cup {NoJob} /\ "pending" \in Statuses
  BY DEF Statuses
<1> QED BY <1>1, <1>2, <1>3 DEF NewBatchJobProgress, Entity

LEMMA AbsentOK ==
  ASSUME NEW b \in Batches, NEW js, NEW stored
  PROVE  Absent \in Entity /\ EntityOK(b, Absent, js, stored)
<1>1. Absent \in Entity
  BY NewEntityType DEF Absent, Entity, Statuses
<1>2. EntityOK(b, Absent, js, stored)
  BY CountsAssumption DEF Absent, NewBatchJobProgress, EntityOK, NoJob
<1> QED BY <1>1, <1>2

LEMMA EnqueuedOK ==
  ASSUME NEW b \in Batches, NEW js, NEW stored, NEW chunks \in SUBSET Chunks, chunks # {}
  PROVE  LET e == MarkPendingSubmission(NewBatchJobProgress, chunks)
         IN  e \in Entity /\ EntityOK(b, e, js, stored)
<1>1. MarkPendingSubmission(NewBatchJobProgress, chunks) \in Entity
  <2>1. 0 \in 0..MaxSubmissionAttempts
    BY CountsAssumption
  <2> QED BY <2>1, NewEntityType DEF MarkPendingSubmission, Entity, Statuses
<1>2. EntityOK(b, MarkPendingSubmission(NewBatchJobProgress, chunks), js, stored)
  BY CountsAssumption DEF MarkPendingSubmission, NewBatchJobProgress, EntityOK, NoJob
<1> QED BY <1>1, <1>2

\* Failing an entity claims nothing new.
LEMMA FailedOK ==
  ASSUME NEW b \in Batches, NEW js, NEW stored, NEW e \in Entity, EntityOK(b, e, js, stored)
  PROVE  MarkFailed(e) \in Entity /\ EntityOK(b, MarkFailed(e), js, stored)
BY DEF MarkFailed, Entity, Statuses, EntityOK

LEMMA RecordedFailureOK ==
  ASSUME NEW b \in Batches, NEW js, NEW stored
  PROVE  LET e == MarkFailed(NewBatchJobProgress)
         IN  e \in Entity /\ EntityOK(b, e, js, stored)
<1>1. MarkFailed(NewBatchJobProgress) \in Entity
  BY NewEntityType DEF MarkFailed, Entity, Statuses
<1>2. EntityOK(b, MarkFailed(NewBatchJobProgress), js, stored)
  BY CountsAssumption DEF MarkFailed, NewBatchJobProgress, EntityOK, NoJob
<1> QED BY <1>1, <1>2

\* UpdateStatus to "processing" or "failed" is harmless whatever the row holds.
LEMMA StatusOK ==
  ASSUME NEW b \in Batches, NEW js, NEW stored, NEW e \in Entity, EntityOK(b, e, js, stored),
         NEW status \in {"processing", "failed"}
  PROVE  LET f == [e EXCEPT !.status = status]
         IN  f \in Entity /\ EntityOK(b, f, js, stored)
BY DEF Entity, Statuses, EntityOK

LEMMA DueOK ==
  ASSUME NEW b \in Batches, NEW js, NEW stored, NEW e \in Entity, EntityOK(b, e, js, stored)
  PROVE  LET f == [e EXCEPT !.due = TRUE]
         IN  f \in Entity /\ EntityOK(b, f, js, stored)
BY DEF Entity, EntityOK

LEMMA FileOK ==
  ASSUME NEW b \in Batches, NEW js, NEW stored, NEW e \in Entity, EntityOK(b, e, js, stored)
  PROVE  /\ SetGeminiFileURI(e) \in Entity /\ EntityOK(b, SetGeminiFileURI(e), js, stored)
         /\ SetGeminiFileURI(e).status = e.status
BY DEF SetGeminiFileURI, Entity, EntityOK

\* Only a queued entity is submitted, so the attempt counter keeps its bound.
LEMMA SubmissionFailureOK ==
  ASSUME NEW b \in Batches, NEW js, NEW stored, NEW e \in Entity, EntityOK(b, e, js, stored),
         e.status = "pending_submission", NEW retryable \in BOOLEAN
  PROVE  /\ AfterSubmissionFailure(e, retryable) \in Entity
         /\ EntityOK(b, AfterSubmissionFailure(e, retryable), js, stored)
<1>1. e.attempts \in Nat /\ e.attempts < MaxSubmissionAttempts /\ MaxSubmissionAttempts \in Nat
  BY CountsAssumption DEF EntityOK, Entity
<1>2. ASSUME NEW dueNow \in BOOLEAN
      PROVE  MarkSubmissionFailed(e, dueNow) \in Entity
  <2>1. e.attempts + 1 \in 0..MaxSubmissionAttempts
    BY <1>1
  <2> QED BY <2>1 DEF MarkSubmissionFailed, Entity
<1>3. ASSUME NEW dueNow \in BOOLEAN
      PROVE  EntityOK(b, MarkFailed(MarkSubmissionFailed(e, dueNow)), js, stored)
  BY <1>1 DEF MarkSubmissionFailed, MarkFailed, EntityOK, Entity
<1>4. MarkFailed(MarkSubmissionFailed(e, TRUE)) \in Entity
  BY <1>2 DEF MarkFailed, Entity, Statuses
<1>5. CASE e.attempts + 1 >= MaxSubmissionAttempts
  BY <1>3, <1>4, <1>5 DEF AfterSubmissionFailure
<1>6. CASE ~(e.attempts + 1 >= MaxSubmissionAttempts) /\ retryable
  <2>1. EntityOK(b, MarkSubmissionFailed(e, FALSE), js, stored)
    BY <1>1, <1>6 DEF MarkSubmissionFailed, EntityOK, Entity
  <2> QED BY <1>2, <1>6, <2>1 DEF AfterSubmissionFailure
<1>7. CASE ~(e.attempts + 1 >= MaxSubmissionAttempts) /\ ~retryable
  BY <1>7, FailedOK DEF AfterSubmissionFailure
<1> QED BY <1>5, <1>6, <1>7

LEMMA SubmittedOK ==
  ASSUME NEW b \in Batches, NEW js, NEW stored, NEW e \in Entity, EntityOK(b, e, js, stored),
         e.status = "pending_submission",
         NEW j \in JobIds, js[j].batch = b, js[j].state # "unused"
  PROVE  /\ MarkSubmittedToGemini(e, j) \in Entity
         /\ EntityOK(b, MarkSubmittedToGemini(e, j), js, stored)
BY DEF MarkSubmittedToGemini, Entity, Statuses, EntityOK

\* A batch is retried only after its Gemini job has failed.
LEMMA JobFailureOK ==
  ASSUME NEW b \in Batches, NEW js, NEW stored, NEW e \in Entity, EntityOK(b, e, js, stored),
         e.gjob # NoJob, js[e.gjob].state = "failed"
  PROVE  AfterJobFailure(e) \in Entity /\ EntityOK(b, AfterJobFailure(e), js, stored)
<1>1. CASE e.retries < MaxRetries
  <2>1. ScheduleRetry(e) \in Entity
    <3>1. e.retries + 1 \in 0..MaxRetries
      BY <1>1, CountsAssumption DEF Entity
    <3> QED BY <3>1 DEF ScheduleRetry, Entity, Statuses
  <2>2. EntityOK(b, ScheduleRetry(e), js, stored)
    BY <1>1 DEF ScheduleRetry, Entity, EntityOK
  <2> QED BY <1>1, <2>1, <2>2 DEF AfterJobFailure
<1>2. CASE ~(e.retries < MaxRetries)
  BY <1>2, FailedOK DEF AfterJobFailure
<1> QED BY <1>1, <1>2

\* Completing after the embeddings of the job's results were stored.
LEMMA CompletedOK ==
  ASSUME NEW b \in Batches, NEW js, NEW stored, NEW e \in Entity, EntityOK(b, e, js, stored),
         e.gjob # NoJob, js[e.gjob].state = "succeeded",
         js[e.gjob].results \subseteq stored, js[e.gjob].results \subseteq Chunks
  PROVE  LET f == MarkCompleted(e, Cardinality(js[e.gjob].results))
         IN  f \in Entity /\ EntityOK(b, f, js, stored)
<1>1. Cardinality(js[e.gjob].results) \in 0..Cardinality(Chunks)
  BY ChunksAssumption, FS_Subset, FS_CardinalityType
<1> QED BY <1>1 DEF MarkCompleted, Entity, Statuses, EntityOK

\* What holds of an entity survives a growing store, new jobs and jobs that end.
LEMMA Monotone ==
  ASSUME NEW b \in Batches, NEW e \in Entity, NEW js, NEW js2, NEW stored, NEW stored2,
         EntityOK(b, e, js, stored), stored \subseteq stored2,
         \A j \in JobIds : js[j].state \notin {"unused", "pending"} => js2[j] = js[j],
         \A j \in JobIds : js[j].state # "unused" =>
           js2[j].batch = js[j].batch /\ js2[j].state # "unused"
  PROVE  EntityOK(b, e, js2, stored2)
<1>1. e.gjob # NoJob => e.gjob \in JobIds
  BY DEF Entity
<1> QED BY <1>1 DEF EntityOK

-----------------------------------------------------------------------------
(* Frames: what a step leaves of the invariant when it leaves the state it  *)
(* is about, and what it takes to change one entity, goroutine or delivery. *)

LEMMA RowsFrame ==
  ASSUME RowsOK, UNCHANGED <<rows, jobs, embedded>>
  PROVE  RowsOK'
BY DEF RowsOK

LEMMA SubmitterFrame ==
  ASSUME SubmitterOK, UNCHANGED <<sub, jobs, embedded>>
  PROVE  SubmitterOK'
BY DEF SubmitterOK

LEMMA PollerFrame ==
  ASSUME PollerOK, UNCHANGED <<poll, jobs, embedded>>
  PROVE  PollerOK'
BY DEF PollerOK

LEMMA DeliveryFrame ==
  ASSUME DeliveryOK, UNCHANGED deliv
  PROVE  DeliveryOK'
BY DEF DeliveryOK

TableType == rows \in [Batches -> Entity] /\ created \in Seq(Batches)

\* A Save of a consistent entity, and equally a lost one, keeps the table
\* consistent: no matter what the row held before.
LEMMA SaveKeeps ==
  ASSUME TypeOK, RowsOK, UNCHANGED <<jobs, embedded>>,
         NEW b \in Batches, NEW e \in Entity, EntityOK(b, e, jobs, embedded),
         Save(b, e) \/ UNCHANGED tableVars
  PROVE  TableType' /\ RowsOK'
<1>1. CASE Save(b, e)
  <2>1. rows' = [rows EXCEPT ![b] = e]
    BY <1>1 DEF Save
  <2>2. RowsOK'
    BY <2>1 DEF RowsOK, TypeOK
  <2>3. created' \in Seq(Batches)
    BY <1>1 DEF Save, TypeOK
  <2> QED BY <2>1, <2>2, <2>3 DEF TableType, TypeOK
<1>2. CASE UNCHANGED tableVars
  BY <1>2 DEF tableVars, TableType, RowsOK, TypeOK
<1> QED BY <1>1, <1>2

LEMMA SaveOrLoseKeeps ==
  ASSUME TypeOK, RowsOK, UNCHANGED <<jobs, embedded>>,
         NEW b \in Batches, NEW e \in Entity, EntityOK(b, e, jobs, embedded),
         SaveOrLose(b, e)
  PROVE  TableType' /\ RowsOK' /\ faults' \in 0..MaxFaults
<1>1. Save(b, e) \/ UNCHANGED tableVars
  BY DEF SaveOrLose
<1>2. faults' \in 0..MaxFaults
  BY BoundsAssumption DEF SaveOrLose, Fault, TypeOK
<1> QED BY <1>1, <1>2, SaveKeeps

LEMMA UpdateStatusKeeps ==
  ASSUME TypeOK, RowsOK, UNCHANGED <<jobs, embedded>>,
         NEW b \in Batches, NEW status \in {"processing", "failed"}, UpdateStatus(b, status)
  PROVE  TableType' /\ RowsOK' /\ faults' \in 0..MaxFaults
<1>1. faults' \in 0..MaxFaults
  BY BoundsAssumption DEF UpdateStatus, Fault, TypeOK
<1>2. CASE rows' = [rows EXCEPT ![b].status = status] /\ UNCHANGED created
  <2> DEFINE f == [rows[b] EXCEPT !.status = status]
  <2>1. f \in Entity /\ EntityOK(b, f, jobs, embedded)
    BY StatusOK DEF TypeOK, RowsOK
  <2>2. rows' = [rows EXCEPT ![b] = f]
    BY <1>2
  <2> HIDE DEF f
  <2>3. RowsOK'
    BY <2>1, <2>2 DEF RowsOK, TypeOK
  <2> QED BY <1>1, <1>2, <2>1, <2>2, <2>3 DEF TableType, TypeOK
<1>3. CASE UNCHANGED tableVars
  BY <1>1, <1>3 DEF tableVars, TableType, RowsOK, TypeOK
<1> QED BY <1>2, <1>3, <1>1 DEF UpdateStatus

LEMMA DeliveryKeeps ==
  ASSUME TypeOK, DeliveryOK, NEW d \in Deliveries, NEW x \in Delivery,
         x.pc = "enqueue" => x.need # {}, deliv' = [deliv EXCEPT ![d] = x]
  PROVE  deliv' \in [Deliveries -> Delivery] /\ DeliveryOK'
BY DEF TypeOK, DeliveryOK

LEMMA SubmitterKeeps ==
  ASSUME TypeOK, SubmitterOK, UNCHANGED <<jobs, embedded>>,
         NEW s \in Slots, NEW g \in Submission, SubmissionOK(g, jobs, embedded),
         sub' = [sub EXCEPT ![s] = g]
  PROVE  sub' \in [Slots -> Submission] /\ SubmitterOK'
BY DEF TypeOK, SubmitterOK

LEMMA PollerKeeps ==
  ASSUME TypeOK, PollerOK, UNCHANGED <<jobs, embedded>>,
         NEW w \in Workers, NEW b \in Batches,
         NEW g \in Polling, PollOK(b, g, jobs, embedded),
         poll' = [poll EXCEPT ![w][b] = g]
  PROVE  poll' \in [Workers -> [Batches -> Polling]] /\ PollerOK'
<1>1. \A v \in Workers, c \in Batches :
        poll'[v][c] = IF v = w /\ c = b THEN g ELSE poll[v][c]
  BY DEF TypeOK
<1>2. PollerOK'
  BY <1>1 DEF PollerOK
<1> QED BY <1>2 DEF TypeOK

LEMMA IdleOK ==
  ASSUME NEW b \in Batches, NEW js, NEW stored
  PROVE  /\ IdleSub \in Submission /\ SubmissionOK(IdleSub, js, stored)
         /\ IdlePoll \in Polling /\ PollOK(b, IdlePoll, js, stored)
<1>1. 1 \in Batches
  BY CountsAssumption DEF Batches
<1>2. IdleSub \in Submission /\ IdlePoll \in Polling
  BY <1>1, AbsentOK DEF IdleSub, Submission, IdlePoll, Polling
<1>3. SubmissionOK(IdleSub, js, stored) /\ PollOK(b, IdlePoll, js, stored)
  BY <1>1, AbsentOK DEF IdleSub, SubmissionOK, IdlePoll, PollOK
<1> QED BY <1>2, <1>3

-----------------------------------------------------------------------------
(* Deliveries.                                                             *)

LEMMA StartDeliveryStep ==
  ASSUME IInv, NEW d \in Deliveries, NEW w \in Workers, StartDelivery(d, w)
  PROVE  IInv'
<1> USE DEF IInv
<1>1. PICK split \in Splits :
        deliv' = [deliv EXCEPT ![d] = [@ EXCEPT !.pc = "filter", !.at = w, !.split = split]]
  BY DEF StartDelivery
<1>2. UNCHANGED <<rows, created, embedded, files, jobs, phase, waiting, backoff, sub, poll,
                  retry, recov, failing, faults, limits, crashes>>
  BY DEF StartDelivery, tableVars, geminiVars, submitVars, recoverVars, boundVars
<1> DEFINE x == [deliv[d] EXCEPT !.pc = "filter", !.at = w, !.split = split]
<1>3. x \in Delivery /\ x.pc # "enqueue"
  <2>1. deliv[d] \in Delivery
    BY DEF TypeOK
  <2>2. split \in [Batches -> SUBSET Chunks] /\ w \in Workers \cup {0}
    BY SplitsAssumption
  <2> QED BY ONLY <2>1, <2>2 DEF Delivery
<1>4. deliv' = [deliv EXCEPT ![d] = x]
  BY <1>1
<1> HIDE DEF x
<1>5. deliv' \in [Deliveries -> Delivery] /\ DeliveryOK'
  BY <1>3, <1>4, DeliveryKeeps
<1>6. TypeOK'
  BY <1>2, <1>5 DEF TypeOK
<1> QED BY <1>2, <1>5, <1>6, RowsFrame, SubmitterFrame, PollerFrame

LEMMA NextBatchType ==
  ASSUME TypeOK, NEW d \in Deliveries
  PROVE  NextBatch(d) \in Delivery /\ NextBatch(d).pc # "enqueue"
<1>1. deliv[d] \in Delivery /\ deliv[d].n \in Batches
  BY DEF TypeOK, Delivery
<1>2. deliv[d].n # NumBatches => deliv[d].n + 1 \in Batches
  BY <1>1, CountsAssumption DEF Batches
<1> QED BY <1>1, <1>2 DEF NextBatch, Delivery

LEMMA FilterBatchStep ==
  ASSUME IInv, NEW d \in Deliveries, FilterBatch(d)
  PROVE  IInv'
<1> USE DEF IInv
<1> DEFINE batch == deliv[d].split[deliv[d].n]
           Queue(need) == [deliv[d] EXCEPT !.pc = "enqueue", !.need = need]
           recording == [deliv[d] EXCEPT !.pc = "record"]
<1>1. UNCHANGED <<rows, created, embedded, files, jobs, phase, waiting, backoff, sub, poll,
                  retry, recov, failing, limits, crashes>>
  BY DEF FilterBatch, tableVars, geminiVars, submitVars, recoverVars
<1>2. faults' \in 0..MaxFaults
  BY BoundsAssumption DEF FilterBatch, Fault, TypeOK
<1>3. batch \in SUBSET Chunks /\ batch \ embedded \in SUBSET Chunks
  BY DEF TypeOK, Delivery
<1>4. /\ \A need \in SUBSET Chunks : Queue(need) \in Delivery /\ Queue(need).need = need
      /\ recording \in Delivery /\ recording.pc # "enqueue"
  BY DEF TypeOK, Delivery
<1>5. \/ deliv' = [deliv EXCEPT ![d] = NextBatch(d)]
      \/ batch \ embedded # {} /\ deliv' = [deliv EXCEPT ![d] = Queue(batch \ embedded)]
      \/ batch # {} /\ deliv' = [deliv EXCEPT ![d] = Queue(batch)]
      \/ deliv' = [deliv EXCEPT ![d] = recording]
  BY DEF FilterBatch
<1>6. PICK x \in Delivery : /\ x.pc = "enqueue" => x.need # {}
                            /\ deliv' = [deliv EXCEPT ![d] = x]
  <2> HIDE DEF Queue, batch, recording
  <2> QED BY <1>3, <1>4, <1>5, NextBatchType
<1>7. deliv' \in [Deliveries -> Delivery] /\ DeliveryOK'
  BY <1>6, DeliveryKeeps
<1>8. TypeOK'
  BY <1>1, <1>2, <1>7 DEF TypeOK
<1> QED BY <1>1, <1>7, <1>8, RowsFrame, SubmitterFrame, PollerFrame

LEMMA EnqueueBatchStep ==
  ASSUME IInv, NEW d \in Deliveries, EnqueueBatch(d)
  PROVE  IInv'
<1> USE DEF IInv
<1> DEFINE e == MarkPendingSubmission(NewBatchJobProgress, deliv[d].need)
           recording == [deliv[d] EXCEPT !.pc = "record"]
<1>1. UNCHANGED <<embedded, files, jobs, phase, waiting, backoff, sub, poll, retry, recov,
                  failing, limits, crashes>>
  BY DEF EnqueueBatch, geminiVars, submitVars, recoverVars
<1>2. faults' \in 0..MaxFaults
  BY BoundsAssumption DEF EnqueueBatch, Fault, TypeOK
<1>3. deliv[d].n \in Batches /\ deliv[d].need \in SUBSET Chunks /\ deliv[d].need # {}
  BY DEF EnqueueBatch, TypeOK, DeliveryOK, Delivery
<1>4. e \in Entity /\ EntityOK(deliv[d].n, e, jobs, embedded)
  BY <1>3, EnqueuedOK
<1>5. Save(deliv[d].n, e) \/ UNCHANGED tableVars
  BY DEF EnqueueBatch
<1>6. TableType' /\ RowsOK'
  <2> HIDE DEF e
  <2> QED BY <1>1, <1>3, <1>4, <1>5, SaveKeeps
<1>7. \/ deliv' = [deliv EXCEPT ![d] = NextBatch(d)]
      \/ deliv' = [deliv EXCEPT ![d] = recording]
  BY DEF EnqueueBatch
<1>8. recording \in Delivery /\ recording.pc # "enqueue"
  BY DEF TypeOK, Delivery
<1>9. deliv' \in [Deliveries -> Delivery] /\ DeliveryOK'
  <2> HIDE DEF recording
  <2> QED BY <1>7, <1>8, NextBatchType, DeliveryKeeps
<1>10. TypeOK'
  BY <1>1, <1>2, <1>6, <1>9 DEF TypeOK, TableType
<1> QED BY <1>1, <1>6, <1>9, <1>10, SubmitterFrame, PollerFrame

LEMMA RecordFailedBatchStep ==
  ASSUME IInv, NEW d \in Deliveries, RecordFailedBatch(d)
  PROVE  IInv'
<1> USE DEF IInv
<1> DEFINE e == MarkFailed(NewBatchJobProgress)
           x == [deliv[d] EXCEPT !.pc = "done", !.need = {}]
           y == [deliv[d] EXCEPT !.pc = "sequential", !.need = Remaining(d)]
<1>1. UNCHANGED <<embedded, files, jobs, phase, waiting, backoff, sub, poll, retry, recov,
                  failing, limits, crashes>>
  BY DEF RecordFailedBatch, geminiVars, submitVars, recoverVars
<1>2. deliv[d] \in Delivery /\ deliv[d].n \in Batches
  BY DEF TypeOK, Delivery
<1>3. e \in Entity /\ EntityOK(deliv[d].n, e, jobs, embedded)
  BY <1>2, RecordedFailureOK
<1>4. TableType' /\ RowsOK' /\ faults' \in 0..MaxFaults
  <2>1. SaveOrLose(deliv[d].n, e)
    BY DEF RecordFailedBatch
  <2> HIDE DEF e
  <2> QED BY <1>1, <1>2, <1>3, <2>1, SaveOrLoseKeeps
<1>5. Remaining(d) \in SUBSET Chunks
  <2>1. \A b \in deliv[d].n..NumBatches : b \in Batches
    BY <1>2, CountsAssumption DEF Batches
  <2>2. deliv[d].split \in [Batches -> SUBSET Chunks]
    BY <1>2 DEF Delivery
  <2> QED BY <2>1, <2>2 DEF Remaining
<1>6. /\ x \in Delivery /\ x.pc # "enqueue"
      /\ y \in Delivery /\ y.pc # "enqueue"
  BY <1>2, <1>5 DEF Delivery
<1>7. deliv' = [deliv EXCEPT ![d] = x] \/ deliv' = [deliv EXCEPT ![d] = y]
  BY DEF RecordFailedBatch
<1> HIDE DEF x, y
<1>8. deliv' \in [Deliveries -> Delivery] /\ DeliveryOK'
  BY <1>6, <1>7, DeliveryKeeps
<1>9. TypeOK'
  BY <1>1, <1>4, <1>8 DEF TypeOK, TableType
<1> QED BY <1>1, <1>4, <1>8, <1>9, SubmitterFrame, PollerFrame

\* Whatever stores an embedding without touching rows or jobs.
LEMMA StoreGrows ==
  ASSUME IInv, UNCHANGED <<rows, jobs, sub, poll>>, embedded \subseteq embedded'
  PROVE  RowsOK' /\ SubmitterOK' /\ PollerOK'
<1> USE DEF IInv
<1>1. ASSUME NEW b \in Batches, NEW e \in Entity, EntityOK(b, e, jobs, embedded)
      PROVE  EntityOK(b, e, jobs, embedded')
  BY <1>1, Monotone
<1>2. RowsOK'
  BY <1>1 DEF RowsOK, TypeOK
<1>3. SubmitterOK'
  <2> SUFFICES ASSUME NEW s \in Slots
               PROVE  SubmissionOK(sub[s], jobs, embedded')
    BY DEF SubmitterOK
  <2>1. SubmissionOK(sub[s], jobs, embedded) /\ sub[s].batch \in Batches
        /\ sub[s].ent \in Entity
    BY DEF SubmitterOK, TypeOK, Submission
  <2> QED BY <1>1, <2>1 DEF SubmissionOK
<1>4. PollerOK'
  <2> SUFFICES ASSUME NEW w \in Workers, NEW b \in Batches
               PROVE  PollOK(b, poll[w][b], jobs, embedded')
    BY DEF PollerOK
  <2>1. PollOK(b, poll[w][b], jobs, embedded) /\ poll[w][b].ent \in Entity
    BY DEF PollerOK, TypeOK, Polling
  <2> QED BY <1>1, <2>1 DEF PollOK
<1> QED BY <1>2, <1>3, <1>4

LEMMA EmbedSequentiallyStep ==
  ASSUME IInv, NEW d \in Deliveries, EmbedSequentially(d)
  PROVE  IInv'
<1> USE DEF IInv
<1> DEFINE x == [deliv[d] EXCEPT !.pc = "done", !.need = {}]
<1>1. UNCHANGED <<rows, created, files, jobs, phase, waiting, backoff, sub, poll, retry,
                  recov, failing, limits, crashes>>
  BY DEF EmbedSequentially, tableVars, geminiVars, submitVars, recoverVars
<1>2. faults' \in 0..MaxFaults
  BY BoundsAssumption DEF EmbedSequentially, Fault, TypeOK
<1>3. embedded \subseteq embedded' /\ embedded' \in SUBSET Chunks
  <2>1. deliv[d].need \in SUBSET Chunks
    BY DEF TypeOK, Delivery
  <2> QED BY <2>1 DEF EmbedSequentially, TypeOK
<1>4. x \in Delivery /\ x.pc # "enqueue"
  BY DEF TypeOK, Delivery
<1>5. deliv' = [deliv EXCEPT ![d] = x] \/ UNCHANGED deliv
  BY DEF EmbedSequentially
<1>6. deliv' \in [Deliveries -> Delivery] /\ DeliveryOK'
  <2> HIDE DEF x
  <2> QED BY <1>4, <1>5, DeliveryKeeps, DeliveryFrame DEF TypeOK
<1>7. TypeOK'
  BY <1>1, <1>2, <1>3, <1>6 DEF TypeOK
<1> QED BY <1>1, <1>3, <1>6, <1>7, StoreGrows

-----------------------------------------------------------------------------
(* The submitter.                                                          *)

LEMMA TickStep ==
  ASSUME IInv, NEW w \in Workers, Tick(w)
  PROVE  IInv'
<1> USE DEF IInv
<1>1. UNCHANGED <<rows, created, embedded, files, jobs, phase, backoff, sub, poll, retry,
                  recov, failing, deliv, faults, limits, crashes>>
  BY DEF Tick, tableVars, geminiVars, recoverVars, boundVars
<1>2. waiting' \in [Workers -> 0..MaxWaiting]
  <2>1. waiting[w] + 1 \in 0..MaxWaiting
    BY BoundsAssumption DEF Tick, TypeOK
  <2> QED BY <2>1 DEF Tick, TypeOK
<1>3. TypeOK'
  BY <1>1, <1>2 DEF TypeOK
<1> QED BY <1>1, <1>3, RowsFrame, SubmitterFrame, PollerFrame, DeliveryFrame

LEMMA SlotWorker ==
  ASSUME NEW s \in Slots
  PROVE  s[1] \in Workers
BY DEF Slots

LEMMA SubmitReadStep ==
  ASSUME IInv, NEW s \in Slots, SubmitRead(s)
  PROVE  IInv'
<1> USE DEF IInv
<1>1. UNCHANGED <<rows, created, embedded, files, jobs, phase, backoff, poll, retry,
                  recov, failing, deliv, limits, crashes>>
  BY DEF SubmitRead, tableVars, geminiVars, recoverVars
<1>faults. faults' \in 0..MaxFaults
  BY BoundsAssumption DEF SubmitRead, Fault, TypeOK
<1>2. waiting' \in [Workers -> 0..MaxWaiting]
  <2>1. waiting[s[1]] - 1 \in 0..MaxWaiting
    BY SlotWorker, BoundsAssumption DEF SubmitRead, TypeOK
  <2> QED BY <2>1, SlotWorker DEF SubmitRead, TypeOK
<1>3. CASE UNCHANGED sub
  <2>1. TypeOK'
    BY <1>1, <1>2, <1>3, <1>faults DEF TypeOK
  <2> QED BY <1>1, <1>3, <2>1, RowsFrame, SubmitterFrame, PollerFrame, DeliveryFrame
<1>4. ASSUME NEW b \in Batches, NextPendingSubmission(b),
             sub' = [sub EXCEPT ![s] = [pc |-> IF rows[b].file THEN "create" ELSE "upload",
                                        batch |-> b, ent |-> rows[b], job |-> NoJob]]
      PROVE  IInv'
  <2> DEFINE g == [pc |-> IF rows[b].file THEN "create" ELSE "upload",
                   batch |-> b, ent |-> rows[b], job |-> NoJob]
  <2>1. rows[b] \in Entity /\ EntityOK(b, rows[b], jobs, embedded)
    BY DEF TypeOK, RowsOK
  <2>2. rows[b].status = "pending_submission"
    BY <1>4 DEF NextPendingSubmission, IsPendingSubmission
  <2>3. g \in Submission
    BY <2>1 DEF Submission
  <2>4. SubmissionOK(g, jobs, embedded)
    BY <2>1, <2>2 DEF SubmissionOK
  <2>5. sub' = [sub EXCEPT ![s] = g]
    BY <1>4
  <2> HIDE DEF g
  <2>6. sub' \in [Slots -> Submission] /\ SubmitterOK'
    BY <1>1, <2>3, <2>4, <2>5, SubmitterKeeps
  <2>7. TypeOK'
    BY <1>1, <1>2, <1>faults, <2>6 DEF TypeOK
  <2> QED BY <1>1, <2>6, <2>7, RowsFrame, PollerFrame, DeliveryFrame
<1> QED BY <1>3, <1>4 DEF SubmitRead

LEMMA UploadFileStep ==
  ASSUME IInv, NEW s \in Slots, UploadFile(s)
  PROVE  IInv'
<1> USE DEF IInv
<1> DEFINE g == [sub[s] EXCEPT !.pc = "create"]
<1>1. UNCHANGED <<rows, created, embedded, jobs, phase, waiting, backoff, poll, retry,
                  recov, failing, deliv, faults, limits, crashes>>
  BY DEF UploadFile, tableVars, recoverVars, boundVars
<1>2. sub[s] \in Submission /\ sub[s].batch \in Batches /\ sub[s].ent.payload \in SUBSET Chunks
  BY DEF TypeOK, Submission, Entity
<1>3. files' \in [Batches -> SUBSET Chunks]
  BY <1>2 DEF UploadFile, UploadedContent, TypeOK
<1>4. g \in Submission
  BY <1>2 DEF Submission
<1>5. SubmissionOK(g, jobs, embedded)
  BY <1>2 DEF UploadFile, SubmitterOK, SubmissionOK, Submission
<1>6. sub' = [sub EXCEPT ![s] = g]
  BY DEF UploadFile
<1> HIDE DEF g
<1>7. sub' \in [Slots -> Submission] /\ SubmitterOK'
  BY <1>1, <1>4, <1>5, <1>6, SubmitterKeeps
<1>8. TypeOK'
  BY <1>1, <1>3, <1>7 DEF TypeOK
<1> QED BY <1>1, <1>7, <1>8, RowsFrame, PollerFrame, DeliveryFrame

\* A job created, or ended, at Gemini makes no entity inconsistent.
JobsGrow ==
  /\ \A j \in JobIds : jobs[j].state \notin {"unused", "pending"} => jobs'[j] = jobs[j]
  /\ \A j \in JobIds : jobs[j].state # "unused" =>
       jobs'[j].batch = jobs[j].batch /\ jobs'[j].state # "unused"

LEMMA JobsGrowKeeps ==
  ASSUME IInv, JobsGrow, UNCHANGED <<rows, embedded, poll>>
  PROVE  /\ RowsOK' /\ PollerOK'
         /\ \A s \in Slots : SubmissionOK(sub[s], jobs', embedded)
<1> USE DEF IInv
<1>1. ASSUME NEW b \in Batches, NEW e \in Entity, EntityOK(b, e, jobs, embedded)
      PROVE  EntityOK(b, e, jobs', embedded)
  BY <1>1, Monotone DEF JobsGrow
<1>2. RowsOK'
  BY <1>1 DEF RowsOK, TypeOK
<1>3. ASSUME NEW s \in Slots
      PROVE  SubmissionOK(sub[s], jobs', embedded)
  <2>1. SubmissionOK(sub[s], jobs, embedded) /\ sub[s].batch \in Batches
        /\ sub[s].ent \in Entity /\ sub[s].job \in JobIds \cup {NoJob}
    BY DEF SubmitterOK, TypeOK, Submission
  <2> QED BY <1>1, <2>1 DEF SubmissionOK, JobsGrow
<1>4. PollerOK'
  <2> SUFFICES ASSUME NEW w \in Workers, NEW b \in Batches
               PROVE  PollOK(b, poll[w][b], jobs', embedded)
    BY DEF PollerOK
  <2>1. PollOK(b, poll[w][b], jobs, embedded) /\ poll[w][b].ent \in Entity
    BY DEF PollerOK, TypeOK, Polling
  <2> QED BY <1>1, <2>1 DEF PollOK
<1> QED BY <1>2, <1>3, <1>4

LEMMA NewJobGrows ==
  ASSUME TypeOK, NEW j \in JobIds, NEW b \in Batches, NewGeminiJob(j, b)
  PROVE  JobsGrow /\ jobs' \in [JobIds -> Job] /\ jobs'[j].batch = b /\ jobs'[j].state # "unused"
<1>1. files[b] \in SUBSET Chunks
  BY DEF TypeOK
<1> QED BY <1>1 DEF NewGeminiJob, FreshJob, JobsGrow, TypeOK, Job

LEMMA CreateAcceptedStep ==
  ASSUME IInv, NEW s \in Slots, CreateAccepted(s)
  PROVE  IInv'
<1> USE DEF IInv
<1> DEFINE b == sub[s].batch
           e == sub[s].ent
           g(j) == [pc |-> IF e.file THEN "saveJob" ELSE "saveFile", batch |-> b,
                    ent |-> SetGeminiFileURI(e), job |-> j]
<1>1. UNCHANGED <<rows, created, embedded, files, phase, waiting, backoff, poll, retry,
                  recov, failing, deliv, faults, limits, crashes>>
  BY DEF CreateAccepted, tableVars, recoverVars, boundVars
<1>2. PICK j \in JobIds : NewGeminiJob(j, b) /\ sub' = [sub EXCEPT ![s] = g(j)]
  BY DEF CreateAccepted
<1>3. b \in Batches /\ e \in Entity /\ EntityOK(b, e, jobs, embedded)
      /\ e.status = "pending_submission"
  BY DEF CreateAccepted, TypeOK, Submission, SubmitterOK, SubmissionOK
<1>4. JobsGrow /\ jobs' \in [JobIds -> Job] /\ jobs'[j].batch = b /\ jobs'[j].state # "unused"
  BY <1>2, <1>3, NewJobGrows
<1>5. RowsOK' /\ PollerOK' /\ \A t \in Slots : SubmissionOK(sub[t], jobs', embedded)
  BY <1>1, <1>4, JobsGrowKeeps
<1>6. EntityOK(b, e, jobs', embedded)
  BY <1>5 DEF SubmissionOK
<1>7. SetGeminiFileURI(e) \in Entity /\ EntityOK(b, SetGeminiFileURI(e), jobs', embedded)
      /\ SetGeminiFileURI(e).status = "pending_submission"
  BY <1>3, <1>6, FileOK
<1>8. g(j) \in Submission
  BY <1>3, <1>7 DEF Submission
<1>9. SubmissionOK(g(j), jobs', embedded)
  <2>1. j # NoJob
    BY DEF JobIds, NoJob
  <2> QED BY <1>4, <1>7, <2>1 DEF SubmissionOK
<1> HIDE DEF g
<1>10. sub' \in [Slots -> Submission]
  BY <1>2, <1>8 DEF TypeOK
<1>11. SubmitterOK'
  BY <1>1, <1>2, <1>5, <1>9 DEF SubmitterOK, TypeOK
<1>12. TypeOK'
  BY <1>1, <1>4, <1>10 DEF TypeOK
<1> QED BY <1>1, <1>5, <1>11, <1>12, DeliveryFrame

LEMMA FailedCallType ==
  ASSUME IInv, NEW s \in Slots, NEW retryable \in BOOLEAN, FailedCall(s, retryable)
  PROVE  \E g \in Submission :
           /\ sub' = [sub EXCEPT ![s] = g]
           /\ g.pc = "save" /\ g.batch \in Batches /\ g.ent \in Entity
           /\ EntityOK(g.batch, g.ent, jobs, embedded)
<1> USE DEF IInv
<1> DEFINE e == AfterSubmissionFailure(sub[s].ent, retryable)
           g == [sub[s] EXCEPT !.pc = "save", !.ent = e]
<1>1. sub[s] \in Submission /\ sub[s].batch \in Batches /\ sub[s].ent \in Entity
      /\ EntityOK(sub[s].batch, sub[s].ent, jobs, embedded)
      /\ sub[s].ent.status = "pending_submission"
  BY DEF FailedCall, TypeOK, Submission, SubmitterOK, SubmissionOK
<1>2. e \in Entity /\ EntityOK(sub[s].batch, e, jobs, embedded)
  BY <1>1, SubmissionFailureOK
<1>3. sub' = [sub EXCEPT ![s] = g]
  BY DEF FailedCall
<1> HIDE DEF e
<1>4. g \in Submission /\ g.pc = "save" /\ g.batch = sub[s].batch /\ g.ent = e
  BY <1>1, <1>2 DEF Submission
<1> HIDE DEF g
<1> QED BY <1>1, <1>2, <1>3, <1>4

LEMMA CallRateLimitedStep ==
  ASSUME IInv, NEW s \in Slots, CallRateLimited(s)
  PROVE  IInv'
<1> USE DEF IInv
<1>1. UNCHANGED <<rows, created, embedded, files, jobs, phase, waiting, poll, retry,
                  recov, failing, deliv, faults, crashes>>
  BY DEF CallRateLimited, tableVars, geminiVars, recoverVars
<1>2. PICK g \in Submission :
        /\ sub' = [sub EXCEPT ![s] = g]
        /\ g.pc = "save" /\ EntityOK(g.batch, g.ent, jobs, embedded)
  BY FailedCallType DEF CallRateLimited
<1>3. sub' \in [Slots -> Submission] /\ SubmitterOK'
  <2>1. SubmissionOK(g, jobs, embedded)
    BY <1>2 DEF SubmissionOK
  <2> QED BY <1>1, <1>2, <2>1, SubmitterKeeps
<1>4. backoff' \in [Workers -> BOOLEAN]
  BY SlotWorker DEF CallRateLimited, TypeOK
<1>5. limits' \in 0..MaxRateLimits
  BY BoundsAssumption DEF CallRateLimited, TypeOK
<1>6. TypeOK'
  BY <1>1, <1>3, <1>4, <1>5 DEF TypeOK
<1> QED BY <1>1, <1>3, <1>6, RowsFrame, PollerFrame, DeliveryFrame

LEMMA CallRejectedStep ==
  ASSUME IInv, NEW s \in Slots, CallRejected(s)
  PROVE  IInv'
<1> USE DEF IInv
<1>1. UNCHANGED <<rows, created, embedded, files, phase, waiting, backoff, poll, retry,
                  recov, failing, deliv, limits, crashes>>
  BY DEF CallRejected, tableVars, recoverVars
<1>2. faults' \in 0..MaxFaults
  BY BoundsAssumption DEF CallRejected, Fault, TypeOK
<1>3. PICK g \in Submission :
        /\ sub' = [sub EXCEPT ![s] = g] /\ g.pc = "save"
        /\ g.batch \in Batches /\ g.ent \in Entity
        /\ EntityOK(g.batch, g.ent, jobs, embedded)
  BY FailedCallType DEF CallRejected
<1>4. JobsGrow /\ jobs' \in [JobIds -> Job]
  <2>1. CASE UNCHANGED jobs
    BY <2>1 DEF JobsGrow, TypeOK
  <2>2. CASE \E j \in JobIds : NewGeminiJob(j, sub[s].batch)
    <3>1. sub[s].batch \in Batches
      BY DEF TypeOK, Submission
    <3> QED BY <2>2, <3>1, NewJobGrows
  <2> QED BY <2>1, <2>2 DEF CallRejected
<1>5. RowsOK' /\ PollerOK' /\ \A t \in Slots : SubmissionOK(sub[t], jobs', embedded)
  BY <1>1, <1>4, JobsGrowKeeps
<1>6. SubmissionOK(g, jobs', embedded)
  <2>1. EntityOK(g.batch, g.ent, jobs', embedded)
    BY <1>3, <1>4, Monotone DEF JobsGrow
  <2> QED BY <1>3, <2>1 DEF SubmissionOK
<1>7. SubmitterOK'
  BY <1>1, <1>3, <1>5, <1>6 DEF SubmitterOK, TypeOK
<1>8. TypeOK'
  BY <1>1, <1>2, <1>3, <1>4 DEF TypeOK
<1> QED BY <1>1, <1>5, <1>7, <1>8, DeliveryFrame

LEMMA SaveFileURIStep ==
  ASSUME IInv, NEW s \in Slots, SaveFileURI(s)
  PROVE  IInv'
<1> USE DEF IInv
<1> DEFINE g == [sub[s] EXCEPT !.pc = "saveJob"]
<1>1. UNCHANGED <<embedded, files, jobs, phase, waiting, backoff, poll, retry, recov,
                  failing, deliv, limits, crashes>>
  BY DEF SaveFileURI, geminiVars, recoverVars
<1>2. sub[s] \in Submission /\ sub[s].batch \in Batches /\ sub[s].ent \in Entity
      /\ SubmissionOK(sub[s], jobs, embedded) /\ sub[s].pc = "saveFile"
  BY DEF SaveFileURI, TypeOK, Submission, SubmitterOK
<1>3. TableType' /\ RowsOK' /\ faults' \in 0..MaxFaults
  <2>1. EntityOK(sub[s].batch, sub[s].ent, jobs, embedded)
    BY <1>2 DEF SubmissionOK
  <2>2. SaveOrLose(sub[s].batch, sub[s].ent)
    BY DEF SaveFileURI
  <2> QED BY <1>1, <1>2, <2>1, <2>2, SaveOrLoseKeeps
<1>4. g \in Submission /\ SubmissionOK(g, jobs, embedded)
  BY <1>2 DEF Submission, SubmissionOK
<1>5. sub' = [sub EXCEPT ![s] = g]
  BY DEF SaveFileURI
<1> HIDE DEF g
<1>6. sub' \in [Slots -> Submission] /\ SubmitterOK'
  BY <1>1, <1>4, <1>5, SubmitterKeeps
<1>7. TypeOK'
  BY <1>1, <1>3, <1>6 DEF TypeOK, TableType
<1> QED BY <1>1, <1>3, <1>6, <1>7, PollerFrame, DeliveryFrame

LEMMA SaveSubmittedStep ==
  ASSUME IInv, NEW s \in Slots, SaveSubmitted(s)
  PROVE  IInv'
<1> USE DEF IInv
<1> DEFINE e == MarkSubmittedToGemini(sub[s].ent, sub[s].job)
<1>1. UNCHANGED <<embedded, files, jobs, phase, waiting, backoff, poll, retry, recov,
                  failing, deliv, limits, crashes>>
  BY DEF SaveSubmitted, geminiVars, recoverVars
<1>2. sub[s].batch \in Batches /\ sub[s].ent \in Entity /\ sub[s].job \in JobIds
      /\ SubmissionOK(sub[s], jobs, embedded) /\ sub[s].pc = "saveJob"
  BY DEF SaveSubmitted, TypeOK, Submission, SubmitterOK, SubmissionOK
<1>3. e \in Entity /\ EntityOK(sub[s].batch, e, jobs, embedded)
  BY <1>2, SubmittedOK DEF SubmissionOK
<1>4. TableType' /\ RowsOK' /\ faults' \in 0..MaxFaults
  <2>1. SaveOrLose(sub[s].batch, e)
    BY DEF SaveSubmitted
  <2> HIDE DEF e
  <2> QED BY <1>1, <1>2, <1>3, <2>1, SaveOrLoseKeeps
<1>5. sub' \in [Slots -> Submission] /\ SubmitterOK'
  <2>1. sub' = [sub EXCEPT ![s] = IdleSub]
    BY DEF SaveSubmitted
  <2> QED BY <1>1, <1>2, <2>1, IdleOK, SubmitterKeeps
<1>6. TypeOK'
  BY <1>1, <1>4, <1>5 DEF TypeOK, TableType
<1> QED BY <1>1, <1>4, <1>5, <1>6, PollerFrame, DeliveryFrame

LEMMA SaveInvalidJobIDStep ==
  ASSUME IInv, NEW s \in Slots, SaveInvalidJobID(s)
  PROVE  IInv'
<1> USE DEF IInv
<1> DEFINE g == [sub[s] EXCEPT !.pc = "save", !.ent = MarkFailed(sub[s].ent)]
<1>1. UNCHANGED <<rows, created, embedded, files, jobs, phase, waiting, backoff, poll,
                  retry, recov, failing, deliv, limits, crashes>>
  BY DEF SaveInvalidJobID, tableVars, geminiVars, recoverVars
<1>2. faults' \in 0..MaxFaults
  BY BoundsAssumption DEF SaveInvalidJobID, Fault, TypeOK
<1>3. sub[s] \in Submission /\ sub[s].batch \in Batches /\ sub[s].ent \in Entity
      /\ SubmissionOK(sub[s], jobs, embedded)
  BY DEF TypeOK, Submission, SubmitterOK
<1>4. MarkFailed(sub[s].ent) \in Entity
      /\ EntityOK(sub[s].batch, MarkFailed(sub[s].ent), jobs, embedded)
  BY <1>3, FailedOK DEF SubmissionOK
<1>5. g \in Submission /\ SubmissionOK(g, jobs, embedded)
  BY <1>3, <1>4 DEF Submission, SubmissionOK
<1>6. sub' = [sub EXCEPT ![s] = g]
  BY DEF SaveInvalidJobID
<1> HIDE DEF g
<1>7. sub' \in [Slots -> Submission] /\ SubmitterOK'
  BY <1>1, <1>5, <1>6, SubmitterKeeps
<1>8. TypeOK'
  BY <1>1, <1>2, <1>7 DEF TypeOK
<1> QED BY <1>1, <1>7, <1>8, RowsFrame, PollerFrame, DeliveryFrame

LEMMA SaveSubmissionFailureStep ==
  ASSUME IInv, NEW s \in Slots, SaveSubmissionFailure(s)
  PROVE  IInv'
<1> USE DEF IInv
<1>1. UNCHANGED <<embedded, files, jobs, phase, waiting, backoff, poll, retry, recov,
                  failing, deliv, limits, crashes>>
  BY DEF SaveSubmissionFailure, geminiVars, recoverVars
<1>2. sub[s].batch \in Batches /\ sub[s].ent \in Entity
      /\ EntityOK(sub[s].batch, sub[s].ent, jobs, embedded)
  BY DEF TypeOK, Submission, SubmitterOK, SubmissionOK
<1>3. TableType' /\ RowsOK' /\ faults' \in 0..MaxFaults
  BY <1>1, <1>2, SaveOrLoseKeeps DEF SaveSubmissionFailure
<1>4. sub' \in [Slots -> Submission] /\ SubmitterOK'
  <2>1. sub' = [sub EXCEPT ![s] = IdleSub]
    BY DEF SaveSubmissionFailure
  <2> QED BY <1>1, <1>2, <2>1, IdleOK, SubmitterKeeps
<1>5. TypeOK'
  BY <1>1, <1>3, <1>4 DEF TypeOK, TableType
<1> QED BY <1>1, <1>3, <1>4, <1>5, PollerFrame, DeliveryFrame

LEMMA BackoffEndsStep ==
  ASSUME IInv, NEW w \in Workers, BackoffEnds(w)
  PROVE  IInv'
<1> USE DEF IInv
<1>1. UNCHANGED <<rows, created, embedded, files, jobs, phase, waiting, sub, poll, retry,
                  recov, failing, deliv, faults, limits, crashes>>
  BY DEF BackoffEnds, tableVars, geminiVars, recoverVars, boundVars
<1>2. TypeOK'
  BY <1>1 DEF BackoffEnds, TypeOK
<1> QED BY <1>1, <1>2, RowsFrame, SubmitterFrame, PollerFrame, DeliveryFrame

LEMMA BecomesDueStep ==
  ASSUME IInv, NEW b \in Batches, BecomesDue(b)
  PROVE  IInv'
<1> USE DEF IInv
<1> DEFINE e == [rows[b] EXCEPT !.due = TRUE]
<1>1. UNCHANGED <<created, embedded, files, jobs, phase, waiting, backoff, sub, poll,
                  retry, recov, failing, deliv, faults, limits, crashes>>
  BY DEF BecomesDue, geminiVars, submitVars, recoverVars, boundVars
<1>2. e \in Entity /\ EntityOK(b, e, jobs, embedded)
  BY DueOK DEF TypeOK, RowsOK
<1>3. rows' = [rows EXCEPT ![b] = e]
  BY DEF BecomesDue
<1> HIDE DEF e
<1>4. rows' \in [Batches -> Entity] /\ RowsOK'
  BY <1>1, <1>2, <1>3 DEF TypeOK, RowsOK
<1>5. TypeOK'
  BY <1>1, <1>4 DEF TypeOK
<1> QED BY <1>1, <1>4, <1>5, SubmitterFrame, PollerFrame, DeliveryFrame

-----------------------------------------------------------------------------
(* The poller.                                                             *)

LEMMA PollReadStep ==
  ASSUME IInv, NEW w \in Workers, PollRead(w)
  PROVE  IInv'
<1> USE DEF IInv
<1> DEFINE g(b) == IF IsPendingGemini(rows[b]) THEN [pc |-> "polled", ent |-> rows[b]]
                   ELSE IdlePoll
<1>1. UNCHANGED <<rows, created, embedded, files, jobs, phase, waiting, backoff, sub, retry,
                  recov, failing, deliv, faults, limits, crashes>>
  BY DEF PollRead, tableVars, geminiVars, submitVars, recoverVars, boundVars
<1>2. poll' = [poll EXCEPT ![w] = [b \in Batches |-> g(b)]]
  BY DEF PollRead
<1>3. ASSUME NEW b \in Batches
      PROVE  g(b) \in Polling /\ PollOK(b, g(b), jobs, embedded)
  <2>1. rows[b] \in Entity /\ EntityOK(b, rows[b], jobs, embedded)
    BY DEF TypeOK, RowsOK
  <2>2. CASE IsPendingGemini(rows[b])
    BY <2>1, <2>2 DEF IsPendingGemini, Polling, PollOK
  <2>3. CASE ~IsPendingGemini(rows[b])
    BY <2>3, IdleOK
  <2> QED BY <2>2, <2>3
<1> HIDE DEF g
<1>4. poll' \in [Workers -> [Batches -> Polling]]
  BY <1>2, <1>3 DEF TypeOK
<1>5. PollerOK'
  BY <1>1, <1>2, <1>3 DEF PollerOK, TypeOK
<1>6. TypeOK'
  BY <1>1, <1>4 DEF TypeOK
<1> QED BY <1>1, <1>5, <1>6, RowsFrame, SubmitterFrame, DeliveryFrame

\* What every step of a polled batch starts from.
LEMMA PolledFacts ==
  ASSUME IInv, NEW w \in Workers, NEW b \in Batches
  PROVE  /\ poll[w][b] \in Polling /\ poll[w][b].ent \in Entity
         /\ EntityOK(b, poll[w][b].ent, jobs, embedded)
         /\ poll[w][b].pc \in {"polled", "results"} =>
              poll[w][b].ent.gjob # NoJob /\ poll[w][b].ent.gjob \in JobIds
<1>1. poll[w][b] \in Polling /\ PollOK(b, poll[w][b], jobs, embedded)
  BY DEF IInv, TypeOK, PollerOK
<1>2. poll[w][b].ent \in Entity
  BY <1>1 DEF Polling
<1>3. poll[w][b].ent.gjob \in JobIds \cup {NoJob}
  BY <1>2 DEF Entity
<1> QED BY <1>1, <1>2, <1>3 DEF PollOK

LEMMA PollSkipStep ==
  ASSUME IInv, NEW w \in Workers, NEW b \in Batches, PollSkip(w, b)
  PROVE  IInv'
<1> USE DEF IInv
<1>1. UNCHANGED <<rows, created, embedded, files, jobs, phase, waiting, backoff, sub, retry,
                  recov, failing, deliv, limits, crashes>>
  BY DEF PollSkip, tableVars, geminiVars, submitVars, recoverVars
<1>2. faults' \in 0..MaxFaults
  BY BoundsAssumption DEF PollSkip, Fault, TypeOK
<1>3. poll' = [poll EXCEPT ![w][b] = IdlePoll]
  BY DEF PollSkip
<1>4. poll' \in [Workers -> [Batches -> Polling]] /\ PollerOK'
  BY <1>1, <1>3, IdleOK, PollerKeeps
<1>5. TypeOK'
  BY <1>1, <1>2, <1>4 DEF TypeOK
<1> QED BY <1>1, <1>4, <1>5, RowsFrame, SubmitterFrame, DeliveryFrame

LEMMA PollCompletedStep ==
  ASSUME IInv, NEW w \in Workers, NEW b \in Batches, PollCompleted(w, b)
  PROVE  IInv'
<1> USE DEF IInv
<1> DEFINE g == [poll[w][b] EXCEPT !.pc = "results"]
<1>1. UNCHANGED <<rows, created, embedded, files, jobs, phase, waiting, backoff, sub, retry,
                  recov, failing, deliv, faults, limits, crashes>>
  BY DEF PollCompleted, tableVars, geminiVars, submitVars, recoverVars, boundVars
<1>2. poll[w][b].pc = "polled" /\ poll' = [poll EXCEPT ![w][b] = g]
  BY DEF PollCompleted
<1>3. g \in Polling /\ PollOK(b, g, jobs, embedded)
  BY <1>2, PolledFacts DEF Polling, PollOK
<1> HIDE DEF g
<1>4. poll' \in [Workers -> [Batches -> Polling]] /\ PollerOK'
  BY <1>1, <1>2, <1>3, PollerKeeps
<1>5. TypeOK'
  BY <1>1, <1>4 DEF TypeOK
<1> QED BY <1>1, <1>4, <1>5, RowsFrame, SubmitterFrame, DeliveryFrame

LEMMA PollFailedStep ==
  ASSUME IInv, NEW w \in Workers, NEW b \in Batches, PollFailed(w, b)
  PROVE  IInv'
<1> USE DEF IInv
<1> DEFINE e == AfterJobFailure(poll[w][b].ent)
           g == [poll[w][b] EXCEPT !.pc = "save", !.ent = e]
<1>1. UNCHANGED <<rows, created, embedded, files, jobs, phase, waiting, backoff, sub, retry,
                  recov, failing, deliv, faults, limits, crashes>>
  BY DEF PollFailed, tableVars, geminiVars, submitVars, recoverVars, boundVars
<1>2. /\ poll[w][b].pc = "polled" /\ jobs[poll[w][b].ent.gjob].state = "failed"
      /\ poll' = [poll EXCEPT ![w][b] = g]
  BY DEF PollFailed, PolledJob, ReportedState
<1>3. e \in Entity /\ EntityOK(b, e, jobs, embedded)
  BY <1>2, PolledFacts, JobFailureOK
<1> HIDE DEF e
<1>4. g \in Polling /\ PollOK(b, g, jobs, embedded)
  BY <1>3, PolledFacts DEF Polling, PollOK
<1> HIDE DEF g
<1>5. poll' \in [Workers -> [Batches -> Polling]] /\ PollerOK'
  BY <1>1, <1>2, <1>4, PollerKeeps
<1>6. TypeOK'
  BY <1>1, <1>5 DEF TypeOK
<1> QED BY <1>1, <1>5, <1>6, RowsFrame, SubmitterFrame, DeliveryFrame

LEMMA StoreResultsStep ==
  ASSUME IInv, NEW w \in Workers, NEW b \in Batches, StoreResults(w, b)
  PROVE  IInv'
<1> USE DEF IInv
<1> DEFINE results == PolledJob(w, b).results
           e == MarkCompleted(poll[w][b].ent, Cardinality(results))
           g == [poll[w][b] EXCEPT !.pc = "complete", !.ent = e]
<1>1. UNCHANGED <<rows, created, files, jobs, phase, waiting, backoff, sub, retry,
                  recov, failing, deliv, faults, limits, crashes>>
  BY DEF StoreResults, tableVars, geminiVars, submitVars, recoverVars, boundVars
<1>2. /\ poll[w][b].pc = "results" /\ jobs[poll[w][b].ent.gjob].state = "succeeded"
      /\ embedded' = embedded \cup results
      /\ poll' = [poll EXCEPT ![w][b] = g]
  BY DEF StoreResults, PolledJob, HasResults
<1>3. results \in SUBSET Chunks /\ embedded' \in SUBSET Chunks
  <2>1. results \in SUBSET Chunks
    BY <1>2, PolledFacts DEF PolledJob, TypeOK, Job
  <2> QED BY <1>2, <2>1 DEF TypeOK
<1>4. EntityOK(b, poll[w][b].ent, jobs, embedded')
  BY <1>2, PolledFacts, Monotone
<1>5. e \in Entity /\ EntityOK(b, e, jobs, embedded')
  <2>1. results \subseteq embedded'
    BY <1>2
  <2> QED BY <1>2, <1>3, <1>4, <2>1, PolledFacts, CompletedOK DEF PolledJob
<1>6. g \in Polling /\ PollOK(b, g, jobs, embedded')
  <2> HIDE DEF e
  <2> QED BY <1>5, PolledFacts DEF Polling, PollOK
<1>7. ASSUME NEW v \in Workers, NEW c \in Batches
      PROVE  PollOK(c, poll[v][c], jobs, embedded')
  <2>1. EntityOK(c, poll[v][c].ent, jobs, embedded')
    BY <1>2, PolledFacts, Monotone
  <2> QED BY <2>1 DEF PollerOK, PollOK
<1>8. RowsOK' /\ SubmitterOK'
  <2>1. \A c \in Batches, f \in Entity :
          EntityOK(c, f, jobs, embedded) => EntityOK(c, f, jobs, embedded')
    BY <1>2, Monotone
  <2>2. RowsOK'
    BY <1>1, <2>1 DEF RowsOK, TypeOK
  <2>3. SubmitterOK'
    BY <1>1, <2>1 DEF SubmitterOK, SubmissionOK, TypeOK, Submission
  <2> QED BY <2>2, <2>3
<1> HIDE DEF g
<1>9. poll' \in [Workers -> [Batches -> Polling]]
  BY <1>2, <1>6 DEF TypeOK
<1>10. PollerOK'
  <2>1. \A v \in Workers, c \in Batches :
          poll'[v][c] = IF v = w /\ c = b THEN g ELSE poll[v][c]
    BY <1>2 DEF TypeOK
  <2> QED BY <1>1, <1>6, <1>7, <2>1 DEF PollerOK
<1>11. TypeOK'
  BY <1>1, <1>3, <1>9 DEF TypeOK
<1> QED BY <1>1, <1>8, <1>10, <1>11, DeliveryFrame

\* The deferred MarkFailed of processBatchResults.
LEMMA PollGivesUp ==
  ASSUME IInv, NEW w \in Workers, NEW b \in Batches, UNCHANGED <<jobs, embedded>>,
         poll' = [poll EXCEPT ![w][b].pc = "save", ![w][b].ent = MarkFailed(@)]
  PROVE  poll' \in [Workers -> [Batches -> Polling]] /\ PollerOK'
<1> USE DEF IInv
<1> DEFINE e == MarkFailed(poll[w][b].ent)
           g == [poll[w][b] EXCEPT !.pc = "save", !.ent = e]
<1>1. e \in Entity /\ EntityOK(b, e, jobs, embedded)
  BY PolledFacts, FailedOK
<1>2. poll' = [poll EXCEPT ![w][b] = g]
  OBVIOUS
<1> HIDE DEF e
<1>3. g \in Polling /\ PollOK(b, g, jobs, embedded)
  BY <1>1, PolledFacts DEF Polling, PollOK
<1> HIDE DEF g
<1> QED BY <1>2, <1>3, PollerKeeps

LEMMA ResultsFailStep ==
  ASSUME IInv, NEW w \in Workers, NEW b \in Batches, ResultsFail(w, b)
  PROVE  IInv'
<1> USE DEF IInv
<1>1. UNCHANGED <<rows, created, embedded, files, jobs, phase, waiting, backoff, sub, retry,
                  recov, failing, deliv, limits, crashes>>
  BY DEF ResultsFail, tableVars, geminiVars, submitVars, recoverVars
<1>2. faults' \in 0..MaxFaults
  BY BoundsAssumption DEF ResultsFail, Fault, TypeOK
<1>3. poll' = [poll EXCEPT ![w][b].pc = "save", ![w][b].ent = MarkFailed(@)]
  BY DEF ResultsFail
<1>4. poll' \in [Workers -> [Batches -> Polling]] /\ PollerOK'
  BY <1>1, <1>3, PollGivesUp
<1>5. TypeOK'
  BY <1>1, <1>2, <1>4 DEF TypeOK
<1> QED BY <1>1, <1>4, <1>5, RowsFrame, SubmitterFrame, DeliveryFrame

LEMMA SaveCompletedStep ==
  ASSUME IInv, NEW w \in Workers, NEW b \in Batches, SaveCompleted(w, b)
  PROVE  IInv'
<1> USE DEF IInv
<1>1. UNCHANGED <<embedded, files, jobs, phase, waiting, backoff, sub, retry, recov,
                  failing, deliv, limits, crashes>>
  BY DEF SaveCompleted, geminiVars, submitVars, recoverVars
<1>2. faults' \in 0..MaxFaults
  BY BoundsAssumption DEF SaveCompleted, Fault, TypeOK
<1>3. TableType' /\ RowsOK'
  <2>1. Save(b, poll[w][b].ent) \/ UNCHANGED tableVars
    BY DEF SaveCompleted
  <2> QED BY <1>1, <2>1, PolledFacts, SaveKeeps
<1>4. poll' \in [Workers -> [Batches -> Polling]] /\ PollerOK'
  <2>1. CASE poll' = [poll EXCEPT ![w][b] = IdlePoll]
    BY <1>1, <2>1, IdleOK, PollerKeeps
  <2>2. CASE poll' = [poll EXCEPT ![w][b].pc = "save", ![w][b].ent = MarkFailed(@)]
    BY <1>1, <2>2, PollGivesUp
  <2> QED BY <2>1, <2>2 DEF SaveCompleted
<1>5. TypeOK'
  BY <1>1, <1>2, <1>3, <1>4 DEF TypeOK, TableType
<1> QED BY <1>1, <1>3, <1>4, <1>5, SubmitterFrame, DeliveryFrame

LEMMA SavePolledStep ==
  ASSUME IInv, NEW w \in Workers, NEW b \in Batches, SavePolled(w, b)
  PROVE  IInv'
<1> USE DEF IInv
<1>1. UNCHANGED <<embedded, files, jobs, phase, waiting, backoff, sub, retry, recov,
                  failing, deliv, limits, crashes>>
  BY DEF SavePolled, geminiVars, submitVars, recoverVars
<1>2. TableType' /\ RowsOK' /\ faults' \in 0..MaxFaults
  BY <1>1, PolledFacts, SaveOrLoseKeeps DEF SavePolled
<1>3. poll' \in [Workers -> [Batches -> Polling]] /\ PollerOK'
  <2>1. poll' = [poll EXCEPT ![w][b] = IdlePoll]
    BY DEF SavePolled
  <2> QED BY <1>1, <2>1, IdleOK, PollerKeeps
<1>4. TypeOK'
  BY <1>1, <1>2, <1>3 DEF TypeOK, TableType
<1> QED BY <1>1, <1>2, <1>3, <1>4, SubmitterFrame, DeliveryFrame

-----------------------------------------------------------------------------
(* The retry loop, recovery, crashes and Gemini.                           *)

LEMMA RetryReadStep ==
  ASSUME IInv, NEW w \in Workers, RetryRead(w)
  PROVE  IInv'
<1> USE DEF IInv
<1>1. UNCHANGED <<rows, created, embedded, files, jobs, phase, waiting, backoff, sub, poll,
                  recov, failing, deliv, faults, limits, crashes>>
  BY DEF RetryRead, tableVars, geminiVars, submitVars, recoverVars, boundVars
<1>2. retry' \in [Workers -> 0..NumBatches]
  <2>1. Batches \subseteq 0..NumBatches
    BY CountsAssumption DEF Batches
  <2> QED BY <2>1 DEF RetryRead, TypeOK
<1>3. TypeOK'
  BY <1>1, <1>2 DEF TypeOK
<1> QED BY <1>1, <1>3, RowsFrame, SubmitterFrame, PollerFrame, DeliveryFrame

\* The row number a goroutine remembers is that of a batch.
LEMMA RowNumber ==
  ASSUME NEW n \in 0..NumBatches, n # 0
  PROVE  n \in Batches
BY CountsAssumption DEF Batches

LEMMA RetryWriteStep ==
  ASSUME IInv, NEW w \in Workers, RetryWrite(w)
  PROVE  IInv'
<1> USE DEF IInv
<1>1. UNCHANGED <<embedded, files, jobs, phase, waiting, backoff, sub, poll, recov,
                  failing, deliv, limits, crashes>>
  BY DEF RetryWrite, geminiVars, submitVars, recoverVars
<1>2. retry[w] \in Batches
  BY RowNumber DEF RetryWrite, TypeOK
<1>3. TableType' /\ RowsOK' /\ faults' \in 0..MaxFaults
  BY <1>1, <1>2, UpdateStatusKeeps DEF RetryWrite
<1>4. retry' \in [Workers -> 0..NumBatches]
  BY CountsAssumption DEF RetryWrite, TypeOK
<1>5. TypeOK'
  BY <1>1, <1>3, <1>4 DEF TypeOK, TableType
<1> QED BY <1>1, <1>3, <1>5, SubmitterFrame, PollerFrame, DeliveryFrame

LEMMA StartStep ==
  ASSUME IInv, NEW w \in Workers, Start(w)
  PROVE  IInv'
<1> USE DEF IInv
<1>1. UNCHANGED <<rows, created, embedded, files, jobs, waiting, backoff, sub, poll, retry,
                  failing, deliv, limits, crashes>>
  BY DEF Start, tableVars, geminiVars, submitVars
<1>faults. faults' \in 0..MaxFaults
  BY BoundsAssumption DEF Start, Fault, TypeOK
<1>2. \A b \in Batches : rows[b].gjob \in JobIds \cup {NoJob}
  BY DEF TypeOK, Entity
<1>3. recov' \in [Workers -> [Batches -> JobIds \cup {NoJob}]]
  <2> DEFINE found == [b \in Batches |-> IF IsPendingGemini(rows[b]) THEN rows[b].gjob
                                         ELSE NoJob]
  <2>1. found \in [Batches -> JobIds \cup {NoJob}]
    BY <1>2
  <2>2. recov' = [recov EXCEPT ![w] = found] \/ recov' = recov
    BY DEF Start
  <2> HIDE DEF found
  <2> QED BY <2>1, <2>2 DEF TypeOK
<1>4. phase' \in [Workers -> {"down", "recovering", "running"}]
  BY DEF Start, TypeOK
<1>5. TypeOK'
  BY <1>1, <1>3, <1>4, <1>faults DEF TypeOK
<1> QED BY <1>1, <1>5, RowsFrame, SubmitterFrame, PollerFrame, DeliveryFrame

LEMMA RecoverCheckStep ==
  ASSUME IInv, NEW w \in Workers, NEW b \in Batches, RecoverCheck(w, b)
  PROVE  IInv'
<1> USE DEF IInv
<1>1. UNCHANGED <<rows, created, embedded, files, jobs, phase, waiting, backoff, sub, poll,
                  retry, deliv, limits, crashes>>
  BY DEF RecoverCheck, tableVars, geminiVars, submitVars
<1>2. faults' \in 0..MaxFaults
  BY BoundsAssumption DEF RecoverCheck, Fault, TypeOK
<1>3. recov' \in [Workers -> [Batches -> JobIds \cup {NoJob}]]
  BY DEF RecoverCheck, TypeOK
<1>4. failing' \in [Workers -> 0..NumBatches]
  <2>1. b \in 0..NumBatches
    BY CountsAssumption DEF Batches
  <2> QED BY <2>1 DEF RecoverCheck, TypeOK
<1>5. TypeOK'
  BY <1>1, <1>2, <1>3, <1>4 DEF TypeOK
<1> QED BY <1>1, <1>5, RowsFrame, SubmitterFrame, PollerFrame, DeliveryFrame

LEMMA RecoverFailStep ==
  ASSUME IInv, NEW w \in Workers, RecoverFail(w)
  PROVE  IInv'
<1> USE DEF IInv
<1>1. UNCHANGED <<embedded, files, jobs, phase, waiting, backoff, sub, poll, retry, recov,
                  deliv, limits, crashes>>
  BY DEF RecoverFail, geminiVars, submitVars
<1>2. failing[w] \in Batches
  BY RowNumber DEF RecoverFail, TypeOK
<1>3. TableType' /\ RowsOK' /\ faults' \in 0..MaxFaults
  BY <1>1, <1>2, UpdateStatusKeeps DEF RecoverFail
<1>4. failing' \in [Workers -> 0..NumBatches]
  BY CountsAssumption DEF RecoverFail, TypeOK
<1>5. TypeOK'
  BY <1>1, <1>3, <1>4 DEF TypeOK, TableType
<1> QED BY <1>1, <1>3, <1>5, SubmitterFrame, PollerFrame, DeliveryFrame

LEMMA RecoveryDoneStep ==
  ASSUME IInv, NEW w \in Workers, RecoveryDone(w)
  PROVE  IInv'
<1> USE DEF IInv
<1>1. UNCHANGED <<rows, created, embedded, files, jobs, waiting, backoff, sub, poll, retry,
                  recov, failing, deliv, faults, limits, crashes>>
  BY DEF RecoveryDone, tableVars, geminiVars, submitVars, recoverVars, boundVars
<1>2. phase' \in [Workers -> {"down", "recovering", "running"}]
  BY DEF RecoveryDone, TypeOK
<1>3. TypeOK'
  BY <1>1, <1>2 DEF TypeOK
<1> QED BY <1>1, <1>3, RowsFrame, SubmitterFrame, PollerFrame, DeliveryFrame

LEMMA CrashStep ==
  ASSUME IInv, NEW w \in Workers, Crash(w)
  PROVE  IInv'
<1> USE DEF IInv
<1> DEFINE stopped(d) == [deliv[d] EXCEPT !.pc = "done", !.need = {}]
<1>1. UNCHANGED <<rows, created, embedded, files, jobs, faults, limits>>
  BY DEF Crash, tableVars, geminiVars
<1>2. /\ phase'   = [phase EXCEPT ![w] = "down"]
      /\ waiting' = [waiting EXCEPT ![w] = 0]
      /\ backoff' = [backoff EXCEPT ![w] = FALSE]
      /\ retry'   = [retry EXCEPT ![w] = 0]
      /\ failing' = [failing EXCEPT ![w] = 0]
      /\ crashes < MaxCrashes /\ crashes' = crashes + 1
  BY DEF Crash
<1>3. 0 \in 0..MaxWaiting /\ 0 \in 0..NumBatches /\ crashes + 1 \in 0..MaxCrashes
  BY <1>2, BoundsAssumption, CountsAssumption DEF TypeOK
<1>4. /\ phase' \in [Workers -> {"down", "recovering", "running"}]
      /\ waiting' \in [Workers -> 0..MaxWaiting]
      /\ backoff' \in [Workers -> BOOLEAN]
      /\ retry' \in [Workers -> 0..NumBatches]
      /\ failing' \in [Workers -> 0..NumBatches]
      /\ crashes' \in 0..MaxCrashes
  BY <1>2, <1>3 DEF TypeOK
<1>5. sub' \in [Slots -> Submission] /\ SubmitterOK'
  <2>1. 1 \in Batches
    BY CountsAssumption DEF Batches
  <2>2. IdleSub \in Submission /\ SubmissionOK(IdleSub, jobs, embedded)
    BY <2>1, IdleOK
  <2>3. sub' = [s \in Slots |-> IF s[1] = w THEN IdleSub ELSE sub[s]]
    BY DEF Crash
  <2>4. SubmitterOK'
    BY <1>1, <2>2, <2>3 DEF SubmitterOK
  <2> QED BY <2>2, <2>3, <2>4 DEF TypeOK
<1>6. poll' \in [Workers -> [Batches -> Polling]] /\ PollerOK'
  <2>1. poll' = [poll EXCEPT ![w] = [b \in Batches |-> IdlePoll]]
    BY DEF Crash
  <2>2. \A b \in Batches : IdlePoll \in Polling /\ PollOK(b, IdlePoll, jobs, embedded)
    BY IdleOK
  <2>3. PollerOK'
    BY <1>1, <2>1, <2>2 DEF PollerOK, TypeOK
  <2> QED BY <2>1, <2>2, <2>3 DEF TypeOK
<1>7. recov' \in [Workers -> [Batches -> JobIds \cup {NoJob}]]
  BY DEF Crash, NoRecovery, TypeOK
<1>8. \A d \in Deliveries : stopped(d) \in Delivery /\ stopped(d).pc # "enqueue"
  BY DEF TypeOK, Delivery
<1>9. deliv' = [d \in Deliveries |-> IF deliv[d].at = w THEN stopped(d) ELSE deliv[d]]
  BY DEF Crash
<1>10. deliv' \in [Deliveries -> Delivery] /\ DeliveryOK'
  <2> HIDE DEF stopped
  <2> QED BY <1>8, <1>9 DEF TypeOK, DeliveryOK
<1>11. TypeOK'
  BY <1>1, <1>4, <1>5, <1>6, <1>7, <1>10 DEF TypeOK
<1> QED BY <1>1, <1>5, <1>6, <1>10, <1>11, RowsFrame

LEMMA GeminiEndsStep ==
  ASSUME IInv, NEW j \in JobIds, GeminiEnds(j)
  PROVE  IInv'
<1> USE DEF IInv
<1>1. UNCHANGED <<rows, created, embedded, files, phase, waiting, backoff, sub, poll, retry,
                  recov, failing, deliv, faults, limits, crashes>>
  BY DEF GeminiEnds, tableVars, submitVars, recoverVars, boundVars
<1>2. PICK outcome \in GeminiOutcomes, results \in SUBSET jobs[j].payload :
        jobs' = [jobs EXCEPT ![j].state = outcome, ![j].results = results]
  BY DEF GeminiEnds
<1>3. jobs[j] \in Job /\ jobs[j].state = "pending"
  BY DEF GeminiEnds, TypeOK
<1>4. outcome \in {"succeeded", "partial", "failed", "cancelled"}
  BY BoundsAssumption
<1>5. JobsGrow /\ jobs' \in [JobIds -> Job]
  <2> DEFINE x == [jobs[j] EXCEPT !.state = outcome, !.results = results]
  <2>1. x \in Job /\ x.batch = jobs[j].batch /\ x.state # "unused"
    BY <1>3, <1>4 DEF Job
  <2>2. jobs' = [jobs EXCEPT ![j] = x]
    BY <1>2
  <2> HIDE DEF x
  <2> QED BY <1>3, <2>1, <2>2 DEF JobsGrow, TypeOK
<1>6. RowsOK' /\ PollerOK' /\ SubmitterOK'
  BY <1>1, <1>5, JobsGrowKeeps DEF SubmitterOK
<1>7. TypeOK'
  BY <1>1, <1>5 DEF TypeOK
<1> QED BY <1>1, <1>6, <1>7, DeliveryFrame

-----------------------------------------------------------------------------
(* The inductive invariant and what follows from it.                       *)

LEMMA InitIInv ==
  Init => IInv
<1> SUFFICES ASSUME Init
             PROVE  IInv
  OBVIOUS
<1>1. 1 \in Batches /\ 0 \in 0..NumBatches
  BY CountsAssumption DEF Batches
<1>2. Absent \in Entity /\ \A b \in Batches : EntityOK(b, Absent, jobs, embedded)
  BY <1>1, AbsentOK
<1>3. NewDelivery \in Delivery
  BY <1>1 DEF NewDelivery, Delivery
<1>4. IdleSub \in Submission /\ SubmissionOK(IdleSub, jobs, embedded)
      /\ IdlePoll \in Polling /\ \A b \in Batches : PollOK(b, IdlePoll, jobs, embedded)
  BY <1>1, IdleOK
<1>5. jobs \in [JobIds -> Job]
  BY <1>1 DEF Init, Job
<1>6. faults \in 0..MaxFaults /\ limits \in 0..MaxRateLimits /\ crashes \in 0..MaxCrashes
      /\ waiting \in [Workers -> 0..MaxWaiting]
  BY BoundsAssumption DEF Init
<1>7. TypeOK
  <2>1. rows \in [Batches -> Entity] /\ created \in Seq(Batches) /\ embedded \in SUBSET Chunks
        /\ files \in [Batches -> SUBSET Chunks]
    BY <1>2 DEF Init
  <2>2. /\ phase \in [Workers -> {"down", "recovering", "running"}]
        /\ backoff \in [Workers -> BOOLEAN]
        /\ retry \in [Workers -> 0..NumBatches] /\ failing \in [Workers -> 0..NumBatches]
        /\ recov \in [Workers -> [Batches -> JobIds \cup {NoJob}]]
    BY <1>1 DEF Init, NoRecovery
  <2>3. sub \in [Slots -> Submission] /\ poll \in [Workers -> [Batches -> Polling]]
        /\ deliv \in [Deliveries -> Delivery]
    BY <1>3, <1>4 DEF Init
  <2> QED BY <1>5, <1>6, <2>1, <2>2, <2>3 DEF TypeOK
<1>8. RowsOK
  BY <1>2 DEF Init, RowsOK
<1>9. SubmitterOK
  BY <1>4 DEF Init, SubmitterOK
<1>10. PollerOK
  BY <1>4 DEF Init, PollerOK
<1>11. DeliveryOK
  BY DEF Init, DeliveryOK, NewDelivery
<1> QED BY <1>7, <1>8, <1>9, <1>10, <1>11 DEF IInv

LEMMA StutterStep ==
  ASSUME IInv, UNCHANGED vars
  PROVE  IInv'
<1>1. UNCHANGED <<rows, created, embedded, files, jobs, phase, waiting, backoff, sub, poll,
                  retry, recov, failing, deliv, faults, limits, crashes>>
  BY DEF vars, tableVars, geminiVars, submitVars, recoverVars, boundVars
<1>2. TypeOK'
  BY <1>1 DEF IInv, TypeOK
<1> QED BY <1>1, <1>2, RowsFrame, SubmitterFrame, PollerFrame, DeliveryFrame DEF IInv

LEMMA NextIInv ==
  IInv /\ [Next]_vars => IInv'
<1> SUFFICES ASSUME IInv, [Next]_vars
             PROVE  IInv'
  OBVIOUS
<1>1. CASE \E d \in Deliveries : DeliveryStep(d) \/ \E w \in Workers : StartDelivery(d, w)
  BY <1>1, StartDeliveryStep, FilterBatchStep, EnqueueBatchStep, RecordFailedBatchStep,
     EmbedSequentiallyStep DEF DeliveryStep
<1>2. CASE \E w \in Workers : Tick(w) \/ BackoffEnds(w)
  BY <1>2, TickStep, BackoffEndsStep
<1>3. CASE \E s \in Slots : SubmitRead(s) \/ SubmitCall(s) \/ SubmitSave(s)
  BY <1>3, SubmitReadStep, UploadFileStep, CreateAcceptedStep, CallRateLimitedStep,
     CallRejectedStep, SaveFileURIStep, SaveSubmittedStep, SaveInvalidJobIDStep,
     SaveSubmissionFailureStep DEF SubmitCall, SubmitSave
<1>4. CASE \E b \in Batches : BecomesDue(b)
  BY <1>4, BecomesDueStep
<1>5. CASE \E w \in Workers : PollRead(w) \/ \E b \in Batches : PollStep(w, b)
  BY <1>5, PollReadStep, PollSkipStep, PollCompletedStep, PollFailedStep, StoreResultsStep,
     ResultsFailStep, SaveCompletedStep, SavePolledStep DEF PollStep
<1>6. CASE \E w \in Workers : RetryRead(w) \/ RetryWrite(w)
  BY <1>6, RetryReadStep, RetryWriteStep
<1>7. CASE \E w \in Workers : Start(w) \/ RecoverFail(w) \/ RecoveryDone(w)
                              \/ \E b \in Batches : RecoverCheck(w, b)
  BY <1>7, StartStep, RecoverFailStep, RecoveryDoneStep, RecoverCheckStep
<1>8. CASE \E w \in Workers : Crash(w)
  BY <1>8, CrashStep
<1>9. CASE \E j \in JobIds : GeminiEnds(j)
  BY <1>9, GeminiEndsStep
<1>10. CASE UNCHANGED vars
  BY <1>10, StutterStep
<1> QED BY <1>1, <1>2, <1>3, <1>4, <1>5, <1>6, <1>7, <1>8, <1>9, <1>10 DEF Next

\* Every entity, in the table or in a goroutine's hands, always tells the truth
\* about its Gemini job (IInv of BatchInvariant), under every interleaving of
\* batch_submitter.go, batch_poller.go, the retry loop, recovery and deliveries.
THEOREM Consistency == Spec => []IInv
BY InitIInv, NextIInv, PTL DEF Spec

\* Type correctness; no attempt or retry counter passes its limit.
THEOREM TypeCorrect == Spec => []TypeOK
<1>1. IInv => TypeOK
  BY DEF IInv
<1> QED BY <1>1, Consistency, PTL

\* A queued row always has chunks to submit, no Gemini job and an attempt left
\* (GetPendingSubmissionBatch and submitOneBatch rely on it).
THEOREM QueuedSubmittable == Spec => []QueuedIsSubmittable
<1>1. IInv => QueuedIsSubmittable
  BY DEF IInv, RowsOK, EntityOK, QueuedIsSubmittable
<1> QED BY <1>1, Consistency, PTL

\* A row is "completed" only when the embeddings its Gemini job returned are
\* stored (processBatchResults), whichever goroutine wrote the row last.
THEOREM CompletedStored == Spec => []CompletedIsStored
<1>1. IInv => CompletedIsStored
  <2> SUFFICES ASSUME IInv, NEW b \in Batches, rows[b].status = "completed"
               PROVE  \E j \in JobIds :
                        /\ rows[b].gjob = j /\ jobs[j].batch = b /\ jobs[j].state = "succeeded"
                        /\ jobs[j].results \subseteq embedded
                        /\ rows[b].done = Cardinality(jobs[j].results)
    BY DEF CompletedIsStored
  <2>1. rows[b].gjob \in JobIds \cup {NoJob} /\ EntityOK(b, rows[b], jobs, embedded)
    BY DEF IInv, TypeOK, Entity, RowsOK
  <2> QED BY <2>1 DEF EntityOK
<1> QED BY <1>1, Consistency, PTL

\* A row handleFailedBatch ever retried points at a failed Gemini job for good:
\* startRetryBatchPolling never gets it another one.
THEOREM RetriedFailed == Spec => []RetriedJobHasFailed
<1>1. IInv => RetriedJobHasFailed
  <2> SUFFICES ASSUME IInv, NEW b \in Batches, rows[b].retries > 0
               PROVE  \E j \in JobIds :
                        rows[b].gjob = j /\ jobs[j].batch = b /\ jobs[j].state = "failed"
    BY DEF RetriedJobHasFailed
  <2>1. rows[b].gjob \in JobIds \cup {NoJob} /\ EntityOK(b, rows[b], jobs, embedded)
    BY DEF IInv, TypeOK, Entity, RowsOK
  <2> QED BY <2>1 DEF EntityOK
<1> QED BY <1>1, Consistency, PTL

-----------------------------------------------------------------------------
(***************************************************************************)
(* With one worker and one delivery: rows have one owner at a time, a      *)
(* settled row stays as it is, and the pipeline implements BatchPromise.   *)
(***************************************************************************)

\* What a step may do to rows that are settled, and as the caller sees it.
SettledKept ==
  \A b \in Batches : rows[b].status \in {"completed", "failed"} => rows'[b] = rows[b]
PromiseKept == FallbackToSequential \/ [Promise!Next]_(Promise!vars)
Kept == OwnInv' /\ SettledKept /\ PromiseKept

LEMMA OnlySlot ==
  ASSUME OneActor
  PROVE  \A s, t \in Slots : s = t
<1>1. 1..MaxConcurrentSubmissions = {1}
  BY DEF OneActor
<1> QED BY <1>1 DEF Slots, OneActor

\* What a conjunct is about does not change.
LEMMA Frames ==
  ASSUME OwnInv
  PROVE  /\ UNCHANGED <<rows, files>> => RowsOwned'
         /\ UNCHANGED <<rows, jobs>> => JobsOwned'
         /\ UNCHANGED <<rows, deliv>> => DeliveryOwned'
         /\ UNCHANGED <<rows, files, sub>> => SubOwned'
         /\ UNCHANGED <<rows, files, poll, phase>> => PollOwned'
         /\ UNCHANGED <<rows, retry, phase>> => RetryOwned'
         /\ UNCHANGED <<rows, recov, failing, phase>> => RecoverOwned'
         /\ UNCHANGED <<rows, jobs, sub>> => OnceOwned'
<1> USE DEF OwnInv
<1>1. UNCHANGED <<rows, files>> => RowsOwned'
  BY DEF RowsOwned
<1>2. UNCHANGED <<rows, jobs>> => JobsOwned'
  BY DEF JobsOwned
<1>3. UNCHANGED <<rows, deliv>> => DeliveryOwned'
  BY DEF DeliveryOwned
<1>4. UNCHANGED <<rows, files, sub>> => SubOwned'
  BY DEF SubOwned
<1>5. UNCHANGED <<rows, files, poll, phase>> => PollOwned'
  BY DEF PollOwned
<1>6. UNCHANGED <<rows, retry, phase>> => RetryOwned'
  BY DEF RetryOwned
<1>7. UNCHANGED <<rows, recov, failing, phase>> => RecoverOwned'
  BY DEF RecoverOwned
<1>8. UNCHANGED <<rows, jobs, sub>> => OnceOwned'
  BY DEF OnceOwned
<1> QED BY <1>1, <1>2, <1>3, <1>4, <1>5, <1>6, <1>7, <1>8

LEMMA QuietRows ==
  ASSUME UNCHANGED <<rows, embedded>>
  PROVE  SettledKept /\ PromiseKept
<1>1. UNCHANGED Promise!vars
  BY DEF Promise!vars
<1> QED BY <1>1 DEF SettledKept, PromiseKept

\* A row changes and its stage does not.
LEMMA QuietRow ==
  ASSUME TypeOK, embedded' = embedded, NEW b \in Batches, NEW e,
         rows' = [rows EXCEPT ![b] = e], e.payload = rows[b].payload,
         Stage(e.status) = Stage(rows[b].status),
         rows[b].status \notin {"completed", "failed"}, e.status # "completed"
  PROVE  SettledKept /\ PromiseKept
<1>1. \A c \in Batches : rows'[c] = IF c = b THEN e ELSE rows[c]
  BY DEF TypeOK
<1>2. UNCHANGED Promise!vars
  BY <1>1 DEF Promise!vars
<1> QED BY <1>1, <1>2 DEF SettledKept, PromiseKept

LEMMA Stages ==
  /\ Stage("absent") = "none" /\ Stage("pending_submission") = "queued"
  /\ Stage("processing") = "inflight" /\ Stage("retry_scheduled") = "inflight"
  /\ Stage("completed") = "finished" /\ Stage("failed") = "abandoned"
BY DEF Stage

\* A row changes its stage, but not to "finished".
LEMMA StageMoves ==
  ASSUME TypeOK, embedded' = embedded, NEW b \in Batches, NEW e,
         rows' = [rows EXCEPT ![b] = e], e.payload = rows[b].payload,
         rows[b].status \in {"absent", "pending_submission", "processing", "retry_scheduled"},
         \/ e.status = "failed"
         \/ rows[b].status = "pending_submission" /\ e.status = "processing"
  PROVE  SettledKept /\ PromiseKept
<1> DEFINE stage == [c \in Batches |-> Stage(rows[c].status)]
           want == [c \in Batches |-> rows[c].payload]
           count == [c \in Batches |-> IF rows[c].status = "completed" THEN rows[c].done ELSE 0]
<1>1. \A c \in Batches : rows'[c] = IF c = b THEN e ELSE rows[c]
  BY DEF TypeOK
<1>2. stage' = [stage EXCEPT ![b] = Stage(e.status)] /\ want' = want /\ count' = count
  <2>1. \A c \in Batches : stage'[c] = IF c = b THEN Stage(e.status) ELSE stage[c]
    BY <1>1
  <2>2. \A c \in Batches : want'[c] = want[c]
    BY <1>1
  <2>3. \A c \in Batches : count'[c] = count[c]
    BY <1>1
  <2>4. stage' = [stage EXCEPT ![b] = Stage(e.status)]
    BY <2>1
  <2>5. want' = want
    BY <2>2
  <2>6. count' = count
    BY <2>3
  <2> QED BY <2>4, <2>5, <2>6
<1>3. stage[b] = Stage(rows[b].status)
  OBVIOUS
<1>4. CASE e.status = "failed"
  <2>1. stage[b] \in {"none", "queued", "inflight"}
    BY <1>3, Stages
  <2>2. Promise!Abandon(b)
    BY <1>2, <1>4, <2>1, Stages DEF Promise!Abandon
  <2> QED BY <1>1, <2>2 DEF SettledKept, PromiseKept, Promise!Next
<1>5. CASE rows[b].status = "pending_submission" /\ e.status = "processing"
  <2>1. stage[b] = "queued"
    BY <1>3, <1>5, Stages
  <2>2. Promise!Submit(b)
    BY <1>2, <1>5, <2>1, Stages DEF Promise!Submit
  <2> QED BY <1>1, <1>5, <2>2 DEF SettledKept, PromiseKept, Promise!Next
<1> QED BY <1>4, <1>5

-----------------------------------------------------------------------------
(* A row changes hands.                                                    *)

\* A queued or later row moves on.  Whoever owned it has to be looked at; nobody
\* else has anything to do with it.
LEMMA RowMoves ==
  ASSUME TypeOK, OwnInv, NEW b \in Batches, NEW e,
         rows' = [rows EXCEPT ![b] = e], UNCHANGED <<files, jobs>>,
         rows[b].status # "absent", e.status \notin {"absent", "pending"},
         e.payload = rows[b].payload, e.file => files[b] = e.payload,
         e.status \in {"processing", "retry_scheduled"} => e.gjob # NoJob
  PROVE  /\ RowsOwned' /\ JobsOwned'
         /\ deliv' = deliv => DeliveryOwned'
         /\ sub' = sub /\ rows[b].status # "pending_submission" => SubOwned'
         /\ UNCHANGED <<poll, phase>> /\ rows[b].status # "processing" => PollOwned'
         /\ UNCHANGED <<retry, phase>> /\ rows[b].status # "retry_scheduled" => RetryOwned'
         /\ UNCHANGED <<recov, failing, phase>> /\ rows[b].status # "processing" => RecoverOwned'
         /\ sub' = sub /\ e.gjob = rows[b].gjob => OnceOwned'
<1> USE DEF OwnInv
<1>1. \A c \in Batches : rows'[c] = IF c = b THEN e ELSE rows[c]
  BY DEF TypeOK
<1>2. RowsOwned'
  BY <1>1 DEF RowsOwned
<1>3. \A j \in JobIds : jobs[j].batch \in Batches
  BY DEF TypeOK, Job
<1>4. JobsOwned'
  BY <1>1, <1>3 DEF JobsOwned
<1>5. deliv' = deliv => DeliveryOwned'
  BY <1>1 DEF DeliveryOwned
<1>6. \A s \in Slots : sub[s].batch \in Batches
  BY DEF TypeOK, Submission
<1>7. sub' = sub /\ rows[b].status # "pending_submission" => SubOwned'
  BY <1>1, <1>6 DEF SubOwned
<1>8. UNCHANGED <<poll, phase>> /\ rows[b].status # "processing" => PollOwned'
  BY <1>1 DEF PollOwned
<1>9. \A w \in Workers : retry[w] # 0 => retry[w] \in Batches
  BY RowNumber DEF TypeOK
<1>10. UNCHANGED <<retry, phase>> /\ rows[b].status # "retry_scheduled" => RetryOwned'
  BY <1>1, <1>9 DEF RetryOwned
<1>11. UNCHANGED <<recov, failing, phase>> /\ rows[b].status # "processing" => RecoverOwned'
  BY <1>1 DEF RecoverOwned
<1>12. sub' = sub /\ e.gjob = rows[b].gjob => OnceOwned'
  BY <1>1, <1>3 DEF OnceOwned
<1> QED BY <1>2, <1>4, <1>5, <1>7, <1>8, <1>10, <1>11, <1>12

\* A delivery makes the row of its batch, and goes on to another.
LEMMA RowAppears ==
  ASSUME TypeOK, OwnInv, OneActor, NEW d \in Deliveries, NEW x, NEW b \in Batches, NEW e,
         rows' = [rows EXCEPT ![b] = e], deliv' = [deliv EXCEPT ![d] = x],
         UNCHANGED <<files, jobs, sub, poll, phase, retry, recov, failing>>,
         rows[b].status = "absent", e.status \in {"pending_submission", "failed"}, ~e.file,
         x.pc \in {"new", "filter", "enqueue", "record"} =>
           \A c \in Batches : x.n <= c => c # b /\ rows[c].status = "absent",
         x.pc = "sequential" => FallbackToSequential
  PROVE  OwnInv'
<1> USE DEF OwnInv
<1>1. \A c \in Batches : rows'[c] = IF c = b THEN e ELSE rows[c]
  BY DEF TypeOK
<1>2. files[b] = {}
  BY DEF RowsOwned
<1>3. RowsOwned'
  BY <1>1, <1>2 DEF RowsOwned
<1>4. \A j \in JobIds : jobs[j].batch \in Batches
  BY DEF TypeOK, Job
<1>5. JobsOwned'
  BY <1>1, <1>4 DEF JobsOwned
<1>6. DeliveryOwned'
  <2>1. \A f \in Deliveries : deliv'[f] = x
    BY DEF OneActor, TypeOK
  <2> QED BY <1>1, <2>1 DEF DeliveryOwned
<1>7. \A s \in Slots : sub[s].batch \in Batches
  BY DEF TypeOK, Submission
<1>8. SubOwned'
  BY <1>1, <1>7 DEF SubOwned
<1>9. PollOwned'
  BY <1>1 DEF PollOwned
<1>10. \A w \in Workers : retry[w] # 0 => retry[w] \in Batches
  BY RowNumber DEF TypeOK
<1>11. RetryOwned'
  BY <1>1, <1>10 DEF RetryOwned
<1>12. RecoverOwned'
  BY <1>1 DEF RecoverOwned
<1>13. OnceOwned'
  <2>1. \A j \in JobIds : jobs[j].state # "unused" => rows'[jobs[j].batch] = rows[jobs[j].batch]
    BY <1>1, <1>4 DEF JobsOwned
  <2> QED BY <2>1 DEF OnceOwned
<1> QED BY <1>3, <1>5, <1>6, <1>8, <1>9, <1>11, <1>12, <1>13

-----------------------------------------------------------------------------
(* Deliveries.                                                             *)

LEMMA StartDeliveryKept ==
  ASSUME IInv, OwnInv, OneActor, NEW d \in Deliveries, NEW w \in Workers, StartDelivery(d, w)
  PROVE  Kept
<1>1. UNCHANGED <<rows, embedded, files, jobs, phase, sub, poll, retry, recov, failing>>
  BY DEF StartDelivery, tableVars, geminiVars, submitVars, recoverVars
<1>2. DeliveryOwned'
  BY <1>1 DEF StartDelivery, OwnInv, DeliveryOwned, IInv, TypeOK, Delivery
<1> QED BY <1>1, <1>2, Frames, QuietRows DEF Kept, OwnInv

LEMMA NextBatchOwns ==
  ASSUME IInv, OwnInv, NEW d \in Deliveries, deliv[d].pc \in {"filter", "enqueue"}
  PROVE  /\ NextBatch(d).pc \in {"filter", "done"}
         /\ NextBatch(d).pc = "filter" =>
              \A b \in Batches : NextBatch(d).n <= b => b # deliv[d].n /\ rows[b].status = "absent"
<1>1. deliv[d] \in Delivery /\ deliv[d].n \in Nat /\ Batches \subseteq Nat
  BY CountsAssumption DEF IInv, TypeOK, Delivery, Batches
<1>2. NextBatch(d).pc = IF deliv[d].n = NumBatches THEN "done" ELSE "filter"
  BY <1>1 DEF NextBatch, Delivery
<1>3. deliv[d].n # NumBatches => NextBatch(d).n = deliv[d].n + 1
  BY <1>1 DEF NextBatch, Delivery
<1>4. \A b \in Batches : deliv[d].n <= b => rows[b].status = "absent"
  BY DEF OwnInv, DeliveryOwned
<1> QED BY <1>1, <1>2, <1>3, <1>4

LEMMA FilterBatchKept ==
  ASSUME IInv, OwnInv, OneActor, NEW d \in Deliveries, FilterBatch(d)
  PROVE  Kept
<1>1. UNCHANGED <<rows, embedded, files, jobs, phase, sub, poll, retry, recov, failing>>
  BY DEF FilterBatch, tableVars, geminiVars, submitVars, recoverVars
<1>2. deliv[d].pc = "filter" /\ DOMAIN deliv = Deliveries /\ deliv[d] \in Delivery
  BY DEF FilterBatch, IInv, TypeOK
<1>3. \/ deliv' = [deliv EXCEPT ![d] = NextBatch(d)]
      \/ \E pc \in {"enqueue", "record"} :
           deliv'[d].pc = pc /\ deliv'[d].n = deliv[d].n
  BY <1>2 DEF FilterBatch, Delivery
<1>4. DeliveryOwned'
  <2>1. \A f \in Deliveries : f = d
    BY DEF OneActor
  <2>2. CASE deliv' = [deliv EXCEPT ![d] = NextBatch(d)]
    BY <1>1, <1>2, <2>1, <2>2, NextBatchOwns DEF DeliveryOwned
  <2>3. CASE \E pc \in {"enqueue", "record"} : deliv'[d].pc = pc /\ deliv'[d].n = deliv[d].n
    BY <1>1, <1>2, <2>1, <2>3 DEF DeliveryOwned, OwnInv
  <2> QED BY <1>3, <2>2, <2>3
<1> QED BY <1>1, <1>4, Frames, QuietRows DEF Kept, OwnInv
\* The caller sees a request.
LEMMA RequestMade ==
  ASSUME IInv, OwnInv, embedded' = embedded, NEW b \in Batches, NEW chunks \in SUBSET Chunks,
         chunks # {}, rows[b].status = "absent",
         rows' = [rows EXCEPT ![b] = MarkPendingSubmission(NewBatchJobProgress, chunks)]
  PROVE  SettledKept /\ PromiseKept
<1> DEFINE e == MarkPendingSubmission(NewBatchJobProgress, chunks)
           stage == [c \in Batches |-> Stage(rows[c].status)]
           want == [c \in Batches |-> rows[c].payload]
           count == [c \in Batches |-> IF rows[c].status = "completed" THEN rows[c].done ELSE 0]
<1>1. e.status = "pending_submission" /\ e.payload = chunks
  BY DEF MarkPendingSubmission, NewBatchJobProgress
<1>2. \A c \in Batches : rows'[c] = IF c = b THEN e ELSE rows[c]
  BY DEF IInv, TypeOK
<1> HIDE DEF e
<1>3. stage' = [stage EXCEPT ![b] = "queued"]
  <2>1. \A c \in Batches : stage'[c] = IF c = b THEN "queued" ELSE stage[c]
    BY <1>1, <1>2, Stages
  <2> QED BY <2>1
<1>4. want' = [want EXCEPT ![b] = chunks]
  <2>1. \A c \in Batches : want'[c] = IF c = b THEN chunks ELSE want[c]
    BY <1>1, <1>2
  <2> QED BY <2>1
<1>5. count' = count
  <2>1. \A c \in Batches : count'[c] = count[c]
    BY <1>1, <1>2
  <2> QED BY <2>1
<1>6. stage[b] = "none"
  BY Stages
<1>7. Promise!Request(b, chunks)
  BY <1>3, <1>4, <1>5, <1>6 DEF Promise!Request
<1> QED BY <1>2, <1>7 DEF SettledKept, PromiseKept, Promise!Next

\* It stays at its batch, whose row it could not write or has not written yet.
LEMMA DeliveryStays ==
  ASSUME IInv, OwnInv, OneActor, NEW d \in Deliveries, rows' = rows,
         deliv[d].pc \in {"filter", "enqueue"},
         deliv' = [deliv EXCEPT ![d].pc = "record"]
  PROVE  DeliveryOwned'
<1>1. \A f \in Deliveries : f = d
  BY DEF OneActor
<1>2. deliv'[d].pc = "record" /\ deliv'[d].n = deliv[d].n
  BY DEF IInv, TypeOK, Delivery
<1> QED BY <1>1, <1>2 DEF DeliveryOwned, OwnInv

LEMMA EnqueueBatchKept ==
  ASSUME IInv, OwnInv, OneActor, NEW d \in Deliveries, EnqueueBatch(d)
  PROVE  Kept
<1>1. UNCHANGED <<embedded, files, jobs, phase, sub, poll, retry, recov, failing>>
  BY DEF EnqueueBatch, geminiVars, submitVars, recoverVars
<1>2. deliv[d].pc = "enqueue" /\ deliv[d] \in Delivery /\ deliv[d].n \in Batches
  BY DEF EnqueueBatch, IInv, TypeOK, Delivery
<1> DEFINE b == deliv[d].n
           e == MarkPendingSubmission(NewBatchJobProgress, deliv[d].need)
<1>3. CASE Save(b, e) /\ deliv' = [deliv EXCEPT ![d] = NextBatch(d)]
  <2>1. rows' = [rows EXCEPT ![b] = e]
    BY <1>3 DEF Save
  <2>2. rows[b].status = "absent"
    BY <1>2, CountsAssumption DEF OwnInv, DeliveryOwned, Batches
  <2>3. e.status = "pending_submission" /\ ~e.file
    BY DEF MarkPendingSubmission, NewBatchJobProgress
  <2>4. deliv[d].need # {} /\ deliv[d].need \in SUBSET Chunks
    BY <1>2 DEF IInv, DeliveryOK, Delivery
  <2>5. SettledKept /\ PromiseKept
    BY <1>1, <1>2, <2>1, <2>2, <2>4, RequestMade
  <2> HIDE DEF e
  <2>6. OwnInv'
    BY <1>1, <1>2, <1>3, <2>1, <2>2, <2>3, NextBatchOwns, RowAppears DEF IInv
  <2> QED BY <2>5, <2>6 DEF Kept
<1>4. CASE deliv' = [deliv EXCEPT ![d].pc = "record"] /\ UNCHANGED tableVars
  <2>1. rows' = rows
    BY <1>4 DEF tableVars
  <2>2. DeliveryOwned'
    BY <1>2, <1>4, <2>1, DeliveryStays
  <2> QED BY <1>1, <2>1, <2>2, Frames, QuietRows DEF Kept, OwnInv
<1> QED BY <1>3, <1>4 DEF EnqueueBatch

LEMMA RecordFailedBatchKept ==
  ASSUME IInv, OwnInv, OneActor, NEW d \in Deliveries, RecordFailedBatch(d)
  PROVE  Kept
<1>1. UNCHANGED <<embedded, files, jobs, phase, sub, poll, retry, recov, failing>>
  BY DEF RecordFailedBatch, geminiVars, submitVars, recoverVars
<1>2. deliv[d].pc = "record" /\ deliv[d] \in Delivery /\ deliv[d].n \in Batches
  BY DEF RecordFailedBatch, IInv, TypeOK, Delivery
<1> DEFINE b == deliv[d].n
           e == MarkFailed(NewBatchJobProgress)
<1>3. PICK x : /\ deliv' = [deliv EXCEPT ![d] = x]
               /\ x.pc \in {"done", "sequential"}
               /\ x.pc = "sequential" => FallbackToSequential
  <2>1. CASE deliv' = [deliv EXCEPT ![d].pc = "done", ![d].need = {}]
    <3>1. deliv' = [deliv EXCEPT ![d] = [deliv[d] EXCEPT !.pc = "done", !.need = {}]]
      BY <2>1 DEF IInv, TypeOK
    <3>2. [deliv[d] EXCEPT !.pc = "done", !.need = {}].pc = "done"
      BY <1>2 DEF Delivery
    <3> QED BY <3>1, <3>2
  <2>2. CASE /\ FallbackToSequential
             /\ deliv' = [deliv EXCEPT ![d].pc = "sequential", ![d].need = Remaining(d)]
    <3>1. deliv' = [deliv EXCEPT ![d] =
                      [deliv[d] EXCEPT !.pc = "sequential", !.need = Remaining(d)]]
      BY <2>2 DEF IInv, TypeOK
    <3>2. [deliv[d] EXCEPT !.pc = "sequential", !.need = Remaining(d)].pc = "sequential"
      BY <1>2 DEF Delivery
    <3> QED BY <2>2, <3>1, <3>2
  <2> QED BY <2>1, <2>2 DEF RecordFailedBatch
<1>4. rows[b].status = "absent"
  BY <1>2, CountsAssumption DEF OwnInv, DeliveryOwned, Batches
<1>5. e.status = "failed" /\ ~e.file /\ e.payload = {}
  BY DEF MarkFailed, NewBatchJobProgress
<1>6. CASE Save(b, e)
  <2>1. rows' = [rows EXCEPT ![b] = e]
    BY <1>6 DEF Save
  <2>2. rows[b].payload = {}
    BY <1>2, <1>4 DEF OwnInv, RowsOwned
  <2> HIDE DEF e
  <2>3. OwnInv'
    BY <1>1, <1>2, <1>3, <1>4, <1>5, <2>1, RowAppears DEF IInv
  <2>4. SettledKept /\ PromiseKept
    BY <1>1, <1>2, <1>4, <1>5, <2>1, <2>2, StageMoves DEF IInv
  <2> QED BY <2>3, <2>4 DEF Kept
<1>7. CASE UNCHANGED tableVars
  <2>1. rows' = rows
    BY <1>7 DEF tableVars
  <2>2. DeliveryOwned'
    <3>1. \A f \in Deliveries : deliv'[f] = x
      BY <1>3 DEF OneActor, IInv, TypeOK
    <3> QED BY <1>3, <3>1 DEF DeliveryOwned
  <2> QED BY <1>1, <2>1, <2>2, Frames, QuietRows DEF Kept, OwnInv
<1> QED BY <1>6, <1>7 DEF RecordFailedBatch, SaveOrLose

LEMMA EmbedSequentiallyKept ==
  ASSUME IInv, OwnInv, OneActor, NEW d \in Deliveries, EmbedSequentially(d)
  PROVE  Kept
<1>1. /\ UNCHANGED <<rows, files, jobs, phase, sub, poll, retry, recov, failing>>
      /\ deliv[d].pc = "sequential"
  BY DEF EmbedSequentially, tableVars, geminiVars, submitVars, recoverVars
<1>2. FallbackToSequential
  BY <1>1 DEF OwnInv, DeliveryOwned
<1>3. DeliveryOwned'
  <2>1. \A f \in Deliveries : f = d
    BY DEF OneActor
  <2>2. CASE deliv' = deliv
    BY <1>1, <2>2, Frames
  <2>3. CASE deliv' = [deliv EXCEPT ![d].pc = "done", ![d].need = {}]
    <3>1. deliv'[d].pc = "done"
      BY <2>3 DEF IInv, TypeOK, Delivery
    <3> QED BY <2>1, <3>1 DEF DeliveryOwned
  <2> QED BY <2>2, <2>3 DEF EmbedSequentially
<1>4. SettledKept /\ PromiseKept
  BY <1>1, <1>2 DEF SettledKept, PromiseKept
<1> QED BY <1>1, <1>3, <1>4, Frames DEF Kept, OwnInv
-----------------------------------------------------------------------------
(* The submitter.                                                          *)

LEMMA TickKept ==
  ASSUME IInv, OwnInv, NEW w \in Workers, Tick(w) \/ BackoffEnds(w)
  PROVE  Kept
<1>1. UNCHANGED <<rows, embedded, files, jobs, phase, sub, poll, retry, recov, failing, deliv>>
  BY DEF Tick, BackoffEnds, tableVars, geminiVars, recoverVars
<1> QED BY <1>1, Frames, QuietRows DEF Kept, OwnInv

\* The one slot gets the submission g; nothing else changes, unless a file or jobs do.
LEMMA SlotGets ==
  ASSUME IInv, OwnInv, OneActor, NEW s \in Slots, NEW g,
         sub' = [sub EXCEPT ![s] = g],
         g.pc # "idle" =>
           /\ rows'[g.batch].status = "pending_submission"
           /\ g.ent.payload = rows'[g.batch].payload
           /\ g.ent.file \/ g.pc \in {"create", "saveFile", "saveJob"} =>
                files'[g.batch] = g.ent.payload
           /\ g.pc = "save" => g.ent.status \in {"pending_submission", "failed"}
  PROVE  SubOwned' /\ sub'[s] = g /\ \A t \in Slots : t = s
<1>1. \A t \in Slots : t = s
  BY OnlySlot
<1>2. sub'[s] = g
  BY DEF IInv, TypeOK
<1> QED BY <1>1, <1>2 DEF SubOwned

LEMMA SubmitReadKept ==
  ASSUME IInv, OwnInv, OneActor, NEW s \in Slots, SubmitRead(s)
  PROVE  Kept
<1>1. /\ UNCHANGED <<rows, embedded, files, jobs, phase, poll, retry, recov, failing, deliv>>
      /\ sub[s].pc = "idle"
  BY DEF SubmitRead, tableVars, geminiVars, recoverVars
<1>2. CASE UNCHANGED sub
  BY <1>1, <1>2, Frames, QuietRows DEF Kept, OwnInv
<1>3. ASSUME NEW b \in Batches, NextPendingSubmission(b),
             sub' = [sub EXCEPT ![s] = [pc |-> IF rows[b].file THEN "create" ELSE "upload",
                                        batch |-> b, ent |-> rows[b], job |-> NoJob]]
      PROVE  Kept
  <2>1. rows[b].status = "pending_submission"
    BY <1>3 DEF NextPendingSubmission, IsPendingSubmission
  <2>2. SubOwned'
    BY <1>1, <1>3, <2>1, SlotGets DEF OwnInv, RowsOwned
  <2>3. OnceOwned'
    <3>1. \A t \in Slots : t = s
      BY OnlySlot
    <3> QED BY <1>1, <3>1 DEF OwnInv, OnceOwned
  <2> QED BY <1>1, <2>2, <2>3, Frames, QuietRows DEF Kept, OwnInv
<1> QED BY <1>2, <1>3 DEF SubmitRead

\* What is known of a submission.
LEMMA Submitting ==
  ASSUME IInv, OwnInv, NEW s \in Slots, sub[s].pc # "idle"
  PROVE  /\ sub[s] \in Submission /\ sub[s].batch \in Batches /\ sub[s].ent \in Entity
         /\ sub[s].pc \in {"upload", "create", "saveFile", "saveJob"} =>
              sub[s].ent.status = "pending_submission"
         /\ rows[sub[s].batch].status = "pending_submission"
         /\ rows[sub[s].batch].gjob = NoJob
         /\ sub[s].ent.payload = rows[sub[s].batch].payload
         /\ sub[s].ent.file \/ sub[s].pc \in {"create", "saveFile", "saveJob"} =>
              files[sub[s].batch] = sub[s].ent.payload
         /\ sub[s].pc = "save" => sub[s].ent.status \in {"pending_submission", "failed"}
<1>1. sub[s] \in Submission /\ sub[s].batch \in Batches /\ sub[s].ent \in Entity
  BY DEF IInv, TypeOK, Submission
<1>2. sub[s].pc \in {"upload", "create", "saveFile", "saveJob"} =>
        sub[s].ent.status = "pending_submission"
  BY DEF IInv, SubmitterOK, SubmissionOK
<1>3. rows[sub[s].batch].status = "pending_submission"
  BY DEF OwnInv, SubOwned
<1>4. rows[sub[s].batch].gjob = NoJob
  BY <1>1, <1>3 DEF IInv, RowsOK, EntityOK
<1> QED BY <1>1, <1>2, <1>3, <1>4 DEF OwnInv, SubOwned

\* A submission goes on in its goroutine.
LEMMA SubmissionGoesOn ==
  ASSUME IInv, OwnInv, OneActor, NEW s \in Slots, NEW g,
         sub[s].pc \in {"upload", "create", "save"} \/ g.pc \in {"saveFile", "saveJob"} \/ MaxFaults # 0,
         sub[s].pc # "idle", sub' = [sub EXCEPT ![s] = g],
         UNCHANGED <<rows, embedded, files, jobs, phase, poll, retry, recov, failing, deliv>>,
         g.batch = sub[s].batch, g.job = sub[s].job, g.pc # "idle",
         g.ent.payload = sub[s].ent.payload, g.ent.file = sub[s].ent.file,
         g.pc \in {"create", "saveFile", "saveJob"} =>
           sub[s].pc \in {"create", "saveFile", "saveJob"},
         g.pc = "save" => g.ent.status \in {"pending_submission", "failed"}
  PROVE  Kept
<1>1. SubOwned' /\ sub'[s] = g /\ \A t \in Slots : t = s
  BY Submitting, SlotGets
<1>2. OnceOwned'
  BY <1>1 DEF OwnInv, OnceOwned
<1> QED BY <1>1, <1>2, Frames, QuietRows DEF Kept, OwnInv

LEMMA UploadFileKept ==
  ASSUME IInv, OwnInv, OneActor, NEW s \in Slots, UploadFile(s)
  PROVE  Kept
<1> DEFINE b == sub[s].batch
           g == [sub[s] EXCEPT !.pc = "create"]
<1>1. /\ UNCHANGED <<rows, embedded, jobs, phase, poll, retry, recov, failing, deliv>>
      /\ sub[s].pc = "upload"
  BY DEF UploadFile, tableVars, recoverVars
<1>2. b \in Batches /\ sub[s] \in Submission /\ rows[b].status = "pending_submission"
      /\ sub[s].ent.payload = rows[b].payload
  BY <1>1, Submitting
<1>3. UploadedContent(b, sub[s].ent) = rows[b].payload
  BY <1>2 DEF UploadedContent, OwnInv, RowsOwned
<1>4. files' = [files EXCEPT ![b] = rows[b].payload]
  BY <1>3 DEF UploadFile
<1>5. \A c \in Batches : files'[c] = IF c = b THEN rows[b].payload ELSE files[c]
  BY <1>4 DEF IInv, TypeOK
<1>6. sub' = [sub EXCEPT ![s] = g]
  BY DEF UploadFile
<1>7. g.pc = "create" /\ g.batch = b /\ g.ent = sub[s].ent
  BY <1>2 DEF Submission
<1> HIDE DEF g, b
<1>8. SubOwned' /\ sub'[s] = g /\ \A t \in Slots : t = s
  BY <1>1, <1>2, <1>5, <1>6, <1>7, SlotGets
<1>9. RowsOwned'
  BY <1>1, <1>5 DEF OwnInv, RowsOwned
<1>10. PollOwned'
  BY <1>1, <1>5 DEF OwnInv, PollOwned, RowsOwned
<1>11. OnceOwned'
  BY <1>1, <1>8 DEF OwnInv, OnceOwned
<1> QED BY <1>1, <1>8, <1>9, <1>10, <1>11, Frames, QuietRows DEF Kept, OwnInv

\* Gemini has a job of what the file holds.
LEMMA JobMade ==
  ASSUME IInv, OwnInv, NEW j \in JobIds, NEW b \in Batches, NewGeminiJob(j, b), rows' = rows,
         rows[b].status # "absent", files[b] = rows[b].payload
  PROVE  JobsOwned'
<1>1. \A i \in JobIds : jobs'[i] = IF i = j THEN [state |-> "pending", batch |-> b,
                                       payload |-> files[b], results |-> {}] ELSE jobs[i]
  BY DEF NewGeminiJob, IInv, TypeOK
<1> QED BY <1>1 DEF JobsOwned, OwnInv

LEMMA CreateAcceptedKept ==
  ASSUME IInv, OwnInv, OneActor, NEW s \in Slots, CreateAccepted(s)
  PROVE  Kept
<1> DEFINE b == sub[s].batch
<1>1. /\ UNCHANGED <<rows, embedded, files, phase, poll, retry, recov, failing, deliv>>
      /\ sub[s].pc = "create"
  BY DEF CreateAccepted, tableVars, recoverVars
<1>2. PICK j \in JobIds :
        /\ NewGeminiJob(j, b)
        /\ sub' = [sub EXCEPT ![s] =
                    [pc |-> IF sub[s].ent.file THEN "saveJob" ELSE "saveFile", batch |-> b,
                     ent |-> SetGeminiFileURI(sub[s].ent), job |-> j]]
  BY DEF CreateAccepted
<1> DEFINE g == [pc |-> IF sub[s].ent.file THEN "saveJob" ELSE "saveFile", batch |-> b,
                 ent |-> SetGeminiFileURI(sub[s].ent), job |-> j]
<1>3. /\ b \in Batches /\ rows[b].status = "pending_submission"
      /\ files[b] = rows[b].payload /\ sub[s].ent \in Entity /\ sub[s].ent.payload = rows[b].payload
  BY <1>1, Submitting
<1>4. g.pc \in {"saveFile", "saveJob"} /\ g.batch = b /\ g.job = j
      /\ g.ent.payload = rows[b].payload
  BY <1>3 DEF SetGeminiFileURI, Entity
<1>5. sub' = [sub EXCEPT ![s] = g]
  BY <1>2
<1> HIDE DEF g, b
<1>6. SubOwned' /\ sub'[s] = g /\ \A t \in Slots : t = s
  BY <1>1, <1>3, <1>4, <1>5, SlotGets
<1>7. JobsOwned'
  BY <1>1, <1>2, <1>3, JobMade
<1>8. OnceOwned'
  <2>1. \A i \in JobIds : i # j => jobs'[i] = jobs[i]
    BY <1>2 DEF NewGeminiJob, IInv, TypeOK
  <2>2. jobs'[j].batch = b
    BY <1>2 DEF NewGeminiJob, IInv, TypeOK
  <2> QED BY <1>1, <1>4, <1>6, <2>1, <2>2 DEF OwnInv, OnceOwned
<1> QED BY <1>1, <1>6, <1>7, <1>8, Frames, QuietRows DEF Kept, OwnInv
\* handleSubmissionFailure keeps what is asked for, and the file.
LEMMA AfterFailure ==
  ASSUME NEW e \in Entity, e.status = "pending_submission", NEW retryable \in BOOLEAN
  PROVE  LET f == AfterSubmissionFailure(e, retryable) IN
         /\ f.status \in {"pending_submission", "failed"}
         /\ f.payload = e.payload /\ f.file = e.file
BY DEF AfterSubmissionFailure, MarkSubmissionFailed, MarkFailed, Entity

LEMMA FailedCallGives ==
  ASSUME IInv, OwnInv, NEW s \in Slots, NEW retryable \in BOOLEAN, FailedCall(s, retryable)
  PROVE  /\ sub[s].pc \in {"upload", "create"}
         /\ \E g : /\ sub' = [sub EXCEPT ![s] = g]
                   /\ g.pc = "save" /\ g.batch = sub[s].batch /\ g.job = sub[s].job
                   /\ g.ent.payload = sub[s].ent.payload /\ g.ent.file = sub[s].ent.file
                   /\ g.ent.status \in {"pending_submission", "failed"}
<1> DEFINE f == AfterSubmissionFailure(sub[s].ent, retryable)
           g == [sub[s] EXCEPT !.pc = "save", !.ent = f]
<1>1. sub[s].pc \in {"upload", "create"} /\ sub' = [sub EXCEPT ![s] = g]
  BY DEF FailedCall, IInv, TypeOK
<1>2. sub[s] \in Submission /\ sub[s].ent \in Entity /\ sub[s].ent.status = "pending_submission"
  BY <1>1, Submitting
<1>3. /\ f.status \in {"pending_submission", "failed"}
      /\ f.payload = sub[s].ent.payload /\ f.file = sub[s].ent.file
  BY <1>2, AfterFailure
<1> HIDE DEF f
<1>4. g.pc = "save" /\ g.batch = sub[s].batch /\ g.job = sub[s].job /\ g.ent = f
  BY <1>2 DEF Submission
<1> QED BY <1>1, <1>3, <1>4

LEMMA CallRateLimitedKept ==
  ASSUME IInv, OwnInv, OneActor, NEW s \in Slots, CallRateLimited(s)
  PROVE  Kept
<1>1. UNCHANGED <<rows, embedded, files, jobs, phase, poll, retry, recov, failing, deliv>>
  BY DEF CallRateLimited, tableVars, geminiVars, recoverVars
<1>2. FailedCall(s, TRUE)
  BY DEF CallRateLimited
<1> QED BY <1>1, <1>2, FailedCallGives, SubmissionGoesOn

\* A call that fails counts as a fault.
LEMMA FaultsAllowed ==
  ASSUME IInv
  PROVE  Fault => MaxFaults # 0
BY BoundsAssumption DEF IInv, TypeOK, Fault

LEMMA CallRejectedKept ==
  ASSUME IInv, OwnInv, OneActor, NEW s \in Slots, CallRejected(s)
  PROVE  Kept
<1>1. UNCHANGED <<rows, embedded, files, phase, poll, retry, recov, failing, deliv>>
  BY DEF CallRejected, tableVars, recoverVars
<1>2. FailedCall(s, FALSE)
  BY DEF CallRejected
<1>3. CASE UNCHANGED jobs
  BY <1>1, <1>2, <1>3, FailedCallGives, SubmissionGoesOn
<1>4. CASE /\ sub[s].pc = "create" /\ Fault
           /\ \E j \in JobIds : NewGeminiJob(j, sub[s].batch)
  <2>1. PICK g : /\ sub' = [sub EXCEPT ![s] = g]
                 /\ g.pc = "save" /\ g.batch = sub[s].batch
                 /\ g.ent.payload = sub[s].ent.payload /\ g.ent.file = sub[s].ent.file
                 /\ g.ent.status \in {"pending_submission", "failed"}
    BY <1>2, FailedCallGives
  <2>2. SubOwned'
    BY <1>1, <1>4, <2>1, Submitting, SlotGets
  <2>3. JobsOwned'
    BY <1>1, <1>4, Submitting, JobMade
  <2>4. OnceOwned'
    BY <1>4, FaultsAllowed DEF OnceOwned
  <2> QED BY <1>1, <2>2, <2>3, <2>4, Frames, QuietRows DEF Kept, OwnInv
<1> QED BY <1>3, <1>4 DEF CallRejected

LEMMA SaveInvalidJobIDKept ==
  ASSUME IInv, OwnInv, OneActor, NEW s \in Slots, SaveInvalidJobID(s)
  PROVE  Kept
<1> DEFINE g == [sub[s] EXCEPT !.pc = "save", !.ent = MarkFailed(sub[s].ent)]
<1>1. /\ UNCHANGED <<rows, embedded, files, jobs, phase, poll, retry, recov, failing, deliv>>
      /\ sub[s].pc = "saveJob" /\ MaxFaults # 0
  BY FaultsAllowed DEF SaveInvalidJobID, tableVars, geminiVars, recoverVars
<1>2. sub' = [sub EXCEPT ![s] = g]
  BY DEF SaveInvalidJobID, IInv, TypeOK
<1>3. sub[s] \in Submission /\ sub[s].ent \in Entity
  BY <1>1, Submitting
<1>4. /\ g.pc = "save" /\ g.batch = sub[s].batch /\ g.job = sub[s].job
      /\ g.ent.payload = sub[s].ent.payload /\ g.ent.file = sub[s].ent.file
      /\ g.ent.status = "failed"
  BY <1>3 DEF Submission, MarkFailed, Entity
<1> HIDE DEF g
<1> QED BY <1>1, <1>2, <1>4, SubmissionGoesOn

\* The submitter writes the row it has in hand.
LEMMA SubmitterSaves ==
  ASSUME IInv, OwnInv, OneActor, NEW s \in Slots, sub[s].pc # "idle", NEW e, NEW g,
         rows' = [rows EXCEPT ![sub[s].batch] = e], sub' = [sub EXCEPT ![s] = g],
         UNCHANGED <<files, jobs, phase, poll, retry, recov, failing, deliv>>,
         e.payload = sub[s].ent.payload, e.file => sub[s].ent.file,
         \/ e.status \in {"pending_submission", "failed"}
         \/ e.status = "processing" /\ e.gjob # NoJob,
         g.pc = "idle" \/ (g = [sub[s] EXCEPT !.pc = "saveJob"] /\ sub[s].pc = "saveFile" /\ e = sub[s].ent),
         sub[s].pc = "saveJob" => e.gjob = sub[s].job,
         sub[s].pc = "saveFile" => g.pc # "idle"
  PROVE  OwnInv'
<1> DEFINE b == sub[s].batch
<1>1. /\ b \in Batches /\ sub[s] \in Submission /\ rows[b].status = "pending_submission"
      /\ rows[b].gjob = NoJob /\ sub[s].ent.payload = rows[b].payload
      /\ sub[s].ent.file => files[b] = sub[s].ent.payload
  BY Submitting
<1>2. \A c \in Batches : rows'[c] = IF c = b THEN e ELSE rows[c]
  BY DEF IInv, TypeOK
<1> HIDE DEF b
<1>3. RowsOwned' /\ JobsOwned' /\ DeliveryOwned' /\ PollOwned' /\ RetryOwned' /\ RecoverOwned'
  BY <1>1, RowMoves DEF b, IInv
<1>4. SubOwned' /\ sub'[s] = g /\ \A t \in Slots : t = s
  <2>1. g.pc # "idle" => /\ g.batch = b /\ g.ent = sub[s].ent /\ g.pc = "saveJob"
                         /\ sub[s].ent.status = "pending_submission"
                         /\ files[b] = sub[s].ent.payload
    BY <1>1, Submitting DEF Submission, b
  <2>2. g.pc # "idle" => rows'[g.batch] = sub[s].ent /\ files'[g.batch] = sub[s].ent.payload
    BY <1>1, <1>2, <2>1
  <2>3. g.pc # "idle" =>
          /\ rows'[g.batch].status = "pending_submission"
          /\ g.ent.payload = rows'[g.batch].payload
          /\ g.ent.file \/ g.pc \in {"create", "saveFile", "saveJob"} =>
               files'[g.batch] = g.ent.payload
          /\ g.pc = "save" => g.ent.status \in {"pending_submission", "failed"}
    BY <2>1, <2>2
  <2> QED BY <2>3, SlotGets
<1>5. OnceOwned'
  <2> SUFFICES ASSUME MaxFaults = 0 /\ MaxCrashes = 0,
                      NEW j \in JobIds, jobs[j].state # "unused"
               PROVE  \/ rows'[jobs[j].batch].gjob = j
                      \/ \E t \in Slots : /\ sub'[t].pc \in {"saveFile", "saveJob"}
                                          /\ sub'[t].batch = jobs[j].batch /\ sub'[t].job = j
    BY DEF OnceOwned
  <2>1. j # NoJob /\ jobs[j].batch \in Batches
    BY DEF JobIds, NoJob, IInv, TypeOK, Job
  <2>2. CASE jobs[j].batch # b
    BY <1>1, <1>2, <1>4, <2>1, <2>2 DEF OwnInv, OnceOwned, b
  <2>3. CASE jobs[j].batch = b
    <3>1. sub[s].pc \in {"saveFile", "saveJob"} /\ sub[s].batch = b /\ sub[s].job = j
      BY <1>1, <1>4, <2>1, <2>3 DEF OwnInv, OnceOwned
    <3>2. CASE sub[s].pc = "saveJob"
      BY <1>2, <1>1, <2>3, <3>1, <3>2
    <3>3. CASE sub[s].pc = "saveFile" /\ g.pc # "idle"
      BY <1>1, <1>4, <2>3, <3>1, <3>3 DEF Submission
    <3> QED BY <3>1, <3>2, <3>3
  <2> QED BY <2>2, <2>3
<1> QED BY <1>3, <1>4, <1>5 DEF OwnInv
LEMMA SaveFileURIKept ==
  ASSUME IInv, OwnInv, OneActor, NEW s \in Slots, SaveFileURI(s)
  PROVE  Kept
<1> DEFINE g == [sub[s] EXCEPT !.pc = "saveJob"]
           e == sub[s].ent
<1>1. /\ UNCHANGED <<embedded, files, jobs, phase, poll, retry, recov, failing, deliv>>
      /\ sub[s].pc = "saveFile"
  BY DEF SaveFileURI, geminiVars, recoverVars
<1>2. sub' = [sub EXCEPT ![s] = g]
  BY DEF SaveFileURI, IInv, TypeOK
<1>3. /\ sub[s] \in Submission /\ sub[s].batch \in Batches
      /\ e.status = "pending_submission" /\ rows[sub[s].batch].status = "pending_submission"
      /\ e.payload = rows[sub[s].batch].payload
  BY <1>1, Submitting
<1>4. CASE Save(sub[s].batch, e)
  <2>1. rows' = [rows EXCEPT ![sub[s].batch] = e]
    BY <1>4 DEF Save
  <2>2. g.pc = "saveJob"
    BY <1>3 DEF Submission
  <2>3. OwnInv'
    <3> HIDE DEF e
    <3> QED BY <1>1, <1>2, <1>3, <2>1, <2>2, SubmitterSaves DEF e
  <2>4. SettledKept /\ PromiseKept
    BY <1>1, <1>3, <2>1, QuietRow DEF IInv
  <2> QED BY <2>3, <2>4 DEF Kept
<1>5. CASE UNCHANGED tableVars
  <2>1. g.pc = "saveJob" /\ g.batch = sub[s].batch /\ g.job = sub[s].job /\ g.ent = e
    BY <1>3 DEF Submission
  <2>2. rows' = rows
    BY <1>5 DEF tableVars
  <2> HIDE DEF g
  <2> QED BY <1>1, <1>2, <2>1, <2>2, SubmissionGoesOn
<1> QED BY <1>4, <1>5 DEF SaveFileURI, SaveOrLose

\* A Save at the end of a submission fails, or there was nothing to remember.
LEMMA SubmissionEnds ==
  ASSUME IInv, OwnInv, OneActor, NEW s \in Slots, sub' = [sub EXCEPT ![s] = IdleSub],
         UNCHANGED <<rows, embedded, files, jobs, phase, poll, retry, recov, failing, deliv>>,
         MaxFaults # 0
  PROVE  Kept
<1>1. SubOwned'
  BY SlotGets DEF IdleSub
<1>2. OnceOwned'
  BY DEF OnceOwned
<1> QED BY <1>1, <1>2, Frames, QuietRows DEF Kept, OwnInv

LEMMA SaveSubmittedKept ==
  ASSUME IInv, OwnInv, OneActor, NEW s \in Slots, SaveSubmitted(s)
  PROVE  Kept
<1> DEFINE e == MarkSubmittedToGemini(sub[s].ent, sub[s].job)
<1>1. /\ UNCHANGED <<embedded, files, jobs, phase, poll, retry, recov, failing, deliv>>
      /\ sub[s].pc = "saveJob" /\ sub' = [sub EXCEPT ![s] = IdleSub]
  BY DEF SaveSubmitted, geminiVars, recoverVars
<1>2. /\ sub[s].batch \in Batches /\ sub[s].ent \in Entity
      /\ rows[sub[s].batch].status = "pending_submission"
      /\ sub[s].ent.payload = rows[sub[s].batch].payload
  BY <1>1, Submitting
<1>3. sub[s].job # NoJob
  BY <1>1 DEF IInv, SubmitterOK, SubmissionOK
<1>4. /\ e.status = "processing" /\ e.gjob = sub[s].job
      /\ e.payload = sub[s].ent.payload /\ e.file = sub[s].ent.file
  BY <1>2 DEF MarkSubmittedToGemini, Entity
<1>5. CASE Save(sub[s].batch, e)
  <2>1. rows' = [rows EXCEPT ![sub[s].batch] = e]
    BY <1>5 DEF Save
  <2>2. IdleSub.pc = "idle"
    BY DEF IdleSub
  <2> HIDE DEF e
  <2>3. OwnInv'
    BY <1>1, <1>3, <1>4, <2>1, <2>2, SubmitterSaves
  <2>4. SettledKept /\ PromiseKept
    BY <1>1, <1>2, <1>4, <2>1, StageMoves DEF IInv
  <2> QED BY <2>3, <2>4 DEF Kept
<1>6. CASE Fault /\ UNCHANGED tableVars
  BY <1>1, <1>6, FaultsAllowed, SubmissionEnds DEF tableVars
<1> QED BY <1>5, <1>6 DEF SaveSubmitted, SaveOrLose

LEMMA SaveSubmissionFailureKept ==
  ASSUME IInv, OwnInv, OneActor, NEW s \in Slots, SaveSubmissionFailure(s)
  PROVE  Kept
<1> DEFINE e == sub[s].ent
<1>1. /\ UNCHANGED <<embedded, files, jobs, phase, poll, retry, recov, failing, deliv>>
      /\ sub[s].pc = "save" /\ sub' = [sub EXCEPT ![s] = IdleSub]
  BY DEF SaveSubmissionFailure, geminiVars, recoverVars
<1>2. /\ sub[s].batch \in Batches /\ e \in Entity
      /\ rows[sub[s].batch].status = "pending_submission"
      /\ e.payload = rows[sub[s].batch].payload
      /\ e.status \in {"pending_submission", "failed"}
  BY <1>1, Submitting
<1>3. CASE Save(sub[s].batch, e)
  <2>1. rows' = [rows EXCEPT ![sub[s].batch] = e]
    BY <1>3 DEF Save
  <2>2. IdleSub.pc = "idle"
    BY DEF IdleSub
  <2>3. OwnInv'
    BY <1>1, <1>2, <2>1, <2>2, SubmitterSaves
  <2>4. SettledKept /\ PromiseKept
    BY <1>1, <1>2, <2>1, StageMoves, QuietRow DEF IInv
  <2> QED BY <2>3, <2>4 DEF Kept
<1>4. CASE Fault /\ UNCHANGED tableVars
  BY <1>1, <1>4, FaultsAllowed, SubmissionEnds DEF tableVars
<1> QED BY <1>3, <1>4 DEF SaveSubmissionFailure, SaveOrLose

LEMMA BecomesDueKept ==
  ASSUME IInv, OwnInv, NEW b \in Batches, BecomesDue(b)
  PROVE  Kept
<1> DEFINE e == [rows[b] EXCEPT !.due = TRUE]
<1>1. UNCHANGED <<embedded, files, jobs, phase, sub, poll, retry, recov, failing, deliv>>
      /\ rows[b].status \in {"pending_submission", "retry_scheduled"}
  BY DEF BecomesDue, geminiVars, submitVars, recoverVars
<1>2. rows' = [rows EXCEPT ![b] = e] /\ rows[b] \in Entity
  BY DEF BecomesDue, IInv, TypeOK
<1>3. /\ e.status = rows[b].status /\ e.payload = rows[b].payload
      /\ e.gjob = rows[b].gjob /\ e.file = rows[b].file
  BY <1>2 DEF Entity
<1> HIDE DEF e
<1>4. \A c \in Batches : rows'[c] = IF c = b THEN e ELSE rows[c]
  BY <1>2 DEF IInv, TypeOK
<1>5. RowsOwned' /\ JobsOwned' /\ DeliveryOwned' /\ PollOwned' /\ RecoverOwned' /\ OnceOwned'
  <2>1. e.file => files[b] = e.payload
    BY <1>3 DEF OwnInv, RowsOwned
  <2>2. e.status \in {"processing", "retry_scheduled"} => e.gjob # NoJob
    BY <1>3 DEF OwnInv, RowsOwned
  <2> QED BY <1>1, <1>2, <1>3, <2>1, <2>2, RowMoves DEF IInv
<1>6. SubOwned'
  <2>1. \A s \in Slots : sub[s].batch \in Batches
    BY DEF IInv, TypeOK, Submission
  <2> QED BY <1>1, <1>3, <1>4, <2>1 DEF OwnInv, SubOwned
<1>7. RetryOwned'
  <2>1. \A w \in Workers : retry[w] # 0 => retry[w] \in Batches
    BY RowNumber DEF IInv, TypeOK
  <2> QED BY <1>1, <1>3, <1>4, <2>1 DEF OwnInv, RetryOwned
<1>8. SettledKept /\ PromiseKept
  BY <1>1, <1>2, <1>3, QuietRow DEF IInv
<1> QED BY <1>5, <1>6, <1>7, <1>8 DEF Kept, OwnInv

-----------------------------------------------------------------------------
(* The poller.                                                             *)

LEMMA PollReadKept ==
  ASSUME IInv, OwnInv, NEW w \in Workers, PollRead(w)
  PROVE  Kept
<1>1. /\ UNCHANGED <<rows, embedded, files, jobs, phase, sub, retry, recov, failing, deliv>>
      /\ phase[w] = "running"
  BY DEF PollRead, tableVars, geminiVars, submitVars, recoverVars
<1>2. \A v \in Workers : v # w => poll'[v] = poll[v]
  BY DEF PollRead, IInv, TypeOK
<1>3. \A b \in Batches : poll'[w][b].pc # "idle" =>
        IsPendingGemini(rows[b]) /\ poll'[w][b] = [pc |-> "polled", ent |-> rows[b]]
  <2>1. poll'[w] = [b \in Batches |-> IF IsPendingGemini(rows[b])
                                      THEN [pc |-> "polled", ent |-> rows[b]] ELSE IdlePoll]
    BY DEF PollRead, IInv, TypeOK
  <2> QED BY <2>1 DEF IdlePoll
<1>4. PollOwned'
  <2> SUFFICES ASSUME NEW v \in Workers, NEW b \in Batches, poll'[v][b].pc # "idle"
               PROVE  /\ phase[v] = "running" /\ rows[b].status = "processing"
                      /\ poll'[v][b].ent.payload = rows[b].payload
                      /\ poll'[v][b].ent.gjob = rows[b].gjob
                      /\ poll'[v][b].ent.file => files[b] = rows[b].payload
                      /\ poll'[v][b].pc = "complete" => poll'[v][b].ent.status = "completed"
                      /\ poll'[v][b].pc = "save" =>
                           poll'[v][b].ent.status \in {"failed", "retry_scheduled"}
    BY <1>1 DEF PollOwned
  <2>1. CASE v = w
    <3>1. IsPendingGemini(rows[b]) /\ poll'[v][b] = [pc |-> "polled", ent |-> rows[b]]
      BY <1>3, <2>1
    <3>2. poll'[v][b].pc = "polled" /\ poll'[v][b].ent = rows[b]
      BY <3>1
    <3> QED BY <1>1, <2>1, <3>1, <3>2 DEF IsPendingGemini, OwnInv, RowsOwned
  <2>2. CASE v # w
    BY <1>2, <2>2 DEF OwnInv, PollOwned
  <2> QED BY <2>1, <2>2
<1> QED BY <1>1, <1>4, Frames, QuietRows DEF Kept, OwnInv

\* The goroutine of a polled batch goes on with g; its entity keeps to the row.
LEMMA PollGets ==
  ASSUME IInv, OwnInv, NEW w \in Workers, NEW b \in Batches, NEW g,
         poll' = [poll EXCEPT ![w][b] = g], UNCHANGED <<rows, files, phase>>,
         g.pc = "idle" \/ poll[w][b].pc # "idle",
         g.pc # "idle" =>
           /\ g.ent.payload = poll[w][b].ent.payload /\ g.ent.gjob = poll[w][b].ent.gjob
           /\ g.ent.file = poll[w][b].ent.file
           /\ g.pc = "complete" => g.ent.status = "completed"
           /\ g.pc = "save" => g.ent.status \in {"failed", "retry_scheduled"}
  PROVE  PollOwned'
<1>1. \A v \in Workers, c \in Batches :
        poll'[v][c] = IF v = w /\ c = b THEN g ELSE poll[v][c]
  BY DEF IInv, TypeOK
<1> QED BY <1>1 DEF OwnInv, PollOwned

LEMMA Polled ==
  ASSUME IInv, OwnInv, NEW w \in Workers, NEW b \in Batches, poll[w][b].pc # "idle"
  PROVE  /\ poll[w][b] \in Polling /\ poll[w][b].ent \in Entity
         /\ phase[w] = "running" /\ rows[b].status = "processing" /\ rows[b].gjob # NoJob
         /\ poll[w][b].ent.payload = rows[b].payload /\ poll[w][b].ent.gjob = rows[b].gjob
         /\ poll[w][b].ent.file => files[b] = rows[b].payload
         /\ poll[w][b].pc = "complete" => poll[w][b].ent.status = "completed"
         /\ poll[w][b].pc = "save" => poll[w][b].ent.status \in {"failed", "retry_scheduled"}
<1>1. poll[w][b] \in Polling /\ poll[w][b].ent \in Entity
  BY PolledFacts
<1>2. rows[b].status = "processing"
  BY DEF OwnInv, PollOwned
<1>3. rows[b].gjob # NoJob
  BY <1>2 DEF OwnInv, RowsOwned
<1> QED BY <1>1, <1>2, <1>3 DEF OwnInv, PollOwned

LEMMA PollSkipKept ==
  ASSUME IInv, OwnInv, NEW w \in Workers, NEW b \in Batches, PollSkip(w, b)
  PROVE  Kept
<1>1. UNCHANGED <<rows, embedded, files, jobs, phase, sub, retry, recov, failing, deliv>>
  BY DEF PollSkip, tableVars, geminiVars, submitVars, recoverVars
<1>2. PollOwned'
  BY <1>1, PollGets DEF PollSkip, IdlePoll
<1> QED BY <1>1, <1>2, Frames, QuietRows DEF Kept, OwnInv

LEMMA PollCompletedKept ==
  ASSUME IInv, OwnInv, NEW w \in Workers, NEW b \in Batches, PollCompleted(w, b)
  PROVE  Kept
<1> DEFINE g == [poll[w][b] EXCEPT !.pc = "results"]
<1>1. /\ UNCHANGED <<rows, embedded, files, jobs, phase, sub, retry, recov, failing, deliv>>
      /\ poll[w][b].pc = "polled" /\ poll' = [poll EXCEPT ![w][b] = g]
  BY DEF PollCompleted, tableVars, geminiVars, submitVars, recoverVars
<1>2. g.pc = "results" /\ g.ent = poll[w][b].ent
  BY PolledFacts DEF Polling
<1> HIDE DEF g
<1>3. PollOwned'
  BY <1>1, <1>2, PollGets
<1> QED BY <1>1, <1>3, Frames, QuietRows DEF Kept, OwnInv

LEMMA PollFailedKept ==
  ASSUME IInv, OwnInv, NEW w \in Workers, NEW b \in Batches, PollFailed(w, b)
  PROVE  Kept
<1> DEFINE e == AfterJobFailure(poll[w][b].ent)
           g == [poll[w][b] EXCEPT !.pc = "save", !.ent = e]
<1>1. /\ UNCHANGED <<rows, embedded, files, jobs, phase, sub, retry, recov, failing, deliv>>
      /\ poll[w][b].pc = "polled" /\ poll' = [poll EXCEPT ![w][b] = g]
  BY DEF PollFailed, tableVars, geminiVars, submitVars, recoverVars
<1>2. /\ e.payload = poll[w][b].ent.payload /\ e.gjob = poll[w][b].ent.gjob
      /\ e.file = poll[w][b].ent.file /\ e.status \in {"failed", "retry_scheduled"}
  BY PolledFacts DEF AfterJobFailure, ScheduleRetry, MarkFailed, Entity
<1> HIDE DEF e
<1>3. g.pc = "save" /\ g.ent = e
  BY PolledFacts DEF Polling
<1> HIDE DEF g
<1>4. PollOwned'
  BY <1>1, <1>2, <1>3, PollGets
<1> QED BY <1>1, <1>4, Frames, QuietRows DEF Kept, OwnInv

\* The deferred MarkFailed of processBatchResults.
LEMMA GivesUpKept ==
  ASSUME IInv, OwnInv, NEW w \in Workers, NEW b \in Batches, poll[w][b].pc # "idle", NEW g,
         UNCHANGED <<rows, embedded, files, jobs, phase, sub, retry, recov, failing, deliv>>,
         poll' = [poll EXCEPT ![w][b] = g], g.pc = "save", g.ent = MarkFailed(poll[w][b].ent)
  PROVE  Kept
<1>1. /\ g.ent.payload = poll[w][b].ent.payload /\ g.ent.gjob = poll[w][b].ent.gjob
      /\ g.ent.file = poll[w][b].ent.file /\ g.ent.status = "failed"
  BY PolledFacts DEF MarkFailed, Entity
<1>2. PollOwned'
  BY <1>1, PollGets
<1> QED BY <1>2, Frames, QuietRows DEF Kept, OwnInv

LEMMA GivesUp ==
  ASSUME IInv, NEW w \in Workers, NEW b \in Batches,
         poll' = [poll EXCEPT ![w][b].pc = "save", ![w][b].ent = MarkFailed(@)]
  PROVE  \E g : /\ poll' = [poll EXCEPT ![w][b] = g]
                /\ g.pc = "save" /\ g.ent = MarkFailed(poll[w][b].ent)
<1> DEFINE e == MarkFailed(poll[w][b].ent)
           g == [poll[w][b] EXCEPT !.pc = "save", !.ent = e]
<1>1. poll' = [poll EXCEPT ![w][b] = g]
  OBVIOUS
<1> HIDE DEF e
<1>2. g.pc = "save" /\ g.ent = e
  BY PolledFacts DEF Polling
<1> HIDE DEF g
<1> QED BY <1>1, <1>2 DEF e

LEMMA ResultsFailKept ==
  ASSUME IInv, OwnInv, NEW w \in Workers, NEW b \in Batches, ResultsFail(w, b)
  PROVE  Kept
<1>1. /\ UNCHANGED <<rows, embedded, files, jobs, phase, sub, retry, recov, failing, deliv>>
      /\ poll[w][b].pc = "results"
  BY DEF ResultsFail, tableVars, geminiVars, submitVars, recoverVars
<1>2. \E g : /\ poll' = [poll EXCEPT ![w][b] = g]
             /\ g.pc = "save" /\ g.ent = MarkFailed(poll[w][b].ent)
  BY GivesUp DEF ResultsFail
<1> QED BY <1>1, <1>2, GivesUpKept

LEMMA StoreResultsKept ==
  ASSUME IInv, OwnInv, NEW w \in Workers, NEW b \in Batches, StoreResults(w, b)
  PROVE  Kept
<1> DEFINE results == PolledJob(w, b).results
           e == MarkCompleted(poll[w][b].ent, Cardinality(results))
           g == [poll[w][b] EXCEPT !.pc = "complete", !.ent = e]
<1>1. /\ UNCHANGED <<rows, files, jobs, phase, sub, retry, recov, failing, deliv>>
      /\ poll[w][b].pc = "results" /\ poll' = [poll EXCEPT ![w][b] = g]
      /\ embedded' = embedded \cup results
  BY DEF StoreResults, tableVars, geminiVars, submitVars, recoverVars
<1>2. /\ e.payload = poll[w][b].ent.payload /\ e.gjob = poll[w][b].ent.gjob
      /\ e.file = poll[w][b].ent.file /\ e.status = "completed"
  BY PolledFacts DEF MarkCompleted, Entity
<1>3. results \subseteq rows[b].payload /\ rows[b].status = "processing"
  <2> DEFINE j == poll[w][b].ent.gjob
  <2>1. j \in JobIds /\ jobs[j].batch = b /\ jobs[j].state # "unused"
    BY <1>1, PolledFacts DEF EntityOK
  <2>2. jobs[j].results \subseteq rows[b].payload
    BY <2>1 DEF OwnInv, JobsOwned
  <2> QED BY <1>1, <2>2, Polled DEF PolledJob
<1>4. results \in SUBSET Chunks
  BY <1>3 DEF IInv, TypeOK, Entity
<1>5. g.pc = "complete" /\ g.ent = e
  <2> HIDE DEF e
  <2> QED BY PolledFacts DEF Polling
<1> HIDE DEF e, results
<1>6. PollOwned'
  <2> HIDE DEF g
  <2> QED BY <1>1, <1>2, <1>5, PollGets
<1>7. SettledKept
  BY <1>1 DEF SettledKept
<1>8. PromiseKept
  <2>1. Stage(rows[b].status) = "inflight"
    BY <1>3, Stages
  <2>2. Promise!Store(b, results)
    BY <1>1, <1>3, <2>1 DEF Promise!Store
  <2> QED BY <1>4, <2>2 DEF PromiseKept, Promise!Next
<1> QED BY <1>1, <1>6, <1>7, <1>8, Frames DEF Kept, OwnInv

\* The goroutine of a polled batch ends with a write to its row.
LEMMA PollerSaves ==
  ASSUME IInv, OwnInv, OneActor, NEW w \in Workers, NEW b \in Batches, poll[w][b].pc # "idle",
         NEW e, rows' = [rows EXCEPT ![b] = e], poll' = [poll EXCEPT ![w][b] = IdlePoll],
         UNCHANGED <<files, jobs, phase, sub, retry, recov, failing, deliv>>,
         e.status \in {"completed", "failed", "retry_scheduled"},
         e.payload = rows[b].payload, e.gjob = rows[b].gjob,
         e.file => files[b] = rows[b].payload
  PROVE  OwnInv'
<1>1. \A c \in Batches : rows'[c] = IF c = b THEN e ELSE rows[c]
  BY DEF IInv, TypeOK
<1>2. phase[w] = "running" /\ rows[b].status = "processing" /\ rows[b].gjob # NoJob
  BY Polled
<1>3. /\ RowsOwned' /\ JobsOwned' /\ DeliveryOwned' /\ SubOwned' /\ RetryOwned' /\ OnceOwned'
  BY <1>2, RowMoves DEF IInv
<1>4. \A v \in Workers : v = w
  BY DEF OneActor
<1>5. PollOwned'
  <2>1. \A c \in Batches : poll'[w][c] = IF c = b THEN IdlePoll ELSE poll[w][c]
    BY DEF IInv, TypeOK
  <2> QED BY <1>1, <1>4, <2>1 DEF OwnInv, PollOwned, IdlePoll
<1>6. RecoverOwned'
  BY <1>2, <1>4 DEF OwnInv, RecoverOwned
<1> QED BY <1>3, <1>5, <1>6 DEF OwnInv

LEMMA PollerLeaves ==
  ASSUME IInv, OwnInv, NEW w \in Workers, NEW b \in Batches,
         poll' = [poll EXCEPT ![w][b] = IdlePoll],
         UNCHANGED <<rows, embedded, files, jobs, phase, sub, retry, recov, failing, deliv>>
  PROVE  Kept
<1>1. PollOwned'
  BY PollGets DEF IdlePoll
<1> QED BY <1>1, Frames, QuietRows DEF Kept, OwnInv
\* BatchPromise counts as FiniteSets does.
LEMMA SameCardinality ==
  \A S : Promise!Cardinality(S) = Cardinality(S)
BY DEF Promise!Cardinality, Cardinality

LEMMA CompletedIsFinished ==
  ASSUME IInv, OwnInv, NEW w \in Workers, NEW b \in Batches, poll[w][b].pc = "complete",
         embedded' = embedded, rows' = [rows EXCEPT ![b] = poll[w][b].ent]
  PROVE  SettledKept /\ PromiseKept
<1> DEFINE e == poll[w][b].ent
           got == jobs[e.gjob].results
           stage == [c \in Batches |-> Stage(rows[c].status)]
           want == [c \in Batches |-> rows[c].payload]
           count == [c \in Batches |-> IF rows[c].status = "completed" THEN rows[c].done ELSE 0]
<1>1. /\ e \in Entity /\ e.status = "completed" /\ e.payload = rows[b].payload
      /\ rows[b].status = "processing"
  BY Polled
<1>2. /\ e.gjob \in JobIds /\ jobs[e.gjob].batch = b /\ jobs[e.gjob].state = "succeeded"
      /\ got \subseteq embedded /\ e.done = Cardinality(got)
  BY <1>1, PolledFacts DEF EntityOK, Entity
<1>3. got \subseteq e.payload /\ (Lossy \/ got = e.payload)
  BY <1>1, <1>2 DEF OwnInv, JobsOwned
<1>4. \A c \in Batches : rows'[c] = IF c = b THEN e ELSE rows[c]
  BY DEF IInv, TypeOK
<1> HIDE DEF e, got
<1>5. stage' = [stage EXCEPT ![b] = "finished"]
  <2>1. \A c \in Batches : stage'[c] = IF c = b THEN "finished" ELSE stage[c]
    BY <1>1, <1>4, Stages
  <2> QED BY <2>1
<1>6. want' = want
  <2>1. \A c \in Batches : want'[c] = want[c]
    BY <1>1, <1>4
  <2> QED BY <2>1
<1>7. count' = [count EXCEPT ![b] = Cardinality(got)]
  <2>1. \A c \in Batches : count'[c] = IF c = b THEN Cardinality(got) ELSE count[c]
    BY <1>1, <1>2, <1>4
  <2> QED BY <2>1
<1>8. stage[b] = "inflight"
  BY <1>1, Stages
<1>9. got \in SUBSET (want[b] \cap embedded) /\ (Lossy \/ got = want[b])
  BY <1>1, <1>2, <1>3
<1>10. \E g \in SUBSET (want[b] \cap embedded) :
         /\ Lossy \/ g = want[b]
         /\ count' = [count EXCEPT ![b] = Cardinality(g)]
  BY <1>7, <1>9, Zenon
<1>11. Promise!Finish(b)
  BY <1>5, <1>6, <1>8, <1>10, SameCardinality DEF Promise!Finish
<1> QED BY <1>1, <1>4, <1>11 DEF SettledKept, PromiseKept, Promise!Next

LEMMA SaveCompletedKept ==
  ASSUME IInv, OwnInv, OneActor, NEW w \in Workers, NEW b \in Batches, SaveCompleted(w, b)
  PROVE  Kept
<1> DEFINE e == poll[w][b].ent
<1>1. /\ UNCHANGED <<embedded, files, jobs, phase, sub, retry, recov, failing, deliv>>
      /\ poll[w][b].pc = "complete"
  BY DEF SaveCompleted, geminiVars, submitVars, recoverVars
<1>2. /\ e.status = "completed" /\ e.payload = rows[b].payload /\ e.gjob = rows[b].gjob
      /\ e.file => files[b] = rows[b].payload
  BY <1>1, Polled
<1>3. CASE Save(b, e) /\ poll' = [poll EXCEPT ![w][b] = IdlePoll]
  <2>1. rows' = [rows EXCEPT ![b] = e]
    BY <1>3 DEF Save
  <2>2. SettledKept /\ PromiseKept
    BY <1>1, <2>1, CompletedIsFinished
  <2> HIDE DEF e
  <2>3. OwnInv'
    BY <1>1, <1>2, <1>3, <2>1, PollerSaves
  <2> QED BY <2>2, <2>3 DEF Kept
<1>4. CASE /\ UNCHANGED tableVars
           /\ poll' = [poll EXCEPT ![w][b].pc = "save", ![w][b].ent = MarkFailed(@)]
  <2>1. rows' = rows
    BY <1>4 DEF tableVars
  <2>2. \E g : /\ poll' = [poll EXCEPT ![w][b] = g]
               /\ g.pc = "save" /\ g.ent = MarkFailed(poll[w][b].ent)
    BY <1>4, GivesUp
  <2> QED BY <1>1, <2>1, <2>2, GivesUpKept
<1> QED BY <1>3, <1>4 DEF SaveCompleted

LEMMA SavePolledKept ==
  ASSUME IInv, OwnInv, OneActor, NEW w \in Workers, NEW b \in Batches, SavePolled(w, b)
  PROVE  Kept
<1> DEFINE e == poll[w][b].ent
<1>1. /\ UNCHANGED <<embedded, files, jobs, phase, sub, retry, recov, failing, deliv>>
      /\ poll[w][b].pc = "save" /\ poll' = [poll EXCEPT ![w][b] = IdlePoll]
  BY DEF SavePolled, geminiVars, submitVars, recoverVars
<1>2. /\ e.status \in {"failed", "retry_scheduled"} /\ rows[b].status = "processing"
      /\ e.payload = rows[b].payload /\ e.gjob = rows[b].gjob
      /\ e.file => files[b] = rows[b].payload
  BY <1>1, Polled
<1>3. CASE Save(b, e)
  <2>1. rows' = [rows EXCEPT ![b] = e]
    BY <1>3 DEF Save
  <2> HIDE DEF e
  <2>2. OwnInv'
    BY <1>1, <1>2, <2>1, PollerSaves
  <2>3. CASE e.status = "failed"
    <3>1. SettledKept /\ PromiseKept
      BY <1>1, <1>2, <2>1, <2>3, StageMoves DEF IInv
    <3> QED BY <2>2, <3>1 DEF Kept
  <2>4. CASE e.status = "retry_scheduled"
    <3>1. SettledKept /\ PromiseKept
      BY <1>1, <1>2, <2>1, <2>4, Stages, QuietRow DEF IInv
    <3> QED BY <2>2, <3>1 DEF Kept
  <2> QED BY <1>2, <2>3, <2>4
<1>4. CASE UNCHANGED tableVars
  BY <1>1, <1>4, PollerLeaves DEF tableVars
<1> QED BY <1>3, <1>4 DEF SavePolled, SaveOrLose

-----------------------------------------------------------------------------
(* The retry loop, recovery, crashes and Gemini.                           *)

LEMMA RetryReadKept ==
  ASSUME IInv, OwnInv, NEW w \in Workers, RetryRead(w)
  PROVE  Kept
<1>1. /\ UNCHANGED <<rows, embedded, files, jobs, phase, sub, poll, recov, failing, deliv>>
      /\ phase[w] = "running"
  BY DEF RetryRead, tableVars, geminiVars, submitVars, recoverVars
<1>2. PICK b \in Batches : IsRetryReady(rows[b]) /\ retry' = [retry EXCEPT ![w] = b]
  BY DEF RetryRead
<1>3. \A v \in Workers : retry'[v] = IF v = w THEN b ELSE retry[v]
  BY <1>2 DEF IInv, TypeOK
<1>4. RetryOwned'
  BY <1>1, <1>2, <1>3 DEF OwnInv, RetryOwned, IsRetryReady
<1> QED BY <1>1, <1>4, Frames, QuietRows DEF Kept, OwnInv

LEMMA RetryWriteKept ==
  ASSUME IInv, OwnInv, OneActor, NEW w \in Workers, RetryWrite(w)
  PROVE  Kept
<1> DEFINE b == retry[w]
           e == [rows[b] EXCEPT !.status = "processing"]
<1>1. /\ UNCHANGED <<embedded, files, jobs, phase, sub, poll, recov, failing, deliv>>
      /\ b # 0 /\ retry' = [retry EXCEPT ![w] = 0]
  BY DEF RetryWrite, geminiVars, submitVars, recoverVars
<1>2. b \in Batches /\ rows[b] \in Entity
  BY <1>1, RowNumber DEF IInv, TypeOK
<1>3. phase[w] = "running" /\ rows[b].status = "retry_scheduled"
  BY <1>1 DEF OwnInv, RetryOwned
<1>4. RetryOwned'
  BY <1>1 DEF RetryOwned, OneActor, IInv, TypeOK
<1>5. CASE UNCHANGED tableVars
  BY <1>1, <1>4, <1>5, Frames, QuietRows DEF Kept, OwnInv, tableVars
<1>6. CASE rows' = [rows EXCEPT ![b].status = "processing"]
  <2>1. rows' = [rows EXCEPT ![b] = e]
    BY <1>6
  <2>2. /\ e.status = "processing" /\ e.payload = rows[b].payload
        /\ e.gjob = rows[b].gjob /\ e.file = rows[b].file
    BY <1>2 DEF Entity
  <2>3. e.gjob # NoJob /\ (e.file => files[b] = e.payload)
    BY <1>2, <1>3, <2>2 DEF OwnInv, RowsOwned
  <2> HIDE DEF e, b
  <2>4. /\ RowsOwned' /\ JobsOwned' /\ DeliveryOwned' /\ SubOwned' /\ PollOwned'
        /\ RecoverOwned' /\ OnceOwned'
    BY <1>1, <1>2, <1>3, <2>1, <2>2, <2>3, RowMoves DEF IInv
  <2>5. SettledKept /\ PromiseKept
    BY <1>1, <1>2, <1>3, <2>1, <2>2, Stages, QuietRow DEF IInv
  <2> QED BY <1>4, <2>4, <2>5 DEF Kept, OwnInv
<1> QED BY <1>5, <1>6 DEF RetryWrite, UpdateStatus
LEMMA StartKept ==
  ASSUME IInv, OwnInv, OneActor, NEW w \in Workers, Start(w)
  PROVE  Kept
<1>1. /\ UNCHANGED <<rows, embedded, files, jobs, sub, poll, retry, failing, deliv>>
      /\ phase[w] = "down" /\ phase' = [phase EXCEPT ![w] = "recovering"]
  BY DEF Start, tableVars, geminiVars, submitVars
<1>2. (\A v \in Workers : v = w) /\ phase'[w] = "recovering"
  BY <1>1 DEF OneActor, IInv, TypeOK
<1>3. PollOwned'
  BY <1>1, <1>2 DEF OwnInv, PollOwned
<1>4. RetryOwned'
  BY <1>1, <1>2 DEF OwnInv, RetryOwned
<1>5. \A b \in Batches : recov[w][b] = NoJob /\ failing[w] # b
  BY <1>1 DEF OwnInv, RecoverOwned
<1>6. \A b \in Batches : recov'[w][b] # NoJob => rows[b].status = "processing"
  <2> DEFINE found == [b \in Batches |-> IF IsPendingGemini(rows[b]) THEN rows[b].gjob
                                         ELSE NoJob]
  <2>1. \A b \in Batches : found[b] # NoJob => rows[b].status = "processing"
    BY DEF IsPendingGemini
  <2>2. recov' = [recov EXCEPT ![w] = found] \/ recov' = recov
    BY DEF Start
  <2> HIDE DEF found
  <2> QED BY <1>5, <2>1, <2>2 DEF IInv, TypeOK
<1>7. RecoverOwned'
  BY <1>1, <1>2, <1>5, <1>6 DEF RecoverOwned
<1> QED BY <1>1, <1>3, <1>4, <1>7, Frames, QuietRows DEF Kept, OwnInv

LEMMA RecoverCheckKept ==
  ASSUME IInv, OwnInv, OneActor, NEW w \in Workers, NEW b \in Batches, RecoverCheck(w, b)
  PROVE  Kept
<1>1. /\ UNCHANGED <<rows, embedded, files, jobs, phase, sub, poll, retry, deliv>>
      /\ phase[w] = "recovering" /\ recov[w][b] # NoJob
      /\ recov' = [recov EXCEPT ![w][b] = NoJob]
      /\ failing' = [failing EXCEPT ![w] = b] \/ failing' = failing
  BY DEF RecoverCheck, tableVars, geminiVars, submitVars
<1>2. \A v \in Workers : v = w
  BY DEF OneActor
<1>3. \A c \in Batches : recov'[w][c] = IF c = b THEN NoJob ELSE recov[w][c]
  BY <1>1 DEF IInv, TypeOK
<1>4. failing'[w] = b \/ failing'[w] = failing[w]
  BY <1>1 DEF IInv, TypeOK
<1>5. RecoverOwned'
  BY <1>1, <1>2, <1>3, <1>4 DEF OwnInv, RecoverOwned
<1> QED BY <1>1, <1>5, Frames, QuietRows DEF Kept, OwnInv

LEMMA RecoverFailKept ==
  ASSUME IInv, OwnInv, OneActor, NEW w \in Workers, RecoverFail(w)
  PROVE  Kept
<1> DEFINE b == failing[w]
           e == [rows[b] EXCEPT !.status = "failed"]
<1>1. /\ UNCHANGED <<embedded, files, jobs, phase, sub, poll, retry, recov, deliv>>
      /\ b # 0 /\ failing' = [failing EXCEPT ![w] = 0]
  BY DEF RecoverFail, geminiVars, submitVars
<1>2. b \in Batches /\ rows[b] \in Entity
  BY <1>1, RowNumber DEF IInv, TypeOK
<1>3. phase[w] = "recovering" /\ rows[b].status = "processing" /\ recov[w][b] = NoJob
  BY <1>2 DEF OwnInv, RecoverOwned
<1>4. \A v \in Workers : v = w
  BY DEF OneActor
<1>5. \A c \in Batches : failing'[w] # c
  <2>1. 0 \notin Batches
    BY CountsAssumption DEF Batches
  <2> QED BY <1>1, <2>1 DEF IInv, TypeOK
<1>6. CASE UNCHANGED tableVars
  <2>1. rows' = rows
    BY <1>6 DEF tableVars
  <2>2. RecoverOwned'
    BY <1>1, <1>4, <1>5, <2>1 DEF OwnInv, RecoverOwned
  <2> QED BY <1>1, <2>1, <2>2, Frames, QuietRows DEF Kept, OwnInv
<1>7. CASE rows' = [rows EXCEPT ![b].status = "failed"]
  <2>1. rows' = [rows EXCEPT ![b] = e]
    BY <1>7
  <2>2. /\ e.status = "failed" /\ e.payload = rows[b].payload
        /\ e.gjob = rows[b].gjob /\ e.file = rows[b].file
    BY <1>2 DEF Entity
  <2>3. e.file => files[b] = e.payload
    BY <1>2, <2>2 DEF OwnInv, RowsOwned
  <2>4. \A c \in Batches : rows'[c] = IF c = b THEN e ELSE rows[c]
    BY <2>1 DEF IInv, TypeOK
  <2> HIDE DEF e, b
  <2>5. /\ RowsOwned' /\ JobsOwned' /\ DeliveryOwned' /\ SubOwned' /\ RetryOwned' /\ OnceOwned'
    BY <1>1, <1>2, <1>3, <2>1, <2>2, <2>3, RowMoves DEF IInv
  <2>6. PollOwned'
    BY <1>1, <1>3, <1>4 DEF OwnInv, PollOwned
  <2>7. RecoverOwned'
    BY <1>1, <1>3, <1>4, <1>5, <2>4 DEF OwnInv, RecoverOwned
  <2>8. SettledKept /\ PromiseKept
    BY <1>1, <1>2, <1>3, <2>1, <2>2, StageMoves DEF IInv
  <2> QED BY <2>5, <2>6, <2>7, <2>8 DEF Kept, OwnInv
<1> QED BY <1>6, <1>7 DEF RecoverFail, UpdateStatus

LEMMA RecoveryDoneKept ==
  ASSUME IInv, OwnInv, OneActor, NEW w \in Workers, RecoveryDone(w)
  PROVE  Kept
<1>1. /\ UNCHANGED <<rows, embedded, files, jobs, sub, poll, retry, recov, failing, deliv>>
      /\ phase[w] = "recovering" /\ phase' = [phase EXCEPT ![w] = "running"]
      /\ failing[w] = 0 /\ recov[w] = NoRecovery
  BY DEF RecoveryDone, tableVars, geminiVars, submitVars, recoverVars
<1>2. (\A v \in Workers : v = w) /\ phase'[w] = "running"
  BY <1>1 DEF OneActor, IInv, TypeOK
<1>3. PollOwned' /\ RetryOwned'
  BY <1>1, <1>2 DEF OwnInv, PollOwned, RetryOwned
<1>4. \A b \in Batches : recov[w][b] = NoJob /\ failing[w] # b
  <2>1. 0 \notin Batches
    BY CountsAssumption DEF Batches
  <2> QED BY <1>1, <2>1 DEF NoRecovery
<1>5. RecoverOwned'
  BY <1>1, <1>2, <1>4 DEF RecoverOwned
<1> QED BY <1>1, <1>3, <1>5, Frames, QuietRows DEF Kept, OwnInv

LEMMA CrashKept ==
  ASSUME IInv, OwnInv, OneActor, NEW w \in Workers, Crash(w)
  PROVE  Kept
<1>1. /\ UNCHANGED <<rows, embedded, files, jobs>>
      /\ sub' = [s \in Slots |-> IF s[1] = w THEN IdleSub ELSE sub[s]]
      /\ poll' = [poll EXCEPT ![w] = [b \in Batches |-> IdlePoll]]
      /\ retry' = [retry EXCEPT ![w] = 0] /\ failing' = [failing EXCEPT ![w] = 0]
      /\ recov' = [recov EXCEPT ![w] = NoRecovery]
  BY DEF Crash, tableVars, geminiVars
<1>2. \A v \in Workers : v = w
  BY DEF OneActor
<1>3. SubOwned'
  <2>1. \A s \in Slots : s[1] = w
    BY <1>2 DEF Slots
  <2>2. \A s \in Slots : sub'[s].pc = "idle"
    BY <1>1, <2>1 DEF IdleSub
  <2> QED BY <2>2 DEF SubOwned
<1>4. PollOwned'
  <2>1. \A b \in Batches : poll'[w][b].pc = "idle"
    BY <1>1 DEF IdlePoll, IInv, TypeOK
  <2> QED BY <1>2, <2>1 DEF PollOwned
<1>5. RetryOwned'
  BY <1>1, <1>2 DEF RetryOwned, IInv, TypeOK
<1>6. RecoverOwned'
  <2>1. 0 \notin Batches
    BY CountsAssumption DEF Batches
  <2>2. failing'[w] = 0 /\ \A b \in Batches : recov'[w][b] = NoJob
    BY <1>1 DEF NoRecovery, IInv, TypeOK
  <2> QED BY <1>2, <2>1, <2>2 DEF RecoverOwned
<1>7. DeliveryOwned'
  <2>1. \A d \in Deliveries : deliv'[d] = deliv[d] \/ deliv'[d].pc = "done"
    BY DEF Crash, IInv, TypeOK, Delivery
  <2> QED BY <1>1, <2>1 DEF OwnInv, DeliveryOwned
<1>8. OnceOwned'
  <2>1. MaxCrashes # 0
    <3>1. crashes < MaxCrashes
      BY DEF Crash
    <3> QED BY <3>1, BoundsAssumption DEF IInv, TypeOK
  <2> QED BY <2>1 DEF OnceOwned
<1> QED BY <1>1, <1>3, <1>4, <1>5, <1>6, <1>7, <1>8, Frames, QuietRows DEF Kept, OwnInv

LEMMA GeminiEndsKept ==
  ASSUME IInv, OwnInv, NEW j \in JobIds, GeminiEnds(j)
  PROVE  Kept
<1>1. UNCHANGED <<rows, embedded, files, phase, sub, poll, retry, recov, failing, deliv>>
  BY DEF GeminiEnds, tableVars, submitVars, recoverVars
<1>2. PICK outcome \in GeminiOutcomes, results \in SUBSET jobs[j].payload :
        /\ outcome # "succeeded" \/ results = jobs[j].payload \/ Lossy
        /\ jobs' = [jobs EXCEPT ![j].state = outcome, ![j].results = results]
  BY DEF GeminiEnds
<1>3. jobs[j] \in Job /\ jobs[j].state = "pending"
  BY DEF GeminiEnds, IInv, TypeOK
<1> DEFINE x == [jobs[j] EXCEPT !.state = outcome, !.results = results]
<1>4. /\ x.batch = jobs[j].batch /\ x.payload = jobs[j].payload
      /\ x.state = outcome /\ x.results = results
  BY <1>3 DEF Job
<1>5. \A i \in JobIds : jobs'[i] = IF i = j THEN x ELSE jobs[i]
  BY <1>2 DEF IInv, TypeOK
<1> HIDE DEF x
<1>6. JobsOwned'
  <2>1. x.results \subseteq x.payload
    BY <1>4
  <2>2. x.state = "succeeded" => Lossy \/ x.results = x.payload
    BY <1>2, <1>4
  <2>3. /\ rows[x.batch].status # "absent" /\ x.payload = rows[x.batch].payload
    BY <1>3, <1>4 DEF OwnInv, JobsOwned
  <2> QED BY <1>1, <1>5, <2>1, <2>2, <2>3 DEF OwnInv, JobsOwned
<1>7. OnceOwned'
  BY <1>1, <1>3, <1>4, <1>5 DEF OwnInv, OnceOwned
<1> QED BY <1>1, <1>6, <1>7, Frames, QuietRows DEF Kept, OwnInv
-----------------------------------------------------------------------------
(* The invariant and what follows from it.                                 *)

LEMMA InitOwn ==
  ASSUME Init
  PROVE  OwnInv /\ Promise!Init
<1>1. \A b \in Batches : rows[b] = Absent
  BY DEF Init
<1>2. Absent.status = "absent" /\ Absent.payload = {} /\ Absent.gjob = NoJob /\ ~Absent.file
  BY DEF Absent, NewBatchJobProgress
<1>3. RowsOwned
  BY <1>1, <1>2 DEF RowsOwned, Init
<1>4. JobsOwned /\ OnceOwned
  BY DEF Init, JobsOwned, OnceOwned
<1>5. DeliveryOwned
  BY <1>1, <1>2 DEF Init, DeliveryOwned, NewDelivery
<1>6. SubOwned /\ PollOwned
  BY DEF Init, SubOwned, PollOwned, IdleSub, IdlePoll
<1>7. RetryOwned /\ RecoverOwned
  <2>1. 0 \notin Batches
    BY CountsAssumption DEF Batches
  <2> QED BY <2>1 DEF Init, RetryOwned, RecoverOwned, NoRecovery
<1>8. Promise!Init
  <2>1. [b \in Batches |-> Stage(rows[b].status)] = [b \in Batches |-> "none"]
    BY <1>1, <1>2, Stages
  <2>2. [b \in Batches |-> rows[b].payload] = [b \in Batches |-> {}]
    BY <1>1, <1>2
  <2>3. [b \in Batches |-> IF rows[b].status = "completed" THEN rows[b].done ELSE 0]
          = [b \in Batches |-> 0]
    BY <1>1, <1>2
  <2>4. embedded = {}
    BY DEF Init
  <2> QED BY <2>1, <2>2, <2>3, <2>4 DEF Promise!Init
<1> QED BY <1>3, <1>4, <1>5, <1>6, <1>7, <1>8 DEF OwnInv

LEMMA StutterKept ==
  ASSUME OwnInv, UNCHANGED vars
  PROVE  Kept
<1>1. UNCHANGED <<rows, embedded, files, jobs, phase, sub, poll, retry, recov, failing, deliv>>
  BY DEF vars, tableVars, geminiVars, submitVars, recoverVars
<1> QED BY <1>1, Frames, QuietRows DEF Kept, OwnInv

LEMMA NextKept ==
  ASSUME OneActor, IInv, OwnInv, [Next]_vars
  PROVE  Kept
<1>1. CASE \E d \in Deliveries : DeliveryStep(d) \/ \E w \in Workers : StartDelivery(d, w)
  BY <1>1, StartDeliveryKept, FilterBatchKept, EnqueueBatchKept, RecordFailedBatchKept,
     EmbedSequentiallyKept DEF DeliveryStep
<1>2. CASE \E w \in Workers : Tick(w) \/ BackoffEnds(w)
  BY <1>2, TickKept
<1>3. CASE \E s \in Slots : SubmitRead(s) \/ SubmitCall(s) \/ SubmitSave(s)
  BY <1>3, SubmitReadKept, UploadFileKept, CreateAcceptedKept, CallRateLimitedKept,
     CallRejectedKept, SaveFileURIKept, SaveSubmittedKept, SaveInvalidJobIDKept,
     SaveSubmissionFailureKept DEF SubmitCall, SubmitSave
<1>4. CASE \E b \in Batches : BecomesDue(b)
  BY <1>4, BecomesDueKept
<1>5. CASE \E w \in Workers : PollRead(w) \/ \E b \in Batches : PollStep(w, b)
  BY <1>5, PollReadKept, PollSkipKept, PollCompletedKept, PollFailedKept, StoreResultsKept,
     ResultsFailKept, SaveCompletedKept, SavePolledKept DEF PollStep
<1>6. CASE \E w \in Workers : RetryRead(w) \/ RetryWrite(w)
  BY <1>6, RetryReadKept, RetryWriteKept
<1>7. CASE \E w \in Workers : Start(w) \/ RecoverFail(w) \/ RecoveryDone(w)
                              \/ \E b \in Batches : RecoverCheck(w, b)
  BY <1>7, StartKept, RecoverFailKept, RecoveryDoneKept, RecoverCheckKept
<1>8. CASE \E w \in Workers : Crash(w)
  BY <1>8, CrashKept
<1>9. CASE \E j \in JobIds : GeminiEnds(j)
  BY <1>9, GeminiEndsKept
<1>10. CASE UNCHANGED vars
  BY <1>10, StutterKept
<1> QED BY <1>1, <1>2, <1>3, <1>4, <1>5, <1>6, <1>7, <1>8, <1>9, <1>10 DEF Next

\* With one worker, one submission at a time and one delivery, every row has one
\* owner at a time, which its status tells (OwnInv of BatchInvariant), whatever
\* fails and however often the worker of cmd/worker.go crashes and recovers.
THEOREM RowsHaveOneOwner == ASSUME OneActor PROVE Spec => []OwnInv
<1>1. IInv /\ OwnInv /\ [Next]_vars => OwnInv'
  BY NextKept DEF Kept
<1> QED BY <1>1, InitOwn, Consistency, PTL DEF Spec

\* No processing row is without a Gemini job id: GetPendingGeminiBatches finds
\* every one of them, for the poller and for the recovery service.
THEOREM ProcessingNamesJob == ASSUME OneActor PROVE Spec => []ProcessingHasJob
<1>1. OwnInv => ProcessingHasJob
  BY DEF OwnInv, RowsOwned, ProcessingHasJob
<1> QED BY <1>1, RowsHaveOneOwner, PTL

\* The Gemini job a row names embeds what the row asks for, also after a crash
\* between CreateBatchJob and Save, when a row is submitted again with its file.
THEOREM RequestsEmbedded == ASSUME OneActor PROVE Spec => []JobEmbedsRequest
<1>1. IInv /\ OwnInv => JobEmbedsRequest
  <2> SUFFICES ASSUME IInv, OwnInv, NEW b \in Batches, rows[b].gjob # NoJob
               PROVE  jobs[rows[b].gjob].payload = rows[b].payload
    BY DEF JobEmbedsRequest
  <2>1. rows[b].gjob \in JobIds
    BY DEF IInv, TypeOK, Entity
  <2>2. jobs[rows[b].gjob].batch = b /\ jobs[rows[b].gjob].state # "unused"
    BY DEF IInv, RowsOK, EntityOK
  <2> QED BY <2>1, <2>2 DEF OwnInv, JobsOwned
<1> QED BY <1>1, RowsHaveOneOwner, Consistency, PTL

\* Where no call fails and no worker crashes, submitOneBatch creates one Gemini
\* job for a batch, whatever quota errors and failed jobs it meets on the way.
THEOREM SubmittedOnlyOnce ==
  ASSUME OneActor, MaxFaults = 0, MaxCrashes = 0
  PROVE  Spec => []SubmittedOnce
<1>1. IInv /\ OwnInv => SubmittedOnce
  <2> SUFFICES ASSUME IInv, OwnInv, NEW b \in Batches
               PROVE  Cardinality(JobsOf(b)) <= 1
    BY DEF SubmittedOnce
  <2>1. \A i, j \in JobsOf(b) : i = j
    <3> SUFFICES ASSUME NEW i \in JobsOf(b), NEW j \in JobsOf(b)
                 PROVE  i = j
      OBVIOUS
    <3>1. /\ i \in JobIds /\ jobs[i].state # "unused" /\ jobs[i].batch = b /\ i # NoJob
          /\ j \in JobIds /\ jobs[j].state # "unused" /\ jobs[j].batch = b /\ j # NoJob
      BY DEF JobsOf, JobIds, NoJob
    <3>2. \A s \in Slots : sub[s].pc \in {"saveFile", "saveJob"} /\ sub[s].batch = b =>
            rows[b].gjob = NoJob
      BY Submitting
    <3> QED BY <3>1, <3>2, OnlySlot DEF OwnInv, OnceOwned
  <2>2. CASE JobsOf(b) = {}
    BY <2>2, FS_EmptySet
  <2>3. ASSUME NEW j \in JobsOf(b)
        PROVE  Cardinality(JobsOf(b)) <= 1
    <3>1. JobsOf(b) = {j}
      BY <2>1
    <3> QED BY <3>1, FS_Singleton
  <2> QED BY <2>2, <2>3
<1> QED BY <1>1, RowsHaveOneOwner, Consistency, PTL

\* A completed or failed row is never written again: no submitter, poller, retry
\* loop or recovery still holds an entity of it.
THEOREM SettledForGood == ASSUME OneActor PROVE Spec => SettledStaysSettled
<1>1. IInv /\ OwnInv /\ [Next]_vars =>
        [\A b \in Batches : rows[b].status \in {"completed", "failed"} => rows'[b] = rows[b]]_vars
  BY NextKept DEF Kept, SettledKept
<1> QED BY <1>1, RowsHaveOneOwner, Consistency, PTL DEF Spec, SettledStaysSettled

\* Without the sequential fallback the pipeline implements BatchPromise: a batch
\* goes from its request to one end, embeddings are stored only while it is in
\* flight, and a completed one counts chunks it asked for that are stored.
THEOREM PromiseIsKept ==
  ASSUME OneActor, ~FallbackToSequential
  PROVE  Spec => KeepsPromise
<1>1. IInv /\ OwnInv /\ [Next]_vars => [Promise!Next]_(Promise!vars)
  BY NextKept DEF Kept, PromiseKept
<1>2. Init => Promise!Init
  BY InitOwn
<1> QED BY <1>1, <1>2, RowsHaveOneOwner, Consistency, PTL DEF Spec, KeepsPromise, Promise!Spec
=============================================================================
