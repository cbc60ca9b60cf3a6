--------------------------- MODULE BatchPipeline ---------------------------
(***************************************************************************)
(* The asynchronous embedding pipeline of one indexing job, from the       *)
(* message delivery that queues its batches to the row the poller marks    *)
(* completed.  Actors, each a goroutine or a loop of a worker process:     *)
(*   deliveries  job_processor.go   persist the batches of the job         *)
(*   submitter   batch_submitter.go create Gemini jobs for queued batches  *)
(*   poller      batch_poller.go    download results, store embeddings     *)
(*   retry loop  cmd/worker.go      flip retry_scheduled rows back         *)
(*   recovery    batch_recovery_service.go  at worker start                *)
(* They meet only in the table "rows" and in the Gemini service.  Every    *)
(* action is one database or service round trip; between two of them an    *)
(* actor holds an entity that other actors may have made stale.            *)
(***************************************************************************)
EXTENDS BatchRow, Sequences

CONSTANTS
  Workers,                  \* worker processes sharing the database
  MaxConcurrentSubmissions, \* submitter semaphore of each worker
  MaxWaiting,               \* bound: goroutines blocked on that semaphore
  Deliveries,               \* bound: deliveries of the job's message
  Splits,                   \* batchings a delivery may compute: Batches -> chunks
  FallbackToSequential,     \* BatchProcessingConfig.FallbackToSequential
  GeminiOutcomes,           \* terminal states Gemini may reach
  Lossy,                    \* whether results may miss requested chunks
  MaxFaults,                \* bound: failed database or service calls
  MaxRateLimits,            \* bound: quota errors of the service
  MaxCrashes                \* bound: worker crashes

ASSUME WorkersAssumption == 0 \notin Workers
ASSUME SplitsAssumption == Splits \subseteq [Batches -> SUBSET Chunks]
ASSUME BoundsAssumption ==
  /\ MaxConcurrentSubmissions \in Nat \ {0}
  /\ {MaxWaiting, MaxFaults, MaxRateLimits, MaxCrashes} \subseteq Nat
  /\ GeminiOutcomes \subseteq {"succeeded", "partial", "failed", "cancelled"}
  /\ {Lossy, FallbackToSequential} \subseteq BOOLEAN

Slots == Workers \X (1..MaxConcurrentSubmissions)

VARIABLES
  rows,      \* the table: batch number -> row
  created,   \* batch numbers in created_at order
  embedded,  \* chunks that have a stored embedding
  files,     \* Gemini Files API: row id -> chunks in files/<row id>, {} if none
  jobs,      \* Gemini batch jobs
  phase,     \* life of each worker process
  waiting,   \* submitter goroutines past the backoff check, at the semaphore
  backoff,   \* globalBackoffUntil lies in the future
  sub,       \* submitter goroutines holding the semaphore
  poll,      \* per worker, the goroutine of each polled batch
  retry,     \* per worker, the row the retry loop has read (0: none)
  recov,     \* per worker, Gemini job ids recovery still has to check
  failing,   \* per worker, the row recovery is about to fail (0: none)
  deliv,     \* message deliveries
  faults, limits, crashes   \* how much of each bound is used up

tableVars   == <<rows, created>>
geminiVars  == <<files, jobs>>
submitVars  == <<waiting, backoff, sub>>
recoverVars == <<recov, failing>>
boundVars   == <<faults, limits, crashes>>
vars == <<tableVars, embedded, geminiVars, phase, submitVars, poll, retry,
          recoverVars, deliv, boundVars>>

IdleSub  == [pc |-> "idle", batch |-> 1, ent |-> Absent, job |-> NoJob]
IdlePoll == [pc |-> "idle", ent |-> Absent]
NewDelivery == [pc |-> "new", at |-> 0, split |-> [b \in Batches |-> {}],
                n |-> 1, need |-> {}]
NoRecovery == [b \in Batches |-> NoJob]

Init ==
  /\ rows     = [b \in Batches |-> Absent]
  /\ created  = <<>>
  /\ embedded = {}
  /\ files    = [b \in Batches |-> {}]
  /\ jobs     = [j \in JobIds |-> [state |-> "unused", batch |-> 1,
                                   payload |-> {}, results |-> {}]]
  /\ phase    = [w \in Workers |-> "down"]
  /\ waiting  = [w \in Workers |-> 0]
  /\ backoff  = [w \in Workers |-> FALSE]
  /\ sub      = [s \in Slots |-> IdleSub]
  /\ poll     = [w \in Workers |-> [b \in Batches |-> IdlePoll]]
  /\ retry    = [w \in Workers |-> 0]
  /\ recov    = [w \in Workers |-> NoRecovery]
  /\ failing  = [w \in Workers |-> 0]
  /\ deliv    = [d \in Deliveries |-> NewDelivery]
  /\ faults = 0 /\ limits = 0 /\ crashes = 0

-----------------------------------------------------------------------------
(* The repository: batch_progress_repository.go.                           *)

\* INSERT ... ON CONFLICT DO UPDATE of the whole row; created_at is kept.
Save(b, e) ==
  /\ rows' = [rows EXCEPT ![b] = e]
  /\ created' = IF rows[b].status = "absent" THEN Append(created, b) ELSE created

Fault == faults < MaxFaults /\ faults' = faults + 1

\* A Save whose error the caller only logs.
SaveOrLose(b, e) ==
  \/ Save(b, e) /\ UNCHANGED faults
  \/ Fault /\ UNCHANGED tableVars

\* UPDATE ... SET status, by row id: no other column, no check of the old status.
UpdateStatus(b, status) ==
  \/ rows' = [rows EXCEPT ![b].status = status] /\ UNCHANGED <<created, faults>>
  \/ Fault /\ UNCHANGED tableVars

\* The row GetPendingSubmissionBatch returns: the oldest ready one.  Its FOR
\* UPDATE SKIP LOCKED runs outside a transaction, so the row lock is gone when
\* the query returns and leaves no trace in the state.
NextPendingSubmission(b) ==
  \E i \in 1..Len(created) :
    /\ created[i] = b
    /\ IsPendingSubmission(rows[b])
    /\ \A k \in 1..(i - 1) : ~IsPendingSubmission(rows[created[k]])

Up(w) == phase[w] # "down"

-----------------------------------------------------------------------------
(* Message deliveries: processBatchLoop with useAsyncSubmission.  A        *)
(* redelivery (AckWait 30s, MaxDeliver 3) starts whether or not an earlier *)
(* delivery of the message is still running, on any worker.  Persisting    *)
(* chunks gives them stable ids, so only the skip filter reads shared      *)
(* state.                                                                  *)

StartDelivery(d, w) ==
  /\ deliv[d].pc = "new" /\ Up(w)
  /\ \E split \in Splits :
       deliv' = [deliv EXCEPT ![d] = [@ EXCEPT !.pc = "filter", !.at = w, !.split = split]]
  /\ UNCHANGED <<tableVars, embedded, geminiVars, phase, submitVars, poll, retry,
                 recoverVars, boundVars>>

NextBatch(d) ==
  [deliv[d] EXCEPT !.n = IF @ = NumBatches THEN @ ELSE @ + 1,
                   !.pc = IF deliv[d].n = NumBatches THEN "done" ELSE "filter",
                   !.need = {}]

\* persistChunks and filterNewEmbeddings: chunks already embedded are dropped;
\* nothing left, nothing queued.  When the lookup fails every chunk of the batch
\* is queued; when persisting fails so does the batch.
FilterBatch(d) ==
  /\ deliv[d].pc = "filter"
  /\ LET batch == deliv[d].split[deliv[d].n]
     IN \/ /\ batch \subseteq embedded
           /\ deliv' = [deliv EXCEPT ![d] = NextBatch(d)]
           /\ UNCHANGED faults
        \/ /\ ~(batch \subseteq embedded)
           /\ deliv' = [deliv EXCEPT ![d].pc = "enqueue", ![d].need = batch \ embedded]
           /\ UNCHANGED faults
        \/ /\ batch # {} /\ Fault
           /\ deliv' = [deliv EXCEPT ![d].pc = "enqueue", ![d].need = batch]
        \/ Fault /\ deliv' = [deliv EXCEPT ![d].pc = "record"]
  /\ UNCHANGED <<tableVars, embedded, geminiVars, phase, submitVars, poll, retry,
                 recoverVars, limits, crashes>>

\* enqueueBatchProgress: a fresh entity overwrites whatever the row held.
EnqueueBatch(d) ==
  /\ deliv[d].pc = "enqueue"
  /\ \/ /\ Save(deliv[d].n, MarkPendingSubmission(NewBatchJobProgress, deliv[d].need))
        /\ deliv' = [deliv EXCEPT ![d] = NextBatch(d)]
        /\ UNCHANGED faults
     \/ /\ Fault
        /\ deliv' = [deliv EXCEPT ![d].pc = "record"]
        /\ UNCHANGED tableVars
  /\ UNCHANGED <<embedded, geminiVars, phase, submitVars, poll, retry, recoverVars,
                 limits, crashes>>

Remaining(d) == UNION {deliv[d].split[b] : b \in deliv[d].n..NumBatches}

\* The error path of processAsyncBatch: saveBatchProgress("failed"), its error
\* ignored, then the sequential fallback for the rest, if enabled and if the
\* error's text calls for it (shouldFallbackOnError), or a failed job.
RecordFailedBatch(d) ==
  /\ deliv[d].pc = "record"
  /\ SaveOrLose(deliv[d].n, MarkFailed(NewBatchJobProgress))
  /\ \/ deliv' = [deliv EXCEPT ![d].pc = "done", ![d].need = {}]
     \/ /\ FallbackToSequential
        /\ deliv' = [deliv EXCEPT ![d].pc = "sequential", ![d].need = Remaining(d)]
  /\ UNCHANGED <<embedded, geminiVars, phase, submitVars, poll, retry, recoverVars,
                 limits, crashes>>

\* processSequentialEmbeddings: one chunk at a time, the first error ends the job.
EmbedSequentially(d) ==
  /\ deliv[d].pc = "sequential"
  /\ \/ /\ deliv[d].need \subseteq embedded
        /\ deliv' = [deliv EXCEPT ![d].pc = "done", ![d].need = {}]
        /\ UNCHANGED <<embedded, faults>>
     \/ \E c \in deliv[d].need \ embedded :
          /\ embedded' = embedded \cup {c}
          /\ UNCHANGED <<deliv, faults>>
     \/ /\ Fault
        /\ deliv' = [deliv EXCEPT ![d].pc = "done", ![d].need = {}]
        /\ UNCHANGED embedded
  /\ UNCHANGED <<tableVars, geminiVars, phase, submitVars, poll, retry, recoverVars,
                 limits, crashes>>

DeliveryStep(d) ==
  \/ FilterBatch(d) \/ EnqueueBatch(d) \/ RecordFailedBatch(d) \/ EmbedSequentially(d)

-----------------------------------------------------------------------------
(* The submitter: submissionLoop and submitOneBatch.                       *)

\* A tick outside the backoff starts a goroutine that blocks on the semaphore.
\* The backoff is not looked at again once the semaphore is acquired.
Tick(w) ==
  /\ Up(w) /\ ~backoff[w] /\ waiting[w] < MaxWaiting
  /\ waiting' = [waiting EXCEPT ![w] = @ + 1]
  /\ UNCHANGED <<tableVars, embedded, geminiVars, phase, backoff, sub, poll, retry,
                 recoverVars, deliv, boundVars>>

\* The goroutine that gets the semaphore reads a row, or ends: nothing is ready,
\* or the query fails.
SubmitRead(s) ==
  LET w == s[1] IN
  /\ Up(w) /\ waiting[w] > 0 /\ sub[s].pc = "idle"
  /\ waiting' = [waiting EXCEPT ![w] = @ - 1]
  /\ \/ \E b \in Batches :
          /\ NextPendingSubmission(b)
          /\ sub' = [sub EXCEPT ![s] =
                      [pc |-> IF rows[b].file THEN "create" ELSE "upload", batch |-> b,
                       ent |-> rows[b], job |-> NoJob]]
          /\ UNCHANGED faults
     \/ /\ \A b \in Batches : ~IsPendingSubmission(rows[b])
        /\ UNCHANGED <<sub, faults>>
     \/ Fault /\ UNCHANGED sub
  /\ UNCHANGED <<tableVars, embedded, geminiVars, phase, backoff, poll, retry,
                 recoverVars, deliv, limits, crashes>>

\* Mutant: one file name for all batches.
UploadedContent_OneName(b, e) ==
  IF \A i \in Batches : files[i] = {} THEN e.payload
  ELSE files[CHOOSE i \in Batches : files[i] # {}]

\* files/<row id> is uploaded once: on ALREADY_EXISTS the old file is reused.
UploadedContent(b, e) == IF files[b] = {} THEN e.payload ELSE files[b]

UploadFile(s) ==
  /\ sub[s].pc = "upload"
  /\ files' = [files EXCEPT ![sub[s].batch] = UploadedContent(sub[s].batch, sub[s].ent)]
  /\ sub' = [sub EXCEPT ![s].pc = "create"]
  /\ UNCHANGED <<tableVars, embedded, jobs, phase, waiting, backoff, poll, retry,
                 recoverVars, deliv, boundVars>>

FreshJob(j) ==
  /\ jobs[j].state = "unused"
  /\ \A i \in JobIds : i < j => jobs[i].state # "unused"

NewGeminiJob(j, b) ==
  /\ FreshJob(j)
  /\ jobs' = [jobs EXCEPT ![j] = [state |-> "pending", batch |-> b,
                                  payload |-> files[b], results |-> {}]]

\* submitNewBatch records the uploaded file first; submitWithExistingFile goes
\* straight to recording the job id.
CreateAccepted(s) ==
  LET b == sub[s].batch
      e == sub[s].ent
  IN /\ sub[s].pc = "create"
     /\ \E j \in JobIds :
          /\ NewGeminiJob(j, b)
          /\ sub' = [sub EXCEPT ![s] =
                      [pc |-> IF e.file THEN "saveJob" ELSE "saveFile", batch |-> b,
                       ent |-> SetGeminiFileURI(e), job |-> j]]
     /\ UNCHANGED <<tableVars, embedded, files, phase, waiting, backoff, poll, retry,
                    recoverVars, deliv, boundVars>>

\* Mutant: the last attempt is one too late.
AfterSubmissionFailure_OffByOne(e, retryable) ==
  IF e.attempts + 1 > MaxSubmissionAttempts
  THEN MarkFailed(MarkSubmissionFailed(e, TRUE))
  ELSE IF retryable THEN MarkSubmissionFailed(e, FALSE) ELSE MarkFailed(e)

\* handleSubmissionFailure: what becomes of the entity.
AfterSubmissionFailure(e, retryable) ==
  IF e.attempts + 1 >= MaxSubmissionAttempts
  THEN MarkFailed(MarkSubmissionFailed(e, TRUE))
  ELSE IF retryable THEN MarkSubmissionFailed(e, FALSE) ELSE MarkFailed(e)

FailedCall(s, retryable) ==
  /\ sub[s].pc \in {"upload", "create"}
  /\ sub' = [sub EXCEPT ![s].pc = "save", ![s].ent = AfterSubmissionFailure(@, retryable)]

\* A quota error also sets the backoff of the whole process.
CallRateLimited(s) ==
  /\ FailedCall(s, TRUE)
  /\ limits < MaxRateLimits /\ limits' = limits + 1
  /\ backoff' = [backoff EXCEPT ![s[1]] = TRUE]
  /\ UNCHANGED <<tableVars, embedded, geminiVars, phase, waiting, poll, retry, recoverVars,
                 deliv, faults, crashes>>

\* Any other error; the request may have reached Gemini and created a job.  When
\* the model's pool of jobs is used up, Gemini refuses every request.
CallRejected(s) ==
  /\ FailedCall(s, FALSE)
  /\ \/ /\ sub[s].pc = "create" /\ \A j \in JobIds : ~FreshJob(j)
        /\ UNCHANGED <<jobs, faults>>
     \/ Fault /\ UNCHANGED jobs
     \/ /\ sub[s].pc = "create" /\ Fault
        /\ \E j \in JobIds : NewGeminiJob(j, sub[s].batch)
  /\ UNCHANGED <<tableVars, embedded, files, phase, waiting, backoff, poll, retry,
                 recoverVars, deliv, limits, crashes>>

SaveFileURI(s) ==
  /\ sub[s].pc = "saveFile"
  /\ SaveOrLose(sub[s].batch, sub[s].ent)
  /\ sub' = [sub EXCEPT ![s].pc = "saveJob"]
  /\ UNCHANGED <<embedded, geminiVars, phase, waiting, backoff, poll, retry, recoverVars,
                 deliv, limits, crashes>>

\* The job exists at Gemini; only this Save makes the table remember it.
SaveSubmitted(s) ==
  /\ sub[s].pc = "saveJob"
  /\ SaveOrLose(sub[s].batch, MarkSubmittedToGemini(sub[s].ent, sub[s].job))
  /\ sub' = [sub EXCEPT ![s] = IdleSub]
  /\ UNCHANGED <<embedded, geminiVars, phase, waiting, backoff, poll, retry, recoverVars,
                 deliv, limits, crashes>>

\* The returned id lacks the "batches/" prefix.
SaveInvalidJobID(s) ==
  /\ sub[s].pc = "saveJob" /\ Fault
  /\ sub' = [sub EXCEPT ![s].pc = "save", ![s].ent = MarkFailed(@)]
  /\ UNCHANGED <<tableVars, embedded, geminiVars, phase, waiting, backoff, poll, retry,
                 recoverVars, deliv, limits, crashes>>

SaveSubmissionFailure(s) ==
  /\ sub[s].pc = "save"
  /\ SaveOrLose(sub[s].batch, sub[s].ent)
  /\ sub' = [sub EXCEPT ![s] = IdleSub]
  /\ UNCHANGED <<embedded, geminiVars, phase, waiting, backoff, poll, retry, recoverVars,
                 deliv, limits, crashes>>

SubmitCall(s) ==
  UploadFile(s) \/ CreateAccepted(s) \/ CallRateLimited(s) \/ CallRejected(s)
SubmitSave(s) ==
  SaveFileURI(s) \/ SaveSubmitted(s) \/ SaveInvalidJobID(s) \/ SaveSubmissionFailure(s)

BackoffEnds(w) ==
  /\ backoff[w]
  /\ backoff' = [backoff EXCEPT ![w] = FALSE]
  /\ UNCHANGED <<tableVars, embedded, geminiVars, phase, waiting, sub, poll, retry,
                 recoverVars, deliv, boundVars>>

\* next_submission_at or next_retry_at of a waiting row has come.
BecomesDue(b) ==
  /\ ~rows[b].due /\ rows[b].status \in {"pending_submission", "retry_scheduled"}
  /\ rows' = [rows EXCEPT ![b].due = TRUE]
  /\ UNCHANGED <<created, embedded, geminiVars, phase, submitVars, poll, retry,
                 recoverVars, deliv, boundVars>>

-----------------------------------------------------------------------------
(* The poller: pollOnce, dispatchBatchByState and its handlers.            *)

\* GetPendingGeminiBatches; a cycle starts when the previous one has finished, and
\* one whose query or List call fails does nothing.
PollRead(w) ==
  LET pending == {b \in Batches : IsPendingGemini(rows[b])} IN
  /\ phase[w] = "running" /\ pending # {}
  /\ \A b \in Batches : poll[w][b].pc = "idle"
  /\ poll' = [poll EXCEPT ![w] =
              [b \in Batches |-> IF b \in pending THEN [pc |-> "polled", ent |-> rows[b]]
                                 ELSE IdlePoll]]
  /\ UNCHANGED <<tableVars, embedded, geminiVars, phase, submitVars, retry, recoverVars,
                 deliv, boundVars>>

PolledJob(w, b) == jobs[poll[w][b].ent.gjob]

\* The client's convertBatchJobState: a partial success is reported as completed.
ReportedState(state) == IF state \in {"succeeded", "partial"} THEN "completed" ELSE state

\* Pending, processing and cancelled jobs are left alone, and so is a batch
\* whose job the List call failed to return.
PollSkip(w, b) ==
  /\ poll[w][b].pc = "polled"
  /\ \/ ReportedState(PolledJob(w, b).state) \in {"pending", "cancelled"} /\ UNCHANGED faults
     \/ Fault
  /\ poll' = [poll EXCEPT ![w][b] = IdlePoll]
  /\ UNCHANGED <<tableVars, embedded, geminiVars, phase, submitVars, retry, recoverVars,
                 deliv, limits, crashes>>

PollCompleted(w, b) ==
  /\ poll[w][b].pc = "polled"
  /\ ReportedState(PolledJob(w, b).state) = "completed"
  /\ poll' = [poll EXCEPT ![w][b].pc = "results"]
  /\ UNCHANGED <<tableVars, embedded, geminiVars, phase, submitVars, retry, recoverVars,
                 deliv, boundVars>>

\* Mutant: one retry too many.
AfterJobFailure_OneMore(e) ==
  IF e.retries <= MaxRetries THEN ScheduleRetry(e) ELSE MarkFailed(e)

\* handleFailedBatch: what becomes of the entity.
AfterJobFailure(e) == IF e.retries < MaxRetries THEN ScheduleRetry(e) ELSE MarkFailed(e)

PollFailed(w, b) ==
  /\ poll[w][b].pc = "polled"
  /\ ReportedState(PolledJob(w, b).state) = "failed"
  /\ poll' = [poll EXCEPT ![w][b].pc = "save", ![w][b].ent = AfterJobFailure(@)]
  /\ UNCHANGED <<tableVars, embedded, geminiVars, phase, submitVars, retry, recoverVars,
                 deliv, boundVars>>

\* GetBatchJobResults refuses a partially succeeded job.
HasResults(job) == job.state = "succeeded"

\* Mutant: completed before the embeddings are stored.
StoreResults_Unsaved(w, b) ==
  /\ poll[w][b].pc = "results"
  /\ HasResults(PolledJob(w, b))
  /\ poll' = [poll EXCEPT ![w][b].pc = "complete",
                          ![w][b].ent = MarkCompleted(@, Cardinality(PolledJob(w, b).results))]
  /\ UNCHANGED <<tableVars, embedded, geminiVars, phase, submitVars, retry, recoverVars,
                 deliv, boundVars>>

\* processBatchResults up to SaveEmbeddings, which is one transaction.
StoreResults(w, b) ==
  LET results == PolledJob(w, b).results IN
  /\ poll[w][b].pc = "results"
  /\ HasResults(PolledJob(w, b))
  /\ embedded' = embedded \cup results
  /\ poll' = [poll EXCEPT ![w][b].pc = "complete",
                          ![w][b].ent = MarkCompleted(@, Cardinality(results))]
  /\ UNCHANGED <<tableVars, geminiVars, phase, submitVars, retry, recoverVars, deliv,
                 boundVars>>

\* Any step up to SaveEmbeddings may fail; the deferred function then marks the
\* batch failed.
ResultsFail(w, b) ==
  /\ poll[w][b].pc = "results"
  /\ \/ ~HasResults(PolledJob(w, b)) /\ UNCHANGED faults
     \/ Fault
  /\ poll' = [poll EXCEPT ![w][b].pc = "save", ![w][b].ent = MarkFailed(@)]
  /\ UNCHANGED <<tableVars, embedded, geminiVars, phase, submitVars, retry, recoverVars,
                 deliv, limits, crashes>>

\* The last Save of processBatchResults; when it fails so does the batch.
SaveCompleted(w, b) ==
  /\ poll[w][b].pc = "complete"
  /\ \/ /\ Save(b, poll[w][b].ent)
        /\ poll' = [poll EXCEPT ![w][b] = IdlePoll]
        /\ UNCHANGED faults
     \/ /\ Fault
        /\ poll' = [poll EXCEPT ![w][b].pc = "save", ![w][b].ent = MarkFailed(@)]
        /\ UNCHANGED tableVars
  /\ UNCHANGED <<embedded, geminiVars, phase, submitVars, retry, recoverVars, deliv,
                 limits, crashes>>

SavePolled(w, b) ==
  /\ poll[w][b].pc = "save"
  /\ SaveOrLose(b, poll[w][b].ent)
  /\ poll' = [poll EXCEPT ![w][b] = IdlePoll]
  /\ UNCHANGED <<embedded, geminiVars, phase, submitVars, retry, recoverVars, deliv,
                 limits, crashes>>

PollStep(w, b) ==
  \/ PollSkip(w, b) \/ PollCompleted(w, b) \/ PollFailed(w, b)
  \/ StoreResults(w, b) \/ ResultsFail(w, b) \/ SaveCompleted(w, b) \/ SavePolled(w, b)

-----------------------------------------------------------------------------
(* startRetryBatchPolling: the row read and the status update are two      *)
(* statements, and nothing is submitted again.                             *)

RetryRead(w) ==
  /\ phase[w] = "running" /\ retry[w] = 0
  /\ \E b \in Batches :
       /\ IsRetryReady(rows[b])
       /\ retry' = [retry EXCEPT ![w] = b]
  /\ UNCHANGED <<tableVars, embedded, geminiVars, phase, submitVars, poll, recoverVars,
                 deliv, boundVars>>

RetryWrite(w) ==
  /\ retry[w] # 0
  /\ UpdateStatus(retry[w], "processing")
  /\ retry' = [retry EXCEPT ![w] = 0]
  /\ UNCHANGED <<embedded, geminiVars, phase, submitVars, poll, recoverVars, deliv,
                 limits, crashes>>

-----------------------------------------------------------------------------
(* runWorkerService: consumers and submitter first, then recovery, and     *)
(* only then the poller and the retry loop.                                *)

\* The start reads the rows to recover; if that query fails, none is.
Start(w) ==
  /\ phase[w] = "down"
  /\ phase' = [phase EXCEPT ![w] = "recovering"]
  /\ \/ /\ recov' = [recov EXCEPT ![w] = [b \in Batches |->
                     IF IsPendingGemini(rows[b]) THEN rows[b].gjob ELSE NoJob]]
        /\ UNCHANGED faults
     \/ Fault /\ UNCHANGED recov
  /\ UNCHANGED <<tableVars, embedded, geminiVars, submitVars, poll, retry, failing, deliv,
                 limits, crashes>>

\* recoverBatch: jobs in progress or completed, and jobs whose status cannot be
\* read, are left to the poller.  Its "SUCCEEDED" case is unreachable: the
\* client reports a succeeded job as "COMPLETED".
RecoverCheck(w, b) ==
  /\ phase[w] = "recovering" /\ failing[w] = 0 /\ recov[w][b] # NoJob
  /\ \/ /\ jobs[recov[w][b]].state \in {"failed", "cancelled"}
        /\ failing' = [failing EXCEPT ![w] = b]
        /\ UNCHANGED faults
     \/ /\ jobs[recov[w][b]].state \notin {"failed", "cancelled"}
        /\ UNCHANGED <<failing, faults>>
     \/ /\ Fault
        /\ UNCHANGED failing
  /\ recov' = [recov EXCEPT ![w][b] = NoJob]
  /\ UNCHANGED <<tableVars, embedded, geminiVars, phase, submitVars, poll, retry, deliv,
                 limits, crashes>>

RecoverFail(w) ==
  /\ failing[w] # 0
  /\ UpdateStatus(failing[w], "failed")
  /\ failing' = [failing EXCEPT ![w] = 0]
  /\ UNCHANGED <<embedded, geminiVars, phase, submitVars, poll, retry, recov, deliv,
                 limits, crashes>>

RecoveryDone(w) ==
  /\ phase[w] = "recovering" /\ failing[w] = 0 /\ recov[w] = NoRecovery
  /\ phase' = [phase EXCEPT ![w] = "running"]
  /\ UNCHANGED <<tableVars, embedded, geminiVars, submitVars, poll, retry, recoverVars,
                 deliv, boundVars>>

\* Every goroutine of the process is gone; the table and Gemini remain.
Crash(w) ==
  /\ Up(w) /\ crashes < MaxCrashes /\ crashes' = crashes + 1
  /\ phase'   = [phase EXCEPT ![w] = "down"]
  /\ waiting' = [waiting EXCEPT ![w] = 0]
  /\ backoff' = [backoff EXCEPT ![w] = FALSE]
  /\ sub'     = [s \in Slots |-> IF s[1] = w THEN IdleSub ELSE sub[s]]
  /\ poll'    = [poll EXCEPT ![w] = [b \in Batches |-> IdlePoll]]
  /\ retry'   = [retry EXCEPT ![w] = 0]
  /\ recov'   = [recov EXCEPT ![w] = NoRecovery]
  /\ failing' = [failing EXCEPT ![w] = 0]
  /\ deliv'   = [d \in Deliveries |->
                  IF deliv[d].at = w THEN [deliv[d] EXCEPT !.pc = "done", !.need = {}]
                  ELSE deliv[d]]
  /\ UNCHANGED <<tableVars, embedded, geminiVars, faults, limits>>

-----------------------------------------------------------------------------
(* Gemini, as the code uses it: a job ends once, in a terminal state, and  *)
(* a lossy success has no parsable result line for some requests.          *)

GeminiEnds(j) ==
  /\ jobs[j].state = "pending"
  /\ \E outcome \in GeminiOutcomes, results \in SUBSET jobs[j].payload :
       /\ \/ outcome # "succeeded" /\ results = {}
          \/ outcome = "succeeded" /\ (results = jobs[j].payload \/ Lossy)
       /\ jobs' = [jobs EXCEPT ![j].state = outcome, ![j].results = results]
  /\ UNCHANGED <<tableVars, embedded, files, phase, submitVars, poll, retry, recoverVars,
                 deliv, boundVars>>

-----------------------------------------------------------------------------
Next ==
  \/ \E d \in Deliveries : DeliveryStep(d) \/ \E w \in Workers : StartDelivery(d, w)
  \/ \E w \in Workers : Tick(w) \/ BackoffEnds(w)
  \/ \E s \in Slots : SubmitRead(s) \/ SubmitCall(s) \/ SubmitSave(s)
  \/ \E b \in Batches : BecomesDue(b)
  \/ \E w \in Workers : PollRead(w) \/ \E b \in Batches : PollStep(w, b)
  \/ \E w \in Workers : RetryRead(w) \/ RetryWrite(w)
  \/ \E w \in Workers : Start(w) \/ RecoverFail(w) \/ RecoveryDone(w)
                        \/ \E b \in Batches : RecoverCheck(w, b)
  \/ \E w \in Workers : Crash(w)
  \/ \E j \in JobIds : GeminiEnds(j)

Spec == Init /\ [][Next]_vars

\* Tickers keep firing, calls return, workers are restarted by their supervisor,
\* timestamps pass and Gemini ends every job.  Nothing is assumed about
\* deliveries that have not started, faults, quota errors or crashes.
Fairness ==
  /\ \A w \in Workers :
       /\ WF_vars(Start(w)) /\ WF_vars(RecoveryDone(w)) /\ WF_vars(RecoverFail(w))
       /\ WF_vars(Tick(w)) /\ WF_vars(BackoffEnds(w)) /\ WF_vars(PollRead(w))
       /\ WF_vars(RetryRead(w)) /\ WF_vars(RetryWrite(w))
       /\ \A b \in Batches : WF_vars(PollStep(w, b)) /\ WF_vars(RecoverCheck(w, b))
  /\ \A s \in Slots :
       WF_vars(SubmitRead(s)) /\ WF_vars(SubmitCall(s)) /\ WF_vars(SubmitSave(s))
  /\ \A b \in Batches : WF_vars(BecomesDue(b))
  /\ \A d \in Deliveries : WF_vars(DeliveryStep(d))
  /\ \A j \in JobIds : WF_vars(GeminiEnds(j))

FairSpec == Spec /\ Fairness

-----------------------------------------------------------------------------
(* Properties.                                                             *)

Job == [state   : {"unused", "pending", "succeeded", "partial", "failed", "cancelled"},
        batch   : Batches,
        payload : SUBSET Chunks,
        results : SUBSET Chunks]

Submission == [pc : {"idle", "upload", "create", "saveFile", "saveJob", "save"},
               batch : Batches, ent : Entity, job : JobIds \cup {NoJob}]

Polling == [pc : {"idle", "polled", "results", "complete", "save"}, ent : Entity]

Delivery == [pc : {"new", "filter", "enqueue", "record", "sequential", "done"},
             at : Workers \cup {0}, split : [Batches -> SUBSET Chunks],
             n : Batches, need : SUBSET Chunks]

\* Every variable has its type; in particular no counter passes its limit.
TypeOK ==
  /\ rows \in [Batches -> Entity]
  /\ created \in Seq(Batches)
  /\ embedded \in SUBSET Chunks
  /\ files \in [Batches -> SUBSET Chunks]
  /\ jobs \in [JobIds -> Job]
  /\ phase \in [Workers -> {"down", "recovering", "running"}]
  /\ waiting \in [Workers -> 0..MaxWaiting]
  /\ backoff \in [Workers -> BOOLEAN]
  /\ sub \in [Slots -> Submission]
  /\ poll \in [Workers -> [Batches -> Polling]]
  /\ retry \in [Workers -> 0..NumBatches]
  /\ recov \in [Workers -> [Batches -> JobIds \cup {NoJob}]]
  /\ failing \in [Workers -> 0..NumBatches]
  /\ deliv \in [Deliveries -> Delivery]
  /\ faults \in 0..MaxFaults /\ limits \in 0..MaxRateLimits /\ crashes \in 0..MaxCrashes

\* A queued row has something to submit, no job yet, and attempts left, however
\* many stale entities were written over it.
QueuedIsSubmittable ==
  \A b \in Batches : rows[b].status = "pending_submission" =>
    /\ rows[b].payload # {}
    /\ rows[b].gjob = NoJob
    /\ rows[b].attempts < MaxSubmissionAttempts

\* A row says "completed" only once every embedding its Gemini job returned is
\* stored, and counts exactly those.
CompletedIsStored ==
  \A b \in Batches : rows[b].status = "completed" =>
    \E j \in JobIds :
      /\ rows[b].gjob = j /\ jobs[j].batch = b /\ jobs[j].state = "succeeded"
      /\ jobs[j].results \subseteq embedded
      /\ rows[b].done = Cardinality(jobs[j].results)

\* The retry loop never obtains another Gemini job: a row that was ever retried
\* still points at the job that failed, so it can not complete.
RetriedJobHasFailed ==
  \A b \in Batches : rows[b].retries > 0 =>
    \E j \in JobIds :
      rows[b].gjob = j /\ jobs[j].batch = b /\ jobs[j].state = "failed"

\* A processing row carries a Gemini job id; the poller and the recovery service
\* see no other processing rows.
ProcessingHasJob ==
  \A b \in Batches : rows[b].status = "processing" => rows[b].gjob # NoJob

\* What a row's Gemini job embeds is what the row asked for.
JobEmbedsRequest ==
  \A b \in Batches :
    rows[b].gjob # NoJob => jobs[rows[b].gjob].payload = rows[b].payload

\* A settled row is never touched again.
SettledStaysSettled ==
  [][\A b \in Batches :
       rows[b].status \in {"completed", "failed"} => rows'[b] = rows[b]]_vars

JobsOf(b) == {j \in JobIds : jobs[j].state # "unused" /\ jobs[j].batch = b}

\* A queued batch is submitted to Gemini once.
SubmittedOnce == \A b \in Batches : Cardinality(JobsOf(b)) <= 1

Settled(b) == rows[b].status \in {"completed", "failed"}

\* Every batch that is queued ends up completed or failed.
EveryBatchSettles ==
  \A b \in Batches : rows[b].status = "pending_submission" ~> Settled(b)

\* ... and stays there, even if two submitters each had a job created for it and
\* their writes took turns undoing each other.
EveryBatchComesToRest ==
  \A b \in Batches : rows[b].status = "pending_submission" ~> []Settled(b)

\* The pipeline as its caller sees it.  "processing" and "retry_scheduled" are
\* one stage: the row is Gemini's business.
Stage(status) ==
  CASE status = "absent" -> "none"
    [] status = "pending_submission" -> "queued"
    [] status \in {"processing", "retry_scheduled"} -> "inflight"
    [] status = "completed" -> "finished"
    [] OTHER -> "abandoned"

Promise == INSTANCE BatchPromise WITH
  stage  <- [b \in Batches |-> Stage(rows[b].status)],
  want   <- [b \in Batches |-> rows[b].payload],
  stored <- embedded,
  count  <- [b \in Batches |-> IF rows[b].status = "completed" THEN rows[b].done ELSE 0]

\* With one delivery, one worker and no sequential fallback, no crash, fault or
\* retry takes a batch off its path from the queue to its end.
KeepsPromise == Promise!Spec
=============================================================================
