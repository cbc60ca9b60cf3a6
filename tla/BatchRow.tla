------------------------------ MODULE BatchRow ------------------------------
(***************************************************************************)
(* The batch_job_progress row and the entity the Go code reads it into     *)
(* (internal/domain/entity/batch_job_progress.go).  A row and an entity in *)
(* a goroutine's hands are the same record: the repository reads and       *)
(* writes whole rows, which is what makes a stale entity dangerous.        *)
(*                                                                         *)
(* Abstractions: a chunk is a model value, the JSON request data is the    *)
(* set of chunks it asks to embed, and the two timestamps (next_retry_at,  *)
(* next_submission_at) are one flag "due", true once the moment the row    *)
(* waits for has passed; each is read only in the status that sets it.     *)
(***************************************************************************)
EXTENDS Naturals, FiniteSets

CONSTANTS
  NumBatches,             \* batches of the one indexing job modelled
  Chunks,                 \* code chunks of the repository
  MaxJobs,                \* bound: Gemini batch jobs the model can create
  MaxSubmissionAttempts,  \* BatchSubmitterConfig.MaxSubmissionAttempts
  MaxRetries              \* the poller's maxRetries

ASSUME CountsAssumption ==
  /\ NumBatches \in Nat \ {0}
  /\ MaxJobs \in Nat
  /\ MaxSubmissionAttempts \in Nat \ {0}
  /\ MaxRetries \in Nat

ASSUME ChunksAssumption == IsFiniteSet(Chunks)

Batches == 1..NumBatches
JobIds  == 1..MaxJobs
NoJob   == 0            \* gemini_batch_job_id IS NULL

Statuses == {"absent", "pending", "pending_submission", "processing",
             "completed", "failed", "retry_scheduled"}

Entity == [status   : Statuses,
           payload  : SUBSET Chunks,
           attempts : 0..MaxSubmissionAttempts,
           retries  : 0..MaxRetries,
           gjob     : JobIds \cup {NoJob},
           file     : BOOLEAN,
           due      : BOOLEAN,
           done     : 0..Cardinality(Chunks)]

-----------------------------------------------------------------------------
(* Constructors and mutators of the entity.                                *)

NewBatchJobProgress ==
  [status |-> "pending", payload |-> {}, attempts |-> 0, retries |-> 0,
   gjob |-> NoJob, file |-> FALSE, due |-> TRUE, done |-> 0]

Absent == [NewBatchJobProgress EXCEPT !.status = "absent"]

MarkPendingSubmission(e, chunks) ==
  [e EXCEPT !.status = "pending_submission", !.payload = chunks,
            !.attempts = 0, !.due = TRUE]

MarkSubmissionFailed(e, dueNow) ==
  [e EXCEPT !.attempts = @ + 1, !.due = dueNow]

SetGeminiFileURI(e) == [e EXCEPT !.file = TRUE]

\* Mutants: the job id, or the status, is forgotten.
MarkSubmittedToGemini_NoID(e, j) == [e EXCEPT !.status = "processing"]
MarkSubmittedToGemini_KeepsStatus(e, j) == [e EXCEPT !.gjob = j]

MarkSubmittedToGemini(e, j) == [e EXCEPT !.status = "processing", !.gjob = j]

MarkCompleted(e, n) == [e EXCEPT !.status = "completed", !.done = n]

MarkFailed(e) == [e EXCEPT !.status = "failed"]

ScheduleRetry(e) ==
  [e EXCEPT !.status = "retry_scheduled", !.retries = @ + 1, !.due = FALSE]

\* Mutants of the WHERE clauses below: failed rows too; only rows never tried;
\* any status; no test for a job id.
IsPendingSubmission_OrFailed(r) == r.status \in {"pending_submission", "failed"} /\ r.due
IsPendingSubmission_Untried(r)  == r.status = "pending_submission" /\ r.attempts = 0
IsPendingGemini_AnyStatus(r)    == r.gjob # NoJob
IsPendingGemini_AnyJobID(r)     == r.status = "processing"

(* Which rows each query of the repository returns.                        *)
IsPendingSubmission(r) == r.status = "pending_submission" /\ r.due
IsPendingGemini(r)     == r.status = "processing" /\ r.gjob # NoJob
IsRetryReady(r)        == r.status = "retry_scheduled" /\ r.due
=============================================================================
