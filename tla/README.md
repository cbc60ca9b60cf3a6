# A TLA+ development of codechunking

codechunking indexes Git repositories for semantic search. An API process stores
a repository and an indexing job and publishes a message on NATS JetStream;
worker processes clone the repository, parse it into chunks with tree-sitter, and
have the chunks embedded by Google Gemini. When a repository is large the
embedding is asynchronous: the job only queues *batches* in the table
`batch_job_progress`, and background loops submit them to the Gemini batch API,
poll the jobs and store the results, for as long as hours after the message was
acknowledged and across restarts of the workers.

This directory holds TLA+ modules translated from the code, TLC configurations
that check them on small instances, and theorems proved with TLAPS for every
instance. All source paths below are relative to the repository's root.

Contents: 1. the system · 2. the modules · 3. how the model corresponds to the
code · 4. the properties · 5. the runs and their bounds · 6. fairness · 7. the
proofs · 8. findings · 9. what is not modelled · 10. the plan

## 1. The system

### 1.1 Inventory

| Component | State | Operations | What is hard | What makes it correct |
|---|---|---|---|---|
| Batch progress table (`domain/entity/batch_job_progress.go`, `adapter/outbound/repository/batch_progress_repository.go`) | one row per (job, batch number): status, retry count, submission attempts, Gemini job id, file URI, request data, two timestamps | entity mutators; `Save` (whole-row upsert), `UpdateStatus` (status only), queries by status | no version column, no transaction around read–change–write, so a stale entity overwrites anything; `FOR UPDATE SKIP LOCKED` outside a transaction | a row's claims (queued, in flight, completed, retried) are true of Gemini and of the store, whoever wrote it last |
| Batch submitter (`application/worker/batch_submitter.go`) | ticker, semaphore, process-wide backoff | tick, read oldest ready row, upload file, create job, save, classify failures | quota backoff races goroutines already past its check; crash between creation and save; counter compared before its increment | a queued row is submittable; it reaches an end; attempts stay within the limit |
| Batch poller (`application/worker/batch_poller.go`) | one goroutine per polled batch, bounded by a semaphore | query, list jobs, dispatch by state, download, store, complete, retry, fail | partial success, failure between storing and saving, stale entity over a long download | completed only after everything is stored; retries bounded; a settled row stays settled |
| Recovery (`application/worker/batch_recovery_service.go`) | the rows read at start | check each row's job, fail the row by id | the submitter is already running | never undoes progress |
| Worker process (`cmd/worker.go`) | goroutines, shutdown context | start order, retry loop, stop | retry loop reads and writes in two statements | a retried batch moves on |
| Gemini client (`adapter/outbound/gemini/`) | files named after row ids, jobs | upload, create, status, results | a lost reply after a created job; reused files; partial results | the job embeds what the row asks for |
| Job processor, embedding (`application/worker/job_processor.go:944-3167`) | position in the batch list, token-counting goroutines | persist chunks, count tokens beside, filter known embeddings, queue a batch, fall back to embedding one by one | redelivery while an earlier delivery still runs; two writers of the same chunk rows in one job; fallback half-way | what is queued is needed and names stored chunks; a job that ends well has embedded everything |
| Chunk storage (`adapter/outbound/repository/chunk_repository.go`) | `code_chunks` and two embedding tables | `SaveChunks`, `FindOrCreateChunks`, `SaveChunkWithEmbedding`, `SaveEmbeddings`, `GetChunkIDsWithEmbeddings` | row locks in different orders, aborted transactions, an upsert that keeps the old id | ids handed out are the stored ones; deadlocks end |
| Batch queue manager (`adapter/outbound/queue/batch_queue_manager.go`) | a queue per priority, `max_queue_size` | queue; process, flush and drain are called by nothing outside tests | only ever fills | a full queue loses no job |
| Job processor, lifecycle (`job_processor.go:150-720`, `domain/entity/{repository,indexing_job}.go`, `domain/valueobject/*status.go`) | status of the repository and of the job | clone, parse, index, finalise, fail, skip | status read once and used at the end of a long run; redelivery; writes on an expired context | legal transitions only; completed means indexed; nothing stays in `processing` |
| Parsing of a checkout (`adapter/outbound/treesitter/code_parser.go`) | a goroutine per file in a bounded pool, two channels | walk, launch, parse a file, collect, close | channels closed while someone sends; capacity against a collector that starts late; the last piece of a file | every file's chunks arrive once; no line is lost; it returns |
| Tree-sitter parsers (`adapter/outbound/treesitter/`) | none that outlives a file | extract the constructs of one language from one file | grammar | outside the subject but for what becomes of their errors |
| Consumer and worker service (`adapter/inbound/messaging/`, `application/service/worker_service.go`) | running, draining, subscription, pending count; the durable consumer at the server | start, stop, restart, add, remove; message loop; drain, flush, close | flags read under a lock and used after it; a loop that is not waited for; AckWait 30 s against jobs of minutes; a recreated durable consumer forgets who holds what | no message is lost to a failure; one batch at a time; nothing fetched while draining |
| Publisher (`adapter/outbound/messaging/`, `adapter/outbound/mock/`) | connection, circuit breaker | publish; a mock where NATS cannot be reached | the breaker's clock; an acknowledgement nobody reads | published means stored; the breaker closes again |
| API and application services (`adapter/inbound/{api,service}`, `application/handler`, `application/service/repository_service.go`) | none of their own | create, reset, archive a repository; create and publish a job | two writes and a publish with no transaction; a reset while a worker holds the row | a request that is accepted is indexed; an archived repository stays archived |
| Connector reconciler (`application/service/connector_reconciler.go`) | configured connectors against the `connectors` table | create, update, reactivate, mark inactive, repair | a row left `syncing` by a process that ended | after a start the table says what the configuration says |
| Connector synchronisation (`application/service/connector_service.go`, `cmd/api.go`) | the connector's row, one goroutine per sync | page through active connectors, create the provider's missing repositories with a job, publish pending jobs again | requests and the background sync of one connector at once; overlapping connectors; rows written back whole | one job for a discovered repository; a lost message is sent again |
| Concurrent indexing with Zoekt (`application/worker/`, `adapter/outbound/zoekt`) | a status per engine | index both, merge | one engine fails | repository status agrees with both |
| Search and ranking (`application/service/search_service.go`, `hybrid_ranking_service.go`, `adapter/outbound/repository/vector_storage_repository.go`) | a cache of chunks by file | vector search, text search, resolution of file matches, fusion, sorting, paging | several statements while rows change; filters after the limit; two lists with different ideas of identity | nothing twice; fusion respects agreement; pages tile |
| Graceful shutdown, dead letters, acknowledgement handler, in-memory queue and parallel processor, services' circuit breaker and retry, checkpoints, error logging, disk services, parser pool | each its own | — | — | no command constructs them: they are code without a caller |
| Git client and providers, chunkers of `adapter/outbound/chunking`, HTTP API, CLI, configuration, logging and metrics | no shared state that outlives a call | — | text and I/O | outside the subject |

`PROJECT.json` lists the same components with their files and status, and the
hazards, each at the line where it bites.

### 1.2 Interactions

```
 API ──publish──▶ NATS ──deliver (AckWait 30 s, MaxDeliver 3)──▶ job processor
                                                                    │ Save
        retry loop ──UpdateStatus──▶ batch_job_progress ◀───────────┘
                                       ▲   ▲    ▲
                                  Save │   │Save│ UpdateStatus
                              submitter│   │    └──── recovery (at start)
                                       ▼   ▼poller ──▶ embeddings
                                       Gemini files and jobs
```

The lifecycle around it has the same shape, one level up:

```
 POST /repositories ──reset──▶ repositories ◀──status── job processor(s)
 DELETE ────────────archive──▶      ▲                      │      ▲
                                    │ read                 ▼      │ deliver
 connector sync ────────────────────┴──── indexing_jobs ◀──┘    NATS
        └────────────── publish again ───────────────────────────▲
```

Inside one delivery, and at the other end, where what was indexed is read:

```
 connectors ──reconcile/sync──▶ repositories, jobs ──publish──▶ NATS
                                                                  │ fetch, Ack/Nak
 checkout ──walk, goroutine per file──▶ chunks in any order ◀── worker service
                                          │ FindOrCreateChunks      (loop per start)
                                          ▼
   token counts ──SaveChunks──▶ code_chunks ◀──FK── embeddings ◀── poller, fallback
                                     ▲                  ▲
                                     └── fetch ── search ── vector query
                                                    │
                                                  Zoekt
```

The actors hardly ever call each other. They meet in the tables, on the stream and
in the Gemini service, which is why the interesting behaviour is in interleavings:
each reads a row, makes calls that take from milliseconds to hours, and writes the
whole entity back. The components are connected by what they leave behind: the order
in which `ParseDirectory` delivers chunks is arbitrary, so two deliveries of one message
cut them into different batches; that is an input of `ChunkStore` (`Parses`) and of
`BatchPipeline` (`Splits`).

## 2. The modules

| Module | What it is |
|---|---|
| `BatchRow` | the row/entity record, its mutators and the WHERE clauses of the three queries; the constants and assumptions all others share |
| `BatchPipeline` | the specification: deliveries, submitter, poller, retry loop, recovery, crash, Gemini; the properties |
| `BatchPromise` | the abstract specification: what a caller is promised about a batch |
| `BatchInvariant` | the inductive invariant `IInv`, and `OwnInv`, who owns a row |
| `MCBatchPipeline` | values for TLC |
| `BatchPipelineProofs` | the pipeline's theorems and their proofs: for any number of workers and deliveries, and, for one of each, with the refinement of `BatchPromise` |
| `RepositoryLifecycle` | one repository and its jobs: requests, removal, connector sync, workers; properties and inductive invariant |
| `RepositoryLifecycleProofs` | the lifecycle's theorems and their proofs, for any number of workers and for one |
| `WorkerConsumer` | worker processes with their service, consumer and message loops, and the durable consumer they share; properties and inductive invariant |
| `WorkerConsumerProofs` | the consumer's theorems and their proofs |
| `DeliveryPromise` | the abstract specification of the stream towards the workers, which `WorkerConsumer` and `RepositoryLifecycle` implement |
| `ConnectorSync` | an API process: reconciler, lister, syncs, publishers with their breakers; properties and inductive invariant |
| `ConnectorSyncProofs` | its theorems and their proofs |
| `ChunkStore`, `MCChunkStore` | jobs that store, count and embed the same chunks in transactions; values for TLC |
| `ChunkStoreProofs` | its theorems and their proofs |
| `ParseDirectory`, `MCParseDirectory` | the goroutines that parse a checkout; values for TLC |
| `ParseDirectoryProofs` | its theorems and their proofs |
| `SearchPages`, `MCSearchPages` | searches, page after page, while rows change; values for TLC |
| `SearchPagesProofs` | its theorems and their proofs |
| `Lists` | the loop that filters a list and the comparison that sorts one, shared by `ParseDirectory` and `SearchPages` |
| `ListTheorems` | what those do to any list, and the induction and recursion theorems behind it |

`MCBatchPipeline` EXTENDS `BatchInvariant`, which EXTENDS `BatchPipeline`, which
EXTENDS `BatchRow` and instantiates `BatchPromise` with a refinement mapping.
`BatchPipelineProofs` EXTENDS `BatchInvariant` and TLAPS. `ParseDirectory` and `SearchPages`
EXTEND `Lists`, and their proofs `ListTheorems`. Every other specification
stands alone, and its runs need no module for values unless one is listed. They meet
where one abstracts what another details:

- `RepositoryLifecycle.Index` is a whole delivery of `BatchPipeline`: it ends when the
  content is embedded *or queued* (or, with `ConcurrentIndexing`, is in Zoekt's
  index), and what becomes of the queue is the pipeline's subject.
- `WorkerConsumer.JobEnds` is a whole run of `RepositoryLifecycle`, whose `Deliver` and
  `Settle` are the server's side of `Fetch` and `Reply`. What makes this more than a
  remark is `DeliveryPromise`: both modules implement it, `WorkerConsumer` by all that
  services, loops, drains and the server do, `RepositoryLifecycle` by what it takes the
  stream to do to its workers.
- `BatchPipeline.FilterBatch` persists a batch's chunks in one step; the transactions
  and locks behind it are `ChunkStore`'s, which in turn abstracts the pipeline's rows
  to the batches that wait for their embeddings.
- `ConnectorSync.TakeJob` is a worker; `RepositoryLifecycle.SyncPublish` is what of a
  sync reaches it.

Operators named `Name_Fault` are variants of the definition `Name` with one
plausible mistake. Nothing in a specification uses them; replacing `Name` by one
shows that a property notices.

## 3. How the models correspond to the code

### 3.1 The pipeline

**State.** `rows` is the table, one record per batch number of one indexing job
(the upsert key is job and batch number), `"absent"` for no row; `created` keeps
the `created_at` order the submitter's query sorts by. `embedded` is the
embeddings table. `files` and `jobs` are Gemini's. `phase` is the life of a
worker process; `waiting`, `backoff`, `sub` are the submitter's goroutines and
`globalBackoffUntil`; `poll`, `retry`, `recov`, `failing`, `deliv` are what each
goroutine holds between two calls. A goroutine's `ent` is the Go entity it
carries: a copy of a row that may be stale.

**Grain.** One action is one database statement or one service call together
with the local computation around it. Everything else that can happen, happens
between two such calls. A whole handler is a chain of actions through the `pc` of
its goroutine:

| Code | Actions |
|---|---|
| `processBatchLoop`, `processAsyncBatch`, `filterNewEmbeddings`, `enqueueBatchProgress`, `saveBatchProgress`, `processSequentialEmbeddings` | `StartDelivery`, `FilterBatch`, `EnqueueBatch`, `RecordFailedBatch`, `EmbedSequentially` |
| `submissionLoop`, `submitOneBatch`, `submitNewBatch`, `submitWithExistingFile`, `handleSubmissionFailure` | `Tick`, `SubmitRead`, `UploadFile`, `CreateAccepted`, `CallRateLimited`, `CallRejected`, `SaveFileURI`, `SaveSubmitted`, `SaveInvalidJobID`, `SaveSubmissionFailure`, `BackoffEnds` |
| `pollOnce`, `dispatchBatchByState`, `handleCompletedBatch`, `processBatchResults`, `handleFailedBatch` | `PollRead`, `PollSkip`, `PollCompleted`, `PollFailed`, `StoreResults`, `ResultsFail`, `SaveCompleted`, `SavePolled` |
| `startRetryBatchPolling` | `RetryRead`, `RetryWrite` |
| `RecoverPendingBatches`, `recoverBatch` | `Start`, `RecoverCheck`, `RecoverFail`, `RecoveryDone` |
| end of the process | `Crash` |
| the passage of time | `BecomesDue`, `BackoffEnds` |
| Gemini (external, modelled from how the client uses it) | `GeminiEnds`, and the effects of `UploadFile`, `CreateAccepted`, `CallRejected` |

**Failures.** A call fails by spending one of `MaxFaults`; a quota error spends
one of `MaxRateLimits` and, as in the code, starts the backoff. `CallRejected`
includes the request that reached Gemini and created a job whose reply was lost.
A save whose error is only logged is `SaveOrLose`.

**Abstractions.**
- A chunk is a model value and the JSON request data of a row is the set of
  chunks it asks for. That the JSON fails to parse is left out: only the
  application writes it.
- `next_submission_at` and `next_retry_at` are one flag `due`; each is read only
  in the status that sets it. Durations (tick, backoff, delays) are not modelled,
  so every order they could produce is possible.
- A poll cycle takes one List call and uses its answers for all batches. The
  model reads a job's state at the dispatch instead: a Gemini job changes once,
  from pending to a final state, so reading later only exchanges a skipped
  dispatch for the next cycle's. The poller's semaphore only delays its
  goroutines and is left to the interleaving. A cycle whose query or List call
  fails does nothing, which is a stutter.
- Chunks get stable ids when they are persisted, so persisting them again has no
  effect the model needs; its failure does (`FilterBatch`).
- The graceful stop ends with the same state as a crash, so `Crash` stands for
  both; the drain in between is not modelled.
- `SaveInvalidJobID` is the code's test of the `batches/` prefix of a job id.
- `Crash` also ends the deliveries running on the worker; a further delivery is
  the redelivery.

### 3.2 The lifecycle

**State.** `repo` is the status of the one `repositories` row (`"none"`: no row;
`"archived"`: the row is soft-deleted and no query finds it). `jobs` is
`indexing_jobs`; `counted` tells a job that reports its chunks from one that was
skipped with zero counts. `msgs` is the stream with, for each message, the
deliveries it has left. `run` is what each worker's goroutine holds: the message,
the status its job entity has (`ent`), the repository status read at the start
(`stale`), the target of the update in progress (`goal`). `covered` and `fresh`
are history: the requests whose content an engine has, or is in the clone.

**Grain.** As above: one action per statement or long call. `updateRepositoryStatus`,
`markRepositoryFailed` and `markRepositoryCompleted` are the same two actions,
`CheckTransition` (read the row, check the transition on the entity) and
`WriteTransition` (write the whole row), with what follows in `Accepted` and
`Refused`.

| Code | Actions |
|---|---|
| `CreateRepository`, `createAndSaveRepository`, `publishIndexingJob` | `FindRepository`, `InsertRepository`, `ResetRepository`, `SaveJob`, `PublishJob` |
| `DeleteRepository` | `DeleteFind`, `DeleteArchive` |
| `republishPendingJob` | `SyncFind`, `SyncPublish` |
| `ProcessJob`, `persistJobStart` | `Deliver`, `LoadJob`, `StartJob` |
| `executeJobPipeline`, `handleRepositoryStatus`, `transitionTo...`, `handleTransitionFailure` | `ReadRepository`, `Setup`, `CheckTransition`, `WriteTransition`, `Clone`, `Index` |
| `persistJobComplete`, `persistJobSkip`, `persistJobFail` | `EndJob` |
| `processMessage` | `Settle` |
| `context.WithTimeout(JobTimeout)` | `TimeOut` |
| end and start of the process, `createDurableConsumer` | `Crash`, `Restart` |
| `MaxAge` of the stream (external) | `Expire` |

**Abstractions.**
- One repository: the repositories are independent of each other but for the
  worker that is busy with one of them, which is a delay.
- A message may be delivered to an idle worker whenever it is not acknowledged:
  after a Nak, after a crash, or because AckWait (30 s) has expired while a run
  of minutes is still going on. There is no message of progress in the code.
- A restarting consumer deletes and recreates the durable consumer, so the
  deliveries of every open message are counted from the start.
- The stream's `MaxAge` (a day) drops a message that is still stored (`Expire`),
  also from under a worker that is still at it; a later Ack of it finds nothing. A
  job whose messages have all expired waits for a connector's sync, so the liveness
  properties exclude it.
- `TimeOut` at any point of a run makes all later calls on the job's context
  fail: nothing more is written, and the message is answered with Nak, or with Ack
  if the run was already recording its success or had one engine done.
- `ConcurrentIndexing` (`zoekt.concurrent_indexing.enabled`, true in the shipped
  configurations) runs Zoekt beside the embeddings. One engine may fail: the run
  goes on and the repository is completed (`finalizeWithConcurrencyResult`). An
  expired JobTimeout may then leave one engine done: its error is dropped too and the
  message acknowledged. An error after which no engine is done, and a parse error,
  fail the run. Left out are the two per-engine status columns: their intermediate
  hops always succeed, and they are read only to be advanced.
- `handleTransitionFailure` reads the repository once more before it marks it
  failed; failed -> failed is refused anyway, so this read is left out.
- The workspace is per message and is removed when a run ends; a clone into the
  remains of a crashed run fails, which is among the `errors`.
- An empty clone is an error of `generateEmbeddings`, among the `errors`.
- The sync's query takes the newest pending job; here any pending job. Its
  creation of a missing repository is a request that found none.
- A crash of the API between two statements has the effect of a fault.
- Updating a repository, and creating, updating or cancelling a job on its own,
  have services but no route that reaches them.
- The comment of `handleRepositoryStatus` has archived repositories skipped; its
  query does not return them, so the run ends with "repository not found".

### 3.3 The consumer

**State.** `stream` holds the messages that are stored and `expired` (history) those that
the stream's age limit dropped; `created`, `out`, `due` and
`count` are the durable consumer at the server (external): whether it exists, the
messages it waits an acknowledgement for, those of them that are to be delivered
again, and their deliveries. `proc[w]` is a worker process: the service's `running`
flag (`serving`), whether the consumer is in its map (`member`), and the fields of
`NATSConsumer`. `loop[w][i]` is the goroutine of the consumer's i-th start; a second
start does not wait for the first's goroutine to end.

**Grain.** One action is what a goroutine does under one hold of `n.mu` or `w.mu`, or
one call of the server. `Drain` keeps `n.mu` for all of its wait (`waiting`), so every
action that needs the lock is disabled while it does.

| Code | Actions |
|---|---|
| `runWorkerService`, `Start` of service and consumer, `createDurableConsumer` | `ProcessStart`, `ServiceStart`, `StartConsumer` |
| `Stop`, `AddConsumer`, `RemoveConsumer`, `RestartConsumer` of the service | `ServiceStop`, `AddConsumer`, `RemoveConsumer`, `RestartStop`, `RestartStart` |
| `Drain`, `FlushPending`, `Close` | `DrainBegins`, `DrainEnds`, `FlushPending`, `Close` |
| `messageProcessingLoop`, `fetchAndProcessMessages`, `processMessage`, `handleMessage` | `CheckFlags`, `Fetch`, `NextMessage`, `JobEnds`, `UpdateStats`, `UpdateHealth`, `Reply` |
| end of the process | `Crash` |
| JetStream (external) | `AckWaitEnds`, `GiveUp`, `RecreateDurable`, `Expire`, and `Available` |

**Abstractions.** A job is a call that returns success or failure; what it does is the
lifecycle's. The error of Ack and Nak is dropped in the code: `Reply` may be lost, as one
of the `MaxTroubles` failures or, once `Close` has closed the connection it was to be sent
on, at any time; the message then stays and is delivered again. The wait of a drain is a poll of `pendingMessages`, which nobody can
change meanwhile: it ends at once or times out. The methods of service and shutdown
manager are called in any order, at most `MaxCalls` times; the worker command itself
calls `Start` and `Stop` only. Health, statistics and metrics decide nothing.

### 3.4 Connectors and the publisher

**State.** `config` is the configuration file and `row` the `connectors` table, each
with a version that stands for all fields but the status; `repos` and `jobs` are the
tables; `stream` the repositories with a message. `phase`, `todo` and `lister` are
the process's start and its background goroutine; `sync[k][c]` is the sync of
connector `c` that a request (`k = "request"`) or the lister (`"startup"`) began, with
the copy of the row it read; `publisher[k]` is the publisher of each of the two
connector services, which do not share one.

**Grain.** One action per statement or call. A sync writes the whole row from its copy.

| Code | Actions |
|---|---|
| `Reconcile`, `upsertConnector` | `Start`, `Reconcile`, `ReconcileEnds` |
| `createMessagePublisher`, twice | `Connect` |
| `SyncAllConnectors` | `ListPage`, `Dispatch`, `NextPage` |
| `POST /connectors/{id}/sync` | `Request` |
| `SyncConnector` | `FindConnector`, `MarkSyncStarted`, `ListRepositories`, `MarkSyncEnded` |
| `syncRepo`, `republishPendingJob` | `CheckExists`, `FindPendingJob`, `SaveRepository`, `SaveJob`, `PublishJob` |
| `PublishIndexingJob`, `updateCircuitBreaker` | `PublishIndexingJob`, `Failed`, `TimePasses` |
| end of the process, a new configuration | `Stop`, `EditConfig` |
| worker, `MaxAge` of the stream (external) | `TakeJob`, `Expire` |

**Abstractions.** An entry of the configuration can have an invalid type: the reconciler
skips it and leaves the row as it was (`Reconciled`). The provider lists the same repositories for every connector, which
is the case the unique URL has to decide. A connector that a later page lists again
while the lister's own sync of it runs waits for its turn in the model; in the code a
second goroutine runs beside it, as one for a request does here. A job is no longer
pending when a worker takes the message, and never becomes pending again.

### 3.5 The chunk store

**State.** `rows[k]` is the row of `code_chunks` with the unique key `k` (file path and
content hash): its id and token count. `partitioned` and `regular` are the two
embedding tables. `lists[j]` is what job `j`'s parse gave, in its order and with its
duplicates. `tx[t]` is an open transaction: the chunks still to upsert, and those
upserted, whose rows it has locked. `job[j]` is where the job is, the ids it believes its
chunks have and the batches it has queued; `counter` what its counting goroutines have
left.

**Grain.** The upsert of one row is one action, the commit another. Two transactions
over the same rows in different orders therefore wait for each other; `Deadlocked` finds
the cycle as PostgreSQL does, and any of its members may be the victim (`Fails`).

| Code | Actions |
|---|---|
| `generateEmbeddingsWithBatch`, `processBatchEmbeddings` | `Begin`, `QueueBulk` |
| `persistChunks`, `FindOrCreateChunks` | `UpsertRow`, `FindOrCreateChunks`, `FindOrCreateFails` |
| `resolveAndFilterChunks`, `filterNewEmbeddings`, `GetChunkIDsWithEmbeddings` | `FilterNewEmbeddings` |
| `enqueueBatchProgress`, `processSequentialEmbeddings` | `EnqueueBatch`, `FallBack` |
| `processEmbeddingsWithGenerator`, `SaveChunkWithEmbedding` | `EmbedNext`, `UpsertRow`, `SaveChunkWithEmbedding`, `SaveChunkWithEmbeddingFails` |
| `countTokensForChunks`, `saveTokenCountedChunkBatch`, `SaveChunks` | `CountTokens`, `UpsertRow`, `SaveCounts`, `SaveCountsFails` |
| `SaveEmbeddings` by the poller | `SaveEmbeddings` |
| end of a worker's process | `Crash` |

**Abstractions.** A token count is 0 or 1, "not counted" or "counted". The rows in the
batch table are the sets of ids waiting in `batches`; what the pipeline does with them
is its own subject. Here a batch fails, or ends with results for any part of what it asked
for: the client skips result lines it cannot parse, and the poller completes the batch
with what is left. `missed` (history) keeps the ids for which a job's own batches brought
no embedding. The locks of an upsert are those of
its unique key; index and table locks are left out.

### 3.6 Parsing a checkout

**State.** `pc` is `ParseDirectory`'s own goroutine, `entries` the files it found, by their
place in the walk, `parser[i]` the goroutine of file i, `results` and `skipped` the two buffered channels (the order of the former is the
order in which goroutines sent), `closed` how many of them the closer has closed.

| Code | Actions and operators |
|---|---|
| `ParseDirectory` | `Walk`, `Launch`, `Collect`, `CountSkipped`, `Return` |
| `parseFile`, in a goroutine of the errgroup | `Parse`, `ParseFails` |
| the goroutine that waits and closes | `CloseChannel` |
| `shouldSkipDirectory`, `shouldProcessFile` | `Wanted` |
| `createSimpleChunks` | `SimpleChunks` |
| `Extract` of the semantic traverser | `Extracted` |

**Abstractions.** A file is its lines, each a length and whether it is more than blanks,
and what each of the five extractors would find in it. The job's configuration sets
nothing but the chunk size, so filters, size limits and the inclusion of tests are
constant. Whatever keeps tree-sitter from parsing, an expired context too, leads to the
cut by size. The count of skipped files is only logged.

### 3.7 Search

**State.** `stored`, `embedded`, `archived` and `index` are what there is to find, and
change while a client asks; `cache` is `zoektChunkCache`; `vectors`, `semantic`, `hits`
and `text` are what one search has so far. `seen` and `changed` are history: what the
client has been given since it asked for the first page, and whether anything has
changed since.

| Code | Actions and operators |
|---|---|
| `Search` in its three modes, `performVectorSearch` | `VectorSearch`, `FetchChunks`, `TextSearch` |
| `convertZoektResults`, `resolveZoektChunk` | `ResolveHit`, `AllResolved` |
| `selectBestOverlappingChunk`, `selectBestPathOnlyChunk` | `BestOverlapping`, `BestByName` |
| `Rank`, `CalculateRRFScore`, `dedupKeyForResult` | `Rank`, `Fused`, `RRFScore`, `Key` |
| `filterDuplicateZoektFallbacks`, `sortResults`, `paginateResults` | `KeptText`, `SortedResults`, `Respond` |
| the writers of the tables, the client | `SaveChunks`, `SaveEmbeddings`, `Archive`, `Ask` |

A row of the embeddings is one of `Vectors`: a chunk, a model version and a similarity. The
table is unique by chunk, version and repository, and the query neither filters by version
nor orders rows that tie: `Nearest` is every list it may return, with a chunk as often
as it has embeddings and any of those that tie cut off at the limit. A match has two
ranges of lines, since `zoektMatchLineRange` looks the chunk up by all parts of the match
and `extractZoektMatchContent` shows the best one.

**Abstractions.** One repository, whose name in the database agrees with Zoekt's fully, in
its last two parts, or not at all. A similarity is a number of which only the order counts,
above the threshold of the request. Fused scores are whole
numbers over a common denominator, so equal scores are equal. `sort.Slice` is not
stable: an answer is any order it may leave (`SortedResults`).

## 4. The properties

Of the pipeline:

| Property | Kind | In words |
|---|---|---|
| `TypeOK` | invariant | types; attempts and retries within their limits |
| `QueuedIsSubmittable` | invariant | a `pending_submission` row has chunks, no job id and attempts left |
| `CompletedIsStored` | invariant | a completed row names a succeeded job of this batch, all its results are stored, and the count is theirs |
| `ProcessingHasJob` | invariant | a `processing` row has a job id, without which neither poller nor recovery ever sees it |
| `JobEmbedsRequest` | invariant | the row's job embeds the row's chunks |
| `SubmittedOnce` | invariant | a batch gets one job |
| `SettledStaysSettled` | action | a completed or failed row never changes |
| `KeepsPromise` | refinement | the pipeline implements `BatchPromise` |
| `EveryBatchSettles`, `EveryBatchComesToRest` | liveness | a queued batch becomes completed or failed (violated, section 8); it comes to rest for good |
| `IInv` | invariant | the inductive invariant, section 7 |

Of the lifecycle:

| Property | Kind | In words |
|---|---|---|
| `KeepsDelivery` | refinement | the messages come and go as `DeliveryPromise` says: delivered while stored and within `MaxDeliver`, gone by their age, or after a run that holds them has ended well |
| `CompletedIsIndexed` | invariant | a completed repository, and the request of a job that counts chunks, has been indexed by an engine; a skipped job found something indexed |
| `JobAgreesWithRepository` | invariant | without faults and timeouts, a job that reports chunks leaves a completed repository, unless another request or a removal has come since |
| `RequestHonoured` | invariant | a completed job's request is indexed (violated, section 8) |
| `ArchivedStaysArchived` | action | no stale write revives an archived repository |
| `JobEndsOnce` | action | a completed or failed job never changes |
| `EveryJobEnds`, `NoRepositoryStuck` | liveness | without faults, timeouts and expired messages a saved job ends, and cloning and processing come to an end |
| `LifecycleInv` | invariant | the inductive invariant, section 7, with the types (`LifecycleTypeOK`) |

The two liveness properties exclude faults, timeouts and expired messages because the code does not
promise more: a publish that fails, or a message that is dropped, leaves a pending job to a connector's sync,
and after an expired JobTimeout the failure is written with the expired context,
that is, not at all.

Of the consumer:

| Property | Kind | In words |
|---|---|---|
| `ConsumerTypeOK` | invariant | types; the durable consumer waits only for what is on the stream |
| `KeepsDelivery` | refinement | services, consumers, loops and the server implement `DeliveryPromise`; so what left the stream has been processed with success or has expired (`NothingLost`) |
| `OneBatchAtATime` | invariant | a consumer that has been stopped, removed, drained and started again still works on one batch |
| `NothingFetchedWhileDraining` | action | no loop, however old the flags it read, takes a message while its consumer drains |
| `DrainingComesToRest` | liveness | loops end once the consumer is told to |
| `EveryMessageSettles` | liveness | while a consumer runs and does not drain, a message is processed or has had its deliveries |

Of the connectors:

| Property | Kind | In words |
|---|---|---|
| `SyncTypeOK` | invariant | types; a sync is at work only in a process that serves, on a row that is there |
| `MessageHasJob` | invariant | a message names a repository and a job that are stored |
| `OneJobPerRepository` | invariant | overlapping connectors make one job for what they both discover |
| `ConfigWins` | invariant | while the process serves, each row has what the configuration says (an entry of an invalid type leaves it as it was), though syncs write back rows read earlier |
| `SyncingHasSync` | invariant | a connector that says it is syncing is, if the configuration has a valid entry for it or none |
| `OrphanIsPublished` | liveness | a pending job without a message gets one if syncs go on through a working publisher |
| `BreakerCloses` | liveness | a breaker does not stay open for ever (violated, section 8) |

`ConfigWins` and `SyncingHasSync` exclude faults: the code does not try a failed write
again before the next start.

Of the chunk store:

| Property | Kind | In words |
|---|---|---|
| `StoreTypeOK` | invariant | types; a row is locked once, and by no job that is over |
| `RequestsNameChunks` | invariant | a request names stored chunks, not the ids the parse made up |
| `DoneIsEmbedded` | invariant | a job that ended well, its batches over, has an embedding for every chunk of its parse, but for those its own batches failed with or were given no result for |
| `EveryJobEnds` | liveness | jobs, their counting and their batches end; no row stays locked |

Of parsing:

| Property | Kind | In words |
|---|---|---|
| `EverythingCollected` | invariant | what is returned is what the parsers found, each file's chunks in order; every send finds its channel open and with room (`SendsGoThrough`), and nothing stays behind |
| `NoLineLost` | invariant | cut by size, a line that is more than blanks is in exactly one chunk, of at most the size |
| `ParseReturns` | liveness | `ParseDirectory` returns |

Of search:

| Property | Kind | In words |
|---|---|---|
| `NothingTwice` | invariant | no chunk twice in an answer, and no file match beside a chunk of the same lines; in semantic mode only as long as no chunk has embeddings of two model versions |
| `AgreedOrder` | invariant | what both engines rank first is ranked first |
| `PagesTile` | invariant | one engine, its own order, no changes: pages repeat nothing and leave out nothing, in semantic mode of what ties with nothing else |

Both conditions are needed, and TLC refutes the properties without them: semantic mode
answers with a result for each row it found, and so shows a chunk twice after a change of
model; and rows of equal similarity, such as those of equal contents in two files, may
come in another order for the next page, which then repeats one and leaves out another.
Hybrid mode keeps one result for a key, so there `NothingTwice` holds as it stands.

Some of these are promises of the code's comments and documentation which the code
does not keep under every interleaving; those are checked both where they hold
and where they do not, and section 8 says what breaks them.

## 5. The runs and their bounds

Passing runs (distinct states):

| Run | Instance | Shows |
|---|---|---|
| `PipelineOneWorker` (41 k) | 1 worker, 1 delivery, 1 batch of 2 chunks, 1 fault, 2 quota errors, 1 crash | the row's claims, the refinement of `BatchPromise`, and that a queued batch settles and rests |
| `PipelineFaultless` (2 k) | 1 worker, 1 delivery, 2 batches, all Gemini outcomes, no fault | one job per batch, that embeds what was asked for |
| `PipelineRedelivery` (294 k) | 1 worker, 2 concurrent deliveries with different batchings, 1 fault, all outcomes | the inductive invariant on every reachable state when deliveries overwrite rows in flight |
| `LifecycleOneWorker` (687 k) | 1 worker, 2 requests, a removal, 1 job published again, 2 deliveries, 1 failure of any kind or an expired message | all properties of the lifecycle that hold, and that it keeps to `DeliveryPromise` |
| `ConsumerRestarts` (450 k) | 1 worker, 2 messages that may expire, 2 calls of service and shutdown manager, 2 starts, 2 deliveries, 1 failure or lost reply | it implements `DeliveryPromise`: nothing is lost, and nothing fetched or processed twice at once, while a consumer is stopped, drained and started again |
| `ConnectorRestarts` (737 k) | 2 connectors of 1 repository, a request beside the lister, 2 starts with a configuration that changes between them, 1 failure | tables, configuration and stream agree, and lost messages are sent again |
| `StoreTwoJobs` (217 k) | 2 jobs over 2 chunks, in opposite orders and with duplicates, with the counting goroutines of each, results with any lines missing, 1 failure | transactions end, ids are the stored ones, and what ends well is embedded |
| `ParseCheckout` (26 k) | 7 entries of which 5 are parsed by 2 goroutines, or one file of up to 4 lines of any of 5 kinds, 1 failure | nothing is lost between goroutines or between lines |
| `SearchWalks` (1.8 M) | 3 chunks in 2 files, 4 embeddings of which 2 tie and 2 are of one chunk, 3 answers of Zoekt, 2 walks of 1 result a page in any mode and sort, while rows change, 1 failure | answers repeat nothing, respect agreement, and tile |

The three `violation` runs, `PipelineCancelled`, `LifecycleLostReset` and
`BreakerStaysOpen`, belong to the findings of section 8.

Bounds, each a constant with a guard in the model:

- `NumBatches` 1 or 2. Batches share only the submitter's slots, the order of the
  query and the delivery's position; two are enough for each.
- `Chunks` 2: enough for a batch that is partly embedded, and a lossy result.
- `MaxJobs` 4 in `PipelineOneWorker`: more than the two submission attempts and
  the jobs a lost reply and a crash can leave behind. When the pool is used up
  Gemini refuses, which is a behaviour it has anyway.
- `MaxSubmissionAttempts` 2 (code: 10) and `MaxRetries` 1
  (code: 3): the comparisons with the limit are taken on both sides.
- `MaxWaiting` 1: one goroutine blocked at the semaphore is what a stale backoff
  check needs.
- `MaxConcurrentSubmissions` 1 per worker. Several workers, and several submissions of
  one, are within the theorems of section 7, which hold for any number.
- `MaxFaults` 1, `MaxCrashes` 1, `MaxRateLimits` 2 (the limit of attempts).
- Lifecycle: `MaxRequests` 2, so that a request meets a run of another one;
  `MaxSyncs` 1, so that a job has two messages; `MaxDeliver` 2 (code: 3), so that
  there is a redelivery and an end of them; `MaxTroubles` 1 failure, which is a
  failed call, a failed clone or embedding, a timeout, a crash or a message that
  expires, at any point.
  `ConcurrentIndexing` is TRUE: every behaviour of a worker without Zoekt is one of
  a worker with it, so the properties hold for both; the theorems cover either value.
  With two workers `JobEndsOnce` and the liveness properties do not hold; what does
  hold is proved for any number of workers, and `JobEndsOnce` for one worker and any values of
  the other bounds, section 7.
- Consumer: `MaxStarts` 2 and `MaxCalls` 2, enough for a stop and a start, a restart, or
  a drain and what follows it, with the old loop at any point; `FetchBatch` 2, so that a
  message waits while another is processed; `MaxDeliver` 2 (code: 3). With a second
  worker the liveness check takes too long to be run routinely; safety is proved for any number.
- Connectors: `PageLimit` 1 and `MaxConcurrent` 1 (code: 100 and 5), so that two
  connectors need two pages and the lister waits for a place; `MaxVersions` 1, a
  connector that may leave the configuration (`Optional`) and one whose entry may be of an
  invalid type (`Mistyped`); `MaxStarts` 2, for what one process
  leaves to the next; `MaxFaults` 1, which with `MaxFailures` 1 (code: 3)
  also opens a breaker; `BreakerStaysOpen` has 3 of both.
- Chunk store: two chunks are what two transactions need to wait for each other;
  `BatchSize` 2 and `CountBatch` 3 split a list of four in different places, so that
  the job and its own counting goroutine lock rows in different orders; `MaxQueueSize` 4
  with a backlog of 0 or 1 is just enough for such a job or just too little.
- Parsing: `ParseConcurrency` 2 for five files, so that a goroutine waits for a place and
  chunks of different files overtake each other; `ChunkSizeBytes` 4 with lines of 0 to 5
  bytes, so that a chunk is filled exactly, overfilled by one, or by a single line.
- Search: `Limit` 1, so that every result is at the edge of a page, and ties always are;
  three chunks, two of which share lines, of which the first and the last tie and the
  other has embeddings of two models, one the most and one the least similar; a match with
  another range to show than to look up, and one of a name only; `MaxWalks` 2, so that one query follows a query that filled the cache.

Deadlock is checked in the pipeline's runs, where the ticker always has a step. The
others end when everything their bounds allow has been done.

## 6. Fairness

`FairSpec` assumes weak fairness of what the runtime gives: tickers fire
(`Tick`, `PollRead`, `RetryRead`), database and service calls return, with a
result or an error (`SubmitCall`, `SubmitSave`, `PollStep`, `DeliveryStep`,
`RetryWrite`, `RecoverCheck`, `RecoverFail`), the supervisor restarts a worker
(`Start`, `RecoveryDone`), timestamps pass (`BecomesDue`, `BackoffEnds`) and
Gemini ends every job (`GeminiEnds`, jobs expire after their deadline). Each
disjunction is fair as a whole, so nothing chooses between success and failure.
Nothing is assumed about a delivery that has not started, faults, quota errors
and crashes. Weak fairness suffices in every run.

In the lifecycle: calls return (`RequestStep`, `WorkerStep`, each as a whole), a
worker is restarted (`Restart`), and NATS delivers a message that has deliveries
left to an idle worker (`Deliver`, over all messages). Nothing is assumed about
requests, removals, the sync, and failures.

In the consumer: a loop goes on (`LoopStep`: a fetch returns within its timeout, a job
within JobTimeout), `RestartConsumer` wakes up after its delay, a drain's wait ends, and
AckWait and the end of the deliveries come. Nothing is assumed about starts, stops and
calls: `EveryMessageSettles` asks instead for a consumer that in the end keeps running.

With the connectors: a sync goes on and time passes. Nothing is assumed about requests,
restarts, or workers; `OrphanIsPublished` and `BreakerCloses` ask for syncs that go on.

In the chunk store some goroutine that can go on does (`Progress`, as a whole): no
goroutine repeats a step for ever, so each has its turn. In parsing: the goroutines
run (`Main`, `CloseChannel`, the parsers); the failure of a file is never needed.
`SearchPages` has no liveness property and no fairness.

## 7. The proofs

### 7.1 The pipeline

`BatchPipelineProofs` proves, for any number of workers, semaphore slots,
deliveries, batches, chunks, jobs, faults and crashes:

| Theorem | States |
|---|---|
| `Consistency` | `Spec => []IInv` |
| `TypeCorrect` | `Spec => []TypeOK` |
| `QueuedSubmittable` | `Spec => []QueuedIsSubmittable` |
| `CompletedStored` | `Spec => []CompletedIsStored` |
| `RetriedFailed` | `Spec => []RetriedJobHasFailed` |

*Assumptions*: those named in `BatchRow` and `BatchPipeline`: the counts are
naturals, the limits positive where the code needs it, `Chunks` is finite,
0 is no worker, a batching maps batches to sets of chunks.

*Argument.* The three properties speak of rows. They are not inductive: an action
like `SavePolled` writes an entity read many steps before, and nothing about the
present row says that this entity is any good. Relating the entity to its row
does not work either, since redeliveries, recovery and other workers change the
row meanwhile. What is stable is the truth of what an entity says about the
*Gemini job it names* and about the store, because jobs end once and embeddings
are never removed. So `EntityOK` states these facts of an entity alone, and `IInv`
states `EntityOK` of every entity there is: every row (`RowsOK`), every
submission (`SubmissionOK`), every poll (`PollOK`), with the status the next step
relies on; `DeliveryOK` adds that a delivery about to queue has chunks to queue.
`UpdateStatus` is the exception that writes a status without an entity, and it
only writes `processing` and `failed`, about which `EntityOK` claims nothing
beyond the job id. That is also why `ProcessingHasJob` needs a theorem of its own:
it is false with redeliveries.

The module has lemmas on the mutators and on `EntityOK` (it survives a change of
the jobs or of the store that keeps the old facts), `Init => IInv`, one lemma
per action with a step per conjunct, and the temporal step.

The module's second part proves what holds besides where nobody else writes a row, from
`OneActor` (one worker with one submission at a time, one delivery), for any number of
batches, chunks, jobs, attempts, retries, quota errors, faults and crashes:

| Theorem | States | Also assumes |
|---|---|---|
| `RowsHaveOneOwner` | `Spec => []OwnInv` | |
| `ProcessingNamesJob` | `Spec => []ProcessingHasJob` | |
| `RequestsEmbedded` | `Spec => []JobEmbedsRequest` | |
| `SubmittedOnlyOnce` | `Spec => []SubmittedOnce` | no fault, no crash |
| `SettledForGood` | `Spec => SettledStaysSettled` | |
| `PromiseIsKept` | `Spec => KeepsPromise` | no sequential fallback |

*Argument.* There the relation between an entity and its row, of no use above, is the
whole of it: a row's status tells its owner. A delivery still to come to a batch finds no
row of it (`DeliveryOwned`, from the counter of the loop); the submitter holds queued
rows, the poller and recovery processing ones, the first when the worker runs and the
second before that, and the retry loop those scheduled for a retry. An owner's entity
agrees with the row in what it asks for and, at the poller, in the job (`SubOwned`,
`PollOwned`), so that writing it back whole moves the row one stage on. A crash leaves
rows, files and jobs to the next owner, which is why these are related directly:
the file of a row holds what the row asks for (`RowsOwned`), and so does every job that
was made of it (`JobsOwned`). `Kept` says of a step that it keeps the invariant, touches
no settled row and is a step of `BatchPromise`; each action has a lemma that shows all three.

*Only model-checked*: liveness, which is out of the prover's reach.
`RetriedJobHasFailed`, a row with retries still names the job that failed, is a conjunct
of `EntityOK` and has no run of its own.

### 7.2 The lifecycle

`RepositoryLifecycleProofs` proves, for any number of requests, messages, workers,
deliveries and failures, from `LifecycleAssumption` (the bounds are naturals, at
least one request and one delivery):

| Theorem | States |
|---|---|
| `LifecycleConsistent` | `Spec => []LifecycleInv` |
| `LifecycleTypeCorrect` | `Spec => []LifecycleTypeOK` |
| `CompletedIndexed` | `Spec => []CompletedIsIndexed` |
| `ArchivedForGood` | `Spec => ArchivedStaysArchived` |
| `DeliveryAgrees` | `Spec => KeepsDelivery` |

*Argument.* `CompletedIsIndexed` is not inductive: the write that completes a
repository or a job relies on what happened in the worker's run long before. The
invariant therefore says what is true at each position of a run (`RunOK`): past
the clone the worker holds the content of its own job's request, past the
indexing that content is covered, and before a skip something is. The first
needs `RequestsOK`: a message exists only after its request was made. `RunOK`
speaks only of the run itself and of `covered`, which only grows, and never of the
repository's status; that is why two deliveries, a reset or a removal in between
cannot break it (`RunKept`), and why it holds for any number of workers although
the status itself is written by all of them without a check. `RunMoves` reduces
each action to the claim of the one worker that moves. `ArchivedForGood` needs no
invariant, only the WHERE clause of the update and the unique URL. `DeliveryAgrees` maps a
message's `left` to the deliveries it has had and the workers' positions to what is held
and ready; each action is one of the promise's, the positions between a delivery and its
Ack as one (`GoesOn`), and of the invariant it needs only that a run has a message
(`RunOK`, first conjunct). `Expire` is the promise's own, also under a run, whose Ack
then changes nothing on the stream; an Ack that is lost is a worker letting go.

The module's second part proves what holds besides from `OneWorker`, for any number of
requests, messages, deliveries and failures:

| Theorem | States |
|---|---|
| `OneWorkerConsistent` | `Spec => []OneWorkerInv` |
| `EndsOnce` | `Spec => JobEndsOnce` |
| `JobAgrees` | `Spec => []JobAgreesWithRepository` |

*Argument.* Both are about rows read long before they are written. `OneWorkerInv` has
three parts. `PostedOK`: a job's row is inserted before any message or sync names the
job, so the insert resets no job that ran. `OpenOK`: the entity a worker holds as
running belongs to a job that has not ended, which is what makes `EndsOnce` a fact of
the three writes. `SeenOK`: while no call has failed and no deadline has passed, the
repository has, at each position of a run, the status the run last gave it
(`StatusSeen`), unless a removal has archived it; so a run that reports chunks found its
repository processing and completed it. Requests are excluded by the hypothesis that
the job's is the only one (`Alone`): a reset in the middle of a run changes the status
under it, which is what the run `LifecycleLostReset` is about. A second worker breaks
`OpenOK` by ending the job between the other's read and write.

*Only model-checked*: the liveness properties.

### 7.3 The consumer

`WorkerConsumerProofs` proves, for any number of workers, messages, deliveries, starts,
calls and failures, from `ConsumerAssumption`:

| Theorem | States |
|---|---|
| `ConsumerConsistent` | `Spec => []ConsumerInv` |
| `ConsumerTypeCorrect` | `Spec => []ConsumerTypeOK` |
| `NothingIsLost` | `Spec => []NothingLost` |
| `OneBatch` | `Spec => []OneBatchAtATime` |
| `NothingIsFetched` | `Spec => NothingFetchedWhileDraining` |
| `DeliveryKept` | `Spec => KeepsDelivery` |

*Argument.* That a loop acknowledges only what has been processed is a fact of the loop
alone (`LoopOK`, first conjunct). The other two are not: two loops of a consumer exist
side by side after a restart, and one fetches with flags it read before. They rest on
what the code makes of the draining flag, which nothing clears: a consumer that was
started and does not run drains (`ProcessOK`), so a later start's loop only looks at the
flags and ends, and the first loop holds a subscription that is no longer the
consumer's. `Close` is the exception: it ends a consumer without the flag, and the claims
are made of consumers that have not been closed. Every action changes the loops and the
process of one worker, so each lemma is about that worker.

`DeliveryKept` adds two facts to the invariant. `HandsOK`: a loop that does not work on a
batch holds nothing, and the loop of a start that has not come yet is not there; so a
consumer that is started anew takes nothing out of anybody's hands, and a fetch adds what
was fetched to what is held. `CountsOK`: what is not published has not been delivered. An
Ack that removes then comes from a loop that holds its message and has processed it,
although the server may meanwhile have given the message to others: the promise lets
any number hold it, and the Ack of one take it off the stream under the rest. An Ack that
is lost, or comes to nothing, is a loop letting go. The only other way off the stream is
its `MaxAge`: `Expire` is a step of the promise, and `NothingLost` says of what left the
stream that it was processed or is in `expired`. A fetch
whose answer is lost is a delivery into no hands, and a start that fails after it has
made the durable consumer anew still sets the counts back.

*Only model-checked*: the two liveness properties.

### 7.4 The connectors

`ConnectorSyncProofs` proves, for any number of connectors, repositories, versions,
requests, starts and faults, from `SyncAssumption`:

| Theorem | States |
|---|---|
| `SyncConsistent` | `Spec => []SyncInv` |
| `SyncTypeCorrect` | `Spec => []SyncTypeOK` |
| `MessagesHaveJobs` | `Spec => []MessageHasJob` |
| `OneJobEach` | `Spec => []OneJobPerRepository` |
| `ConfigurationWins` | `Spec => []ConfigWins` |
| `SyncingMeansSync` | `Spec => []SyncingHasSync` |

*Argument.* `OneJobPerRepository` rests on the unique URL: whoever inserted the
repository is the only one at the statement that makes its job (`JobMakersDiffer`), and
no job was there before (`JobsOK`). `ConfigWins` has to say of every copy a sync carries
what it says of the rows (`SyncOK`), and of the reconciler how far it has come
(`RepairsOK`), since what a stopped process left behind is true of nothing.

*Only model-checked*: `OrphanIsPublished`.

### 7.5 The chunk store

`ChunkStoreProofs` proves, for any number of jobs, keys, chunks, batch and sample sizes and
faults, and for parses of any order and with any duplicates, from `StoreAssumption`:

| Theorem | States |
|---|---|
| `StoreConsistent` | `Spec => []StoreInv` |
| `StoreTypeCorrect` | `Spec => []StoreTypeOK` |
| `RequestsAlwaysNameChunks` | `Spec => []RequestsNameChunks` |
| `EndedIsEmbedded` | `Spec => []DoneIsEmbedded` |

*Argument.* `DoneIsEmbedded` speaks of the last state only; what carries it is that at every
position a chunk of the parse is *pending* (`Pending`, which says for each position where
to look), or waits in a batch under the id of its row, or has an embedding, or is among
what the job's batches `missed`, because they failed or had no result for it (`JobOK`).
Deduplication hands a chunk's place to the first of its key, which exists because `<` on
indices is well founded (`FirstCovers`); the transaction of `FindOrCreateChunks` holds
exactly those (first conjunct), and after it commits the job knows their rows' ids (third
conjunct), so that what `filterNewEmbeddings` drops is what has an embedding, and what
it keeps is queued under ids that are there. The other jobs, the counting goroutines and
the poller touch the same rows in between: they all leave the id of a row alone and only
ever add embeddings (`Kept`), under which a job's facts stay true (`JobKept`). Each action
then is about one job or one transaction. That no two transactions lock a row (`LocksOK`)
is kept because an upsert takes a row nobody holds and every other step only lets go.

*Only model-checked*: `EveryJobEnds`.

### 7.6 Lists

Two of the components compute with lists of any length: a checkout's chunks, a query's
results. What they do with them is written as recursive functions (`Lists!Kept`,
`ParseDirectory!Sums` and `Cuts`), for which `ListTheorems` proves what the provers need:

| Theorem | States |
|---|---|
| `UpTo` | induction: a set of numbers with 0 and with the next of each is all of `0..n` |
| `Recursion` | a function defined by its value before exists and has that value |
| `KeepPicks` | the loop keeps exactly the elements at the positions asked for, once each, in order |
| `KeepAll` | the loop over all positions of a list makes the list |
| `TupleOrder` | the comparison of tuples is a total order |
| `Counted` | in a finite set with a total order, every place from 0 up to the size is taken once: sorting by it has one outcome |
| `FirstOne` | a finite set that is not empty has a first element |

*Argument.* The library's induction and recursion theorems have an operator as a
parameter. These are their first-order forms: `UpTo` is about a *set* of numbers and comes
from the least element that a well-founded relation gives a set that is not empty; `Recursion`
takes the step as a function of number and value, and builds the result from the
unique attempts up to each number. A proof by induction then names the set of the
numbers for which its claim holds, and a sort relation is a constant `R` with its
characterisation as a hypothesis.

### 7.7 Parsing

`ParseDirectoryProofs` proves, for any checkout, pool size, chunk size, length of files
and number of failures, from `ParseAssumption` (a checkout has finitely many files, each
a sequence of lines, the sizes are positive):

| Theorem | States |
|---|---|
| `ParseConsistent` | `Spec => []ParseInv` |
| `NobodyWaitsToSend` | `Spec => []SendsGoThrough` |
| `AllHandedOver` | `Spec => []HandedOver` |
| `NothingIsLeftBehind` | `Spec => []EverythingCollected` |
| `LinesAreKept` | `Spec => []NoLineLost` |

*Argument.* A goroutine sends once, to one of the channels, and is then done, so the two
together never hold more than there are goroutines that are done, and one that runs is
not among them: a capacity of one place per file is enough although nobody receives
while files are launched. The closer waits for goroutines that were launched, and is
itself started after the last of them. Of the contents, `SentOK` says where a goroutine's
chunks are, in the channel or in the answer and never in both, and `AnswerOK` that they
are as they were sent; the last step filters them once. That no line is lost is an
induction over the lines of a file: after each, the chunks that are finished cover what
comes before the next chunk's first line, one beginning where the other ends, and each is
within the limit or a single line; the filter then drops only chunks without text, and
`KeepPicks` says that it drops nothing else and repeats nothing.

*Only model-checked*: `ParseReturns`.

### 7.8 Search

`SearchPagesProofs` proves, for any chunks, indexes of Zoekt, filters, page size, number of
queries and failures, from `SearchAssumption`:

| Theorem | States |
|---|---|
| `SearchIsSound` | `Spec => []SearchInv` |
| `RankedIs` | the order of `Rank` has one outcome, whose scores do not rise |
| `ShownOnce` | `Spec => []NothingTwice` |
| `AgreementIsKept` | `Spec => []AgreedOrder` |
| `PagesFit` | `Spec => []PagesTile` |

*Assumptions*, besides types and bounds. A chunk has one embedding of each model version,
as the table's unique key has it; several versions and equal similarities are
allowed. Zoekt has one match per file. The score 1 is a whole number `One` that
60 plus any rank up to `MaxRank` divides, so that `RRFScore` is an exact fraction and two
ranks have two scores, as they have in the code's floating point for the lengths of list
it asks for; `SearchWalks` has lists of at most 4.

*Argument.* `SearchInv` says what the two lists of a search are at each statement,
whatever rows were added, embedded or removed since the statement before: the semantic
results are those of embeddings that are there, and of different chunks if no chunk has
two versions (`SemanticOK`); the text results and the matches still to be looked up are of
different files, since a cached chunk is one of the file it was cached under (`TextOK`,
`CacheOK`). From it the three properties follow by different ways.

- `ShownOnce`: fusion has one result for each key (`FusedIs`, `RankIs`), sorting permutes,
  and a file match that the filter left overlaps no chunk the vectors found; that it
  overlaps none the text search found needs that these are of other files. Semantic mode
  alone does without fusion, and so needs `OneVersion`.
- `AgreementIsKept`: `RRFScore` strictly falls (`Quotients`: the quotient of a number by an
  exact divisor strictly falls as the divisor grows), so what leads in
  one list and in the other, or is in both where the second is in one, has the larger
  sum, and `RankedIs` puts it first.
- `PagesFit`: `PagesInv` adds, for a query of one engine that nothing has disturbed, what
  the list about to be cut was made of (`Undisturbed`), and what the client has been
  given so far (`SeenText`, `SeenSemantic`). In text mode scores strictly fall, and a list
  of strictly falling scores has one arrangement that sorting can leave it in
  (`SortedAlready`), although the sort is not stable; so a page goes on where the one before
  it ended. In semantic mode the database may order what ties as it likes, and otherwise for
  each page, and so may the sort: all that is known of an answer is that no embedding
  left out is more similar than one in it (`BestRows`). But an embedding that ties with
  no other then stands where the number of the more similar ones puts it, in every such
  list that is long enough (`PositionIs`, `PositionHas`), hence on one page and no other.
  What is filtered after the limit may make pages shorter, but never repeats such a
  result: its place is the same at every depth that reaches it, and the places a page
  has shown come before the offset of the next.

`SearchPages` has no liveness property and no fairness.

## 7. The proofs

### 7.1 The pipeline

`BatchPipelineProofs` proves, for any number of workers, semaphore slots,
deliveries, batches, chunks, jobs, faults and crashes:

| Theorem | States |
|---|---|
| `Consistency` | `Spec => []IInv` |
| `TypeCorrect` | `Spec => []TypeOK` |
| `QueuedSubmittable` | `Spec => []QueuedIsSubmittable` |
| `CompletedStored` | `Spec => []CompletedIsStored` |
| `RetriedFailed` | `Spec => []RetriedJobHasFailed` |

*Assumptions*: those named in `BatchRow` and `BatchPipeline`: the counts are
naturals, the limits positive where the code needs it, `Chunks` is finite,
0 is no worker, a batching maps batches to sets of chunks.

*Argument.* The three properties speak of rows. They are not inductive: an action
like `SavePolled` writes an entity read many steps before, and nothing about the
present row says that this entity is any good. Relating the entity to its row
does not work either, since redeliveries, recovery and other workers change the
row meanwhile. What is stable is the truth of what an entity says about the
*Gemini job it names* and about the store, because jobs end once and embeddings
are never removed. So `EntityOK` states these facts of an entity alone, and `IInv`
states `EntityOK` of every entity there is: every row (`RowsOK`), every
submission (`SubmissionOK`), every poll (`PollOK`), with the status the next step
relies on; `DeliveryOK` adds that a delivery about to queue has chunks to queue.
`UpdateStatus` is the exception that writes a status without an entity, and it
only writes `processing` and `failed`, about which `EntityOK` claims nothing
beyond the job id. That is also why `ProcessingHasJob` needs a theorem of its own:
it is false with redeliveries.

The module has lemmas on the mutators and on `EntityOK` (it survives a change of
the jobs or of the store that keeps the old facts), `Init => IInv`, one lemma
per action with a step per conjunct, and the temporal step.

The module's second part proves what holds besides where nobody else writes a row, from
`OneActor` (one worker with one submission at a time, one delivery), for any number of
batches, chunks, jobs, attempts, retries, quota errors, faults and crashes:

| Theorem | States | Also assumes |
|---|---|---|
| `RowsHaveOneOwner` | `Spec => []OwnInv` | |
| `ProcessingNamesJob` | `Spec => []ProcessingHasJob` | |
| `RequestsEmbedded` | `Spec => []JobEmbedsRequest` | |
| `SubmittedOnlyOnce` | `Spec => []SubmittedOnce` | no fault, no crash |
| `SettledForGood` | `Spec => SettledStaysSettled` | |
| `PromiseIsKept` | `Spec => KeepsPromise` | no sequential fallback |

*Argument.* There the relation between an entity and its row, of no use above, is the
whole of it: a row's status tells its owner. A delivery still to come to a batch finds no
row of it (`DeliveryOwned`, from the counter of the loop); the submitter holds queued
rows, the poller and recovery processing ones, the first when the worker runs and the
second before that, and the retry loop those scheduled for a retry. An owner's entity
agrees with the row in what it asks for and, at the poller, in the job (`SubOwned`,
`PollOwned`), so that writing it back whole moves the row one stage on. A crash leaves
rows, files and jobs to the next owner, which is why these are related directly:
the file of a row holds what the row asks for (`RowsOwned`), and so does every job that
was made of it (`JobsOwned`). `Kept` says of a step that it keeps the invariant, touches
no settled row and is a step of `BatchPromise`; each action has a lemma that shows all three.

*Only model-checked*: liveness, which is out of the prover's reach.
`RetriedJobHasFailed`, a row with retries still names the job that failed, is a conjunct
of `EntityOK` and has no run of its own.

### 7.2 The lifecycle

`RepositoryLifecycleProofs` proves, for any number of requests, messages, workers,
deliveries and failures, from `LifecycleAssumption` (the bounds are naturals, at
least one request and one delivery):

| Theorem | States |
|---|---|
| `LifecycleConsistent` | `Spec => []LifecycleInv` |
| `LifecycleTypeCorrect` | `Spec => []LifecycleTypeOK` |
| `CompletedIndexed` | `Spec => []CompletedIsIndexed` |
| `ArchivedForGood` | `Spec => ArchivedStaysArchived` |
| `DeliveryAgrees` | `Spec => KeepsDelivery` |

*Argument.* `CompletedIsIndexed` is not inductive: the write that completes a
repository or a job relies on what happened in the worker's run long before. The
invariant therefore says what is true at each position of a run (`RunOK`): past
the clone the worker holds the content of its own job's request, past the
indexing that content is covered, and before a skip something is. The first
needs `RequestsOK`: a message exists only after its request was made. `RunOK`
speaks only of the run itself and of `covered`, which only grows, and never of the
repository's status; that is why two deliveries, a reset or a removal in between
cannot break it (`RunKept`), and why it holds for any number of workers although
the status itself is written by all of them without a check. `RunMoves` reduces
each action to the claim of the one worker that moves. `ArchivedForGood` needs no
invariant, only the WHERE clause of the update and the unique URL. `DeliveryAgrees` maps a
message's `left` to the deliveries it has had and the workers' positions to what is held
and ready; each action is one of the promise's, the positions between a delivery and its
Ack as one (`GoesOn`), and of the invariant it needs only that a run has a message
(`RunOK`, first conjunct). `Expire` is the promise's own, also under a run, whose Ack
then changes nothing on the stream; an Ack that is lost is a worker letting go.

The module's second part proves what holds besides from `OneWorker`, for any number of
requests, messages, deliveries and failures:

| Theorem | States |
|---|---|
| `OneWorkerConsistent` | `Spec => []OneWorkerInv` |
| `EndsOnce` | `Spec => JobEndsOnce` |
| `JobAgrees` | `Spec => []JobAgreesWithRepository` |

*Argument.* Both are about rows read long before they are written. `OneWorkerInv` has
three parts. `PostedOK`: a job's row is inserted before any message or sync names the
job, so the insert resets no job that ran. `OpenOK`: the entity a worker holds as
running belongs to a job that has not ended, which is what makes `EndsOnce` a fact of
the three writes. `SeenOK`: while no call has failed and no deadline has passed, the
repository has, at each position of a run, the status the run last gave it
(`StatusSeen`), unless a removal has archived it; so a run that reports chunks found its
repository processing and completed it. Requests are excluded by the hypothesis that
the job's is the only one (`Alone`): a reset in the middle of a run changes the status
under it, which is what the run `LifecycleLostReset` is about. A second worker breaks
`OpenOK` by ending the job between the other's read and write.

*Only model-checked*: the liveness properties.

### 7.3 The consumer

`WorkerConsumerProofs` proves, for any number of workers, messages, deliveries, starts,
calls and failures, from `ConsumerAssumption`:

| Theorem | States |
|---|---|
| `ConsumerConsistent` | `Spec => []ConsumerInv` |
| `ConsumerTypeCorrect` | `Spec => []ConsumerTypeOK` |
| `NothingIsLost` | `Spec => []NothingLost` |
| `OneBatch` | `Spec => []OneBatchAtATime` |
| `NothingIsFetched` | `Spec => NothingFetchedWhileDraining` |
| `DeliveryKept` | `Spec => KeepsDelivery` |

*Argument.* That a loop acknowledges only what has been processed is a fact of the loop
alone (`LoopOK`, first conjunct). The other two are not: two loops of a consumer exist
side by side after a restart, and one fetches with flags it read before. They rest on
what the code makes of the draining flag, which nothing clears: a consumer that was
started and does not run drains (`ProcessOK`), so a later start's loop only looks at the
flags and ends, and the first loop holds a subscription that is no longer the
consumer's. `Close` is the exception: it ends a consumer without the flag, and the claims
are made of consumers that have not been closed. Every action changes the loops and the
process of one worker, so each lemma is about that worker.

`DeliveryKept` adds two facts to the invariant. `HandsOK`: a loop that does not work on a
batch holds nothing, and the loop of a start that has not come yet is not there; so a
consumer that is started anew takes nothing out of anybody's hands, and a fetch adds what
was fetched to what is held. `CountsOK`: what is not published has not been delivered. An
Ack that removes then comes from a loop that holds its message and has processed it,
although the server may meanwhile have given the message to others: the promise lets
any number hold it, and the Ack of one take it off the stream under the rest. An Ack that
is lost, or comes to nothing, is a loop letting go. The only other way off the stream is
its `MaxAge`: `Expire` is a step of the promise, and `NothingLost` says of what left the
stream that it was processed or is in `expired`. A fetch
whose answer is lost is a delivery into no hands, and a start that fails after it has
made the durable consumer anew still sets the counts back.

*Only model-checked*: the two liveness properties.

### 7.4 The connectors

`ConnectorSyncProofs` proves, for any number of connectors, repositories, versions,
requests, starts and faults, from `SyncAssumption`:

| Theorem | States |
|---|---|
| `SyncConsistent` | `Spec => []SyncInv` |
| `SyncTypeCorrect` | `Spec => []SyncTypeOK` |
| `MessagesHaveJobs` | `Spec => []MessageHasJob` |
| `OneJobEach` | `Spec => []OneJobPerRepository` |
| `ConfigurationWins` | `Spec => []ConfigWins` |
| `SyncingMeansSync` | `Spec => []SyncingHasSync` |

*Argument.* `OneJobPerRepository` rests on the unique URL: whoever inserted the
repository is the only one at the statement that makes its job (`JobMakersDiffer`), and
no job was there before (`JobsOK`). `ConfigWins` has to say of every copy a sync carries
what it says of the rows (`SyncOK`), and of the reconciler how far it has come
(`RepairsOK`), since what a stopped process left behind is true of nothing.

*Only model-checked*: `OrphanIsPublished`.

### 7.5 The chunk store

`ChunkStoreProofs` proves, for any number of jobs, keys, chunks, batch and sample sizes and
faults, and for parses of any order and with any duplicates, from `StoreAssumption`:

| Theorem | States |
|---|---|
| `StoreConsistent` | `Spec => []StoreInv` |
| `StoreTypeCorrect` | `Spec => []StoreTypeOK` |
| `RequestsAlwaysNameChunks` | `Spec => []RequestsNameChunks` |
| `EndedIsEmbedded` | `Spec => []DoneIsEmbedded` |

*Argument.* `DoneIsEmbedded` speaks of the last state only; what carries it is that at every
position a chunk of the parse is *pending* (`Pending`, which says for each position where
to look), or waits in a batch under the id of its row, or has an embedding, or is among
what the job's batches `missed`, because they failed or had no result for it (`JobOK`).
Deduplication hands a chunk's place to the first of its key, which exists because `<` on
indices is well founded (`FirstCovers`); the transaction of `FindOrCreateChunks` holds
exactly those (first conjunct), and after it commits the job knows their rows' ids (third
conjunct), so that what `filterNewEmbeddings` drops is what has an embedding, and what
it keeps is queued under ids that are there. The other jobs, the counting goroutines and
the poller touch the same rows in between: they all leave the id of a row alone and only
ever add embeddings (`Kept`), under which a job's facts stay true (`JobKept`). Each action
then is about one job or one transaction. That no two transactions lock a row (`LocksOK`)
is kept because an upsert takes a row nobody holds and every other step only lets go.

*Only model-checked*: `EveryJobEnds`.

### 7.6 Lists

Two of the components compute with lists of any length: a checkout's chunks, a query's
results. What they do with them is written as recursive functions (`Lists!Kept`,
`ParseDirectory!Sums` and `Cuts`), for which `ListTheorems` proves what the provers need:

| Theorem | States |
|---|---|
| `UpTo` | induction: a set of numbers with 0 and with the next of each is all of `0..n` |
| `Recursion` | a function defined by its value before exists and has that value |
| `KeepPicks` | the loop keeps exactly the elements at the positions asked for, once each, in order |
| `KeepAll` | the loop over all positions of a list makes the list |
| `TupleOrder` | the comparison of tuples is a total order |
| `Counted` | in a finite set with a total order, every place from 0 up to the size is taken once: sorting by it has one outcome |
| `FirstOne` | a finite set that is not empty has a first element |

*Argument.* The library's induction and recursion theorems have an operator as a
parameter. These are their first-order forms: `UpTo` is about a *set* of numbers and comes
from the least element that a well-founded relation gives a set that is not empty; `Recursion`
takes the step as a function of number and value, and builds the result from the
unique attempts up to each number. A proof by induction then names the set of the
numbers for which its claim holds, and a sort relation is a constant `R` with its
characterisation as a hypothesis.

### 7.7 Parsing

`ParseDirectoryProofs` proves, for any checkout, pool size, chunk size, length of files
and number of failures, from `ParseAssumption` (a checkout has finitely many files, each
a sequence of lines, the sizes are positive):

| Theorem | States |
|---|---|
| `ParseConsistent` | `Spec => []ParseInv` |
| `NobodyWaitsToSend` | `Spec => []SendsGoThrough` |
| `AllHandedOver` | `Spec => []HandedOver` |
| `NothingIsLeftBehind` | `Spec => []EverythingCollected` |
| `LinesAreKept` | `Spec => []NoLineLost` |

*Argument.* A goroutine sends once, to one of the channels, and is then done, so the two
together never hold more than there are goroutines that are done, and one that runs is
not among them: a capacity of one place per file is enough although nobody receives
while files are launched. The closer waits for goroutines that were launched, and is
itself started after the last of them. Of the contents, `SentOK` says where a goroutine's
chunks are, in the channel or in the answer and never in both, and `AnswerOK` that they
are as they were sent; the last step filters them once. That no line is lost is an
induction over the lines of a file: after each, the chunks that are finished cover what
comes before the next chunk's first line, one beginning where the other ends, and each is
within the limit or a single line; the filter then drops only chunks without text, and
`KeepPicks` says that it drops nothing else and repeats nothing.

*Only model-checked*: `ParseReturns`.

### 7.8 Search

`SearchPagesProofs` proves, for any chunks, indexes of Zoekt, filters, page size, number of
queries and failures, from `SearchAssumption`:

| Theorem | States |
|---|---|
| `SearchIsSound` | `Spec => []SearchInv` |
| `RankedIs` | the order of `Rank` has one outcome, whose scores do not rise |
| `ShownOnce` | `Spec => []NothingTwice` |
| `AgreementIsKept` | `Spec => []AgreedOrder` |
| `PagesFit` | `Spec => []PagesTile` |

*Assumptions*, besides types and bounds. Similarities are distinct: `Similar` is a list
without repetition, and with equal distances the database could give pages in different
orders. Zoekt has one match per file. The score 1 is a whole number `One` that
60 plus any rank up to `MaxRank` divides, so that `RRFScore` is an exact fraction and two
ranks have two scores, as they have in the code's floating point for the lengths of list
it asks for; `SearchWalks` has lists of at most 4.

*Argument.* `SearchInv` says what the two lists of a search are at each statement,
whatever rows were added, embedded or removed since the statement before: the
similarities fall, since the vector search and the filter keep the order
(`SemanticOK`), and the text results and the matches still to be looked up are of
different files, since a cached chunk is one of the file it was cached under (`TextOK`,
`CacheOK`). From it the three properties follow by different ways.

- `ShownOnce`: fusion has one result for each key (`FusedIs`, `RankIs`), sorting permutes,
  and a file match that the filter left overlaps no chunk the vectors found; that it
  overlaps none the text search found needs that these are of other files.
- `AgreementIsKept`: `RRFScore` strictly falls (`Quotients`: the quotient of a number by an
  exact divisor strictly falls as the divisor grows), so what leads in
  one list and in the other, or is in both where the second is in one, has the larger
  sum, and `RankedIs` puts it first.
- `PagesFit`: `PagesInv` adds, for a query of one engine that nothing has disturbed, that
  the list about to be cut is the one all pages are cut from, up to the depth of this
  page (`Undisturbed`, by `KeepStarts`), and that the client has been given what
  comes before `offset` (`SeenOK`). A list whose scores strictly fall has one
  arrangement that sorting can leave it in (`SortedAlready`), although the sort is not
  stable; so a page goes on where the one before it ended. What is filtered after the
  limit may make pages shorter, but never repeats anything: a result's place in what is
  ahead only grows.

`SearchPages` has no liveness property; all that its run checks is proved.

### 7.9 What stays with TLC

Every invariant and every action property that a run checks is a theorem. The
temporal properties are not, because liveness under fairness is out of the prover's reach:
`EveryBatchComesToRest`, `EveryJobEnds` (of the lifecycle and of the chunk store),
`NoRepositoryStuck`, `DrainingComesToRest`, `EveryMessageSettles`, `OrphanIsPublished`,
`ParseReturns`.

## 8. Findings

Each is a run TLC refutes and an entry of `PROJECT.json`, where the comment or
document it contradicts is quoted.

- `PipelineCancelled`: a batch whose Gemini job is cancelled stays in processing
  while the worker runs.
- `LifecycleLostReset`: a request resets a repository that a worker is indexing;
  the worker's whole-row update overwrites the reset, and the request's job is
  skipped as already done.
- `BreakerStaysOpen`: the publisher's breaker compares the time since the last failure
  right after it has set it, so that once open it never closes.

Seen while modelling, without a run of their own.

*Pipeline.* Two workers may submit the same row, for the lock of `FOR UPDATE SKIP LOCKED`
ends with the query (`batch_progress_repository.go:192-194`). A redelivered message
queues chunks that are already in flight. The retry loop's update by id can turn a
freshly queued row into a processing row without a job (`cmd/worker.go:504`). A row
queued again with other chunks is submitted with the file uploaded for the old ones
(`batch_embedding_client.go:313-315`). A goroutine of the submitter that passed the
backoff check before a quota error fetches a batch during the backoff. These are
behaviours of the model, and the reason why `IInv` claims no more than it does.

*Lifecycle.* Of two deliveries of a message that run at once the second, or the first,
marks the repository failed (`job_processor.go:521`). A job whose first delivery failed
stays failed although a later one indexes the repository. A timeout at the end of a run
acknowledges the message and leaves repository and job in `processing` and `running`.

*Chunks.* A batch whose results lack lines is completed with those it has
(`batch_embedding_client.go:944-960`, `batch_poller.go:456-463`); the chunks of the others
are left without an embedding until the repository is indexed again. The asynchronous path leaves a copy of every request with a queue manager that
nothing asks to process it: after `max_queue_size` requests (10 000) every large job of
that worker falls back to embedding one chunk at a time. Every save of a chunk
overwrites its token count, with 0 where it was not counted: the column's value is never
NULL, so `COALESCE` never keeps the old one (`chunk_repository.go:46-59`).

*Consumer.* Nothing clears `draining`: a consumer that was restarted, or stopped and
started, says that it runs, and its loop ends at once.

*Connectors.* A new connector is `pending`, and `SyncAllConnectors` lists only `active`
ones; nothing leaves `error` but a reconcile that goes through `inactive`. Connectors
that turn `syncing` between two pages shift the pages, so that others are left out. A
fault between the saves of repository and job leaves a repository without a job, which
no sync looks at again. The mock publisher loses messages silently, and nobody examines
the acknowledgement of `PublishAsync`.

*Parsing.* An expired context makes the rest of a checkout be cut by size, without an
error. Lines outside every construct of a file that was parsed are in no chunk. An
extractor's error is swallowed.

*Search.* Semantic mode shows a chunk once for each model version that has embedded it: the
query names no version and its rows are not compared (`search_service.go:751-760`,
`935-947`). The query orders by similarity alone (`vector_storage_repository.go:966`), so
equal contents can be shown on two pages or on none where a page ends between them.
`has_more` is always false in semantic and text mode, where the total is the
number fetched (`search_service.go:907`). In hybrid mode every page fuses lists of
another depth, so that a result may appear twice or never; explicit sorts sort only
what one page fetched. Filters by entity name and visibility, and removed repositories,
come after the limit. The cache of chunks by file is neither bounded nor invalidated. The
filter of duplicates compares `owner/repo` with `host/owner/repo`. `PagesTile` and
`NothingTwice` say what holds in spite of these.

## 9. What is not modelled

Of the pipeline: the synchronous batch path, which the worker never takes, embedding
vectors and metadata, the JSONL files, the client's list, cancel and delete calls, the
drain at shutdown, metrics and logs. Of the lifecycle: the per-engine statuses of
concurrent indexing, the semaphore within a process, the in-memory table of jobs. Of the
consumer: health, statistics and the connection's own events. Of search: how a query is
written for Zoekt, snippets, the SQL of the filters.

Most of the repository's lines are of three other kinds, which is why the share of lines
the models stand for stays small:

- *Translations of text without shared state*: the tree-sitter extractors for each
  language (a quarter of the implementation), their validators, the chunkers. A model of
  them would be the grammars once more; what becomes of their results and errors is
  `ParseDirectory`.
- *Code without a caller*: graceful shutdown, dead letters, the acknowledgement handler,
  the in-memory queue and the parallel processor, the services' circuit breaker and retry
  policies, checkpoints, error aggregation, disk monitoring and cleanup, the parser pool
  and its caches. No command constructs them, so no state of theirs is one the program
  can be in. Several return simulated results.
- *Input, output and wiring*: the Git client and the providers, whose outcomes are inputs
  here; HTTP handlers, the CLI client, configuration, logging, metrics.

`PROJECT.json` lists each with its files.

## 10. The plan

1. Composition: `WorkerConsumer` and `RepositoryLifecycle` meet in `DeliveryPromise`; what is
   left is the semaphore of a process, which bounds how many runs go on beside each other.
2. An abstract specification of the lifecycle (a job runs once and ends, the repository
   ends where its last run left it), implemented by one worker.
3. Components that have no caller yet, as soon as a command constructs them: the
   shutdown phases, the batch queue's processing, the parser pool.
