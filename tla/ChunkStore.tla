------------------------------ MODULE ChunkStore ------------------------------
(***************************************************************************)
(* Jobs of one repository write its chunks and their embeddings.           *)
(*   job     job_processor.go    stores chunks, then queues requests for   *)
(*           the Batch API, or embeds one chunk after the other            *)
(*   count   job_processor.go    a goroutine beside it that counts tokens  *)
(*           and saves the chunks again with their counts                  *)
(*   poller  batch_poller.go     saves what the Batch API returns          *)
(*   store   chunk_repository.go, with row locks and deadlocks as          *)
(*           PostgreSQL has them                                           *)
(* A row is upserted in one action and a transaction committed in another, *)
(* so that transactions over the same chunks, whose order differs between  *)
(* two jobs, interleave and wait for one another.                          *)
(***************************************************************************)
EXTENDS Naturals, Sequences, FiniteSets

CONSTANTS
  Jobs,
  Keys,        \* (file_path, content_hash), unique within a repository
  Parses,      \* what the jobs' parses may give: for each a sequence of chunks, by key
  BatchSize,   \* MaxBatchSize of the Batch API's requests
  CountBatch,  \* tokenCountSaveBatchSize
  MaxQueueSize,\* of the batch queue manager
  Backlogs,    \* how much it may hold from jobs of other repositories
  SampleSizes, \* how many chunks are counted: none, a sample, more than there are
  MaxFaults    \* bound: calls that fail and processes that crash

ASSUME StoreAssumption ==
  /\ Parses \subseteq [Jobs -> Seq(Keys)]
  /\ {BatchSize, CountBatch} \subseteq Nat \ {0}
  /\ MaxQueueSize \in Nat /\ Backlogs \subseteq 0..MaxQueueSize
  /\ SampleSizes \subseteq Nat /\ SampleSizes # {}
  /\ MaxFaults \in Nat

VARIABLES
  lists,        \* what they give
  queue,        \* requests the batch queue manager holds
  rows,         \* code_chunks: id and token count of each key's row
  partitioned,  \* chunk ids with a row in embeddings_partitioned
  regular,      \* chunk ids with a row in embeddings
  job,          \* each job's control, its chunks' ids, what it queued and (history)
                \* the ids for which its batches brought no embedding
  counter,      \* chunks each counting goroutine has still to count
  tx,           \* the transaction of each
  faults

vars == <<lists, queue, rows, partitioned, regular, job, counter, tx, faults>>

Indices(j) == 1..Len(lists[j])

\* A job that falls back has two counting goroutines, one of each path.
Counters == Jobs \X {"async count", "sequential count"}
Tx == Counters \cup (Jobs \X {"main"})
main(j) == <<j, "main">>

\* The parser gives each chunk it finds an id of its own.
NoId == <<>>
Transient(j) == [i \in Indices(j) |-> <<j, i>>]
Ids == UNION {{<<j, i>> : i \in Indices(j)} : j \in Jobs}

Embedded == partitioned \cup regular
Closed == [todo |-> {}, done |-> {}]

Init ==
  /\ lists \in Parses /\ queue \in Backlogs
  /\ rows = [k \in Keys |-> [id |-> NoId, count |-> 0, counted |-> FALSE]]
  /\ partitioned = {} /\ regular = {}
  /\ job = [j \in Jobs |-> [pc |-> "idle", async |-> FALSE, rest |-> {}, need |-> {},
                            chunk |-> Transient(j), batches |-> {}, missed |-> {}]]
  /\ counter = [t \in Counters |-> {}]
  /\ tx = [t \in Tx |-> Closed]
  /\ faults = 0

Fault == faults < MaxFaults /\ faults' = faults + 1

\* The n first of a list, or of what is left of it.
Lowest(n, S) == {i \in S : Cardinality({h \in S : h < i}) < n}

\* deduplicateChunksByKey: the first occurrence of each key.
First(j, S) == {i \in S : \A h \in S : lists[j][h] = lists[j][i] => i <= h}

-----------------------------------------------------------------------------
(* Transactions: their rows are upserted in order and locked until the end.*)

Locks(t) == {lists[t[1]][i] : i \in tx[t].done}
IsNext(t, i) == i \in tx[t].todo /\ \A h \in tx[t].todo : i <= h
Waits(t, u) ==
  t # u /\ \E i \in tx[t].todo : IsNext(t, i) /\ lists[t[1]][i] \in Locks(u)

\* A cycle of transactions that wait, each for the next.
Deadlocked(t) ==
  LET waiting == {u \in Tx : \E v \in Tx : Waits(u, v)} IN
  \E S \in SUBSET waiting :
    /\ t \in S
    /\ \A u \in S : (\E v \in S : Waits(u, v)) /\ (\E v \in S : Waits(v, u))

UpsertRow(t) ==
  /\ \E i \in tx[t].todo :
       /\ IsNext(t, i)
       /\ \A u \in Tx : lists[t[1]][i] \notin Locks(u)
       /\ tx' = [tx EXCEPT ![t].todo = @ \ {i}, ![t].done = @ \cup {i}]
  /\ UNCHANGED <<lists, queue, rows, partitioned, regular, job, counter, faults>>

\* Mutant: the row takes the id of the chunk that is saved.
Upserted_NewId(old, id, counts) ==
  [id |-> id, count |-> IF counts THEN 1 ELSE 0, counted |-> old.counted \/ counts]

\* INSERT ... ON CONFLICT DO UPDATE.  token_count is never NULL in what is saved,
\* so COALESCE always takes it: 0 where the chunk has not been counted.
Upserted(old, id, counts) ==
  [id |-> IF old.id = NoId THEN id ELSE old.id,
   count |-> IF counts THEN 1 ELSE 0,
   counted |-> old.counted \/ counts]

Committed(t) ==
  [k \in Keys |->
     IF k \in Locks(t)
     THEN LET i == CHOOSE i \in tx[t].done : lists[t[1]][i] = k
          IN Upserted(rows[k], <<t[1], i>>, t \in Counters)
     ELSE rows[k]]

Complete(t) == tx[t].todo = {} /\ tx[t].done # {}

\* Mutant: no deferred Rollback.
Aborted_Open(t) == [tx EXCEPT ![t].todo = {}]

Aborted(t) == [tx EXCEPT ![t] = Closed]

\* A statement fails: it has met a key twice, it is the victim of a deadlock, or
\* the database fails it.
Fails(t) ==
  \/ /\ \/ \E i \in tx[t].todo : IsNext(t, i) /\ lists[t[1]][i] \in Locks(t)
        \/ Deadlocked(t)
     /\ UNCHANGED faults
  \/ tx[t] # Closed /\ Fault

-----------------------------------------------------------------------------
(* Token counting.                                                         *)

\* What countTokensForChunks goes over: nothing or all of the chunks, by mode, or a
\* sample of them, without duplicates.  In the asynchronous path the job writes RepositoryID
\* into the chunks while they are compared, so that duplicates may look different.
Counted(j, S, raced) ==
  UNION {{U \in SUBSET Lowest(n, S) :
            /\ First(j, Lowest(n, S)) \subseteq U
            /\ raced \/ U = First(j, U)} : n \in SampleSizes}

\* The next tokenCountSaveBatchSize chunks are counted, or fewer if the API fails,
\* which ends the counting, and SaveChunks begins.
CountTokens(t) ==
  /\ counter[t] # {} /\ tx[t] = Closed
  /\ \/ /\ tx' = [tx EXCEPT ![t].todo = Lowest(CountBatch, counter[t])]
        /\ counter' = [counter EXCEPT ![t] = @ \ Lowest(CountBatch, @)]
        /\ UNCHANGED faults
     \/ /\ Fault
        /\ \E n \in 0..(CountBatch - 1) : tx' = [tx EXCEPT ![t].todo = Lowest(n, counter[t])]
        /\ counter' = [counter EXCEPT ![t] = {}]
  /\ UNCHANGED <<lists, queue, rows, partitioned, regular, job>>

SaveCounts(t) ==
  /\ Complete(t)
  /\ rows' = Committed(t)
  /\ tx' = [tx EXCEPT ![t] = Closed]
  /\ UNCHANGED <<lists, queue, partitioned, regular, job, counter, faults>>

\* The error is logged, and the next batch is counted.
SaveCountsFails(t) ==
  /\ Fails(t)
  /\ tx' = Aborted(t)
  /\ UNCHANGED <<lists, queue, rows, partitioned, regular, job, counter>>

-----------------------------------------------------------------------------
(* The job.                                                                *)

\* What the job's record is when it returns: only its batches matter still.
Over(j, pc) ==
  [job[j] EXCEPT !.pc = pc, !.async = FALSE, !.rest = {}, !.need = {}, !.chunk = Transient(j)]

\* FindOrCreateChunks begins, for a batch or for all that is left.
Finding(j, async, rest) ==
  /\ job' = [job EXCEPT ![j].pc = "find", ![j].async = async, ![j].rest = rest,
                        ![j].chunk = Transient(j)]
  /\ tx' = [tx EXCEPT ![main(j)] =
       [Closed EXCEPT !.todo = First(j, IF async THEN Lowest(BatchSize, rest) ELSE rest)]]

\* generateEmbeddingsWithBatch: by the number of chunks and the configuration.
Begin(j) ==
  /\ job[j].pc = "idle" /\ Indices(j) # {}
  /\ \/ /\ job' = [job EXCEPT ![j].pc = "submit", ![j].rest = Indices(j)]
        /\ \E U \in Counted(j, Indices(j), TRUE) :
             counter' = [counter EXCEPT ![<<j, "async count">>] = U]
        /\ UNCHANGED tx
     \/ Finding(j, FALSE, Indices(j)) /\ UNCHANGED counter
  /\ UNCHANGED <<lists, queue, rows, partitioned, regular, faults>>

\* Mutant: the ids of the parse are returned.
FindOrCreateChunks_Generated(j) ==
  /\ job[j].pc = "find" /\ Complete(main(j))
  /\ rows' = Committed(main(j))
  /\ tx' = [tx EXCEPT ![main(j)] = Closed]
  /\ job' = [job EXCEPT ![j].pc = "filter", ![j].need = tx[main(j)].done]
  /\ UNCHANGED <<lists, queue, partitioned, regular, counter, faults>>

\* It returns the ids its rows have.
FindOrCreateChunks(j) ==
  /\ job[j].pc = "find" /\ Complete(main(j))
  /\ rows' = Committed(main(j))
  /\ tx' = [tx EXCEPT ![main(j)] = Closed]
  /\ job' = [job EXCEPT ![j].pc = "filter", ![j].need = tx[main(j)].done,
       ![j].chunk = [i \in Indices(j) |->
         IF i \in tx[main(j)].done THEN rows'[lists[j][i]].id ELSE @[i]]]
  /\ UNCHANGED <<lists, queue, partitioned, regular, counter, faults>>

\* The sequential path has what it needs: it begins to embed, and to count.
Storing(j, need) ==
  /\ job' = [job EXCEPT ![j].pc = "store", ![j].need = need, ![j].rest = {},
                        ![j].chunk = Transient(j)]
  /\ \E U \in Counted(j, need, FALSE) :
       counter' = [counter EXCEPT ![<<j, "sequential count">>] = U]

\* A batch could not be stored or queued: the job embeds what is left sequentially,
\* if the error is of a kind that allows it, or fails.
FallBack(j) ==
  \/ Finding(j, FALSE, job[j].rest)
  \/ /\ job' = [job EXCEPT ![j] = Over(j, "failed")]
     /\ tx' = Aborted(main(j))

\* QueueBulkEmbeddingRequests: a copy of every request is left with the queue manager,
\* which nothing asks to process or to flush them.
QueueBulk(j) ==
  /\ job[j].pc = "submit"
  /\ IF queue + Len(lists[j]) > MaxQueueSize
     THEN FallBack(j) /\ UNCHANGED queue
     ELSE Finding(j, TRUE, Indices(j)) /\ queue' = queue + Len(lists[j])
  /\ UNCHANGED <<lists, rows, partitioned, regular, counter, faults>>

\* The sequential path goes on with all of its chunks and the ids of the parse.
FindOrCreateFails(j) ==
  /\ job[j].pc = "find" /\ Fails(main(j))
  /\ \/ job[j].async /\ FallBack(j) /\ UNCHANGED counter
     \/ ~job[j].async /\ tx' = Aborted(main(j)) /\ Storing(j, First(j, job[j].rest))
  /\ UNCHANGED <<lists, queue, rows, partitioned, regular>>

\* GetChunkIDsWithEmbeddings; where it fails, nothing is left out.
FilterNewEmbeddings(j) ==
  /\ job[j].pc = "filter"
  /\ \E need \in {job[j].need, {i \in job[j].need : job[j].chunk[i] \notin Embedded}} :
       /\ \/ need = {i \in job[j].need : job[j].chunk[i] \notin Embedded} /\ UNCHANGED faults
          \/ need = job[j].need /\ Fault
       /\ IF job[j].async
          THEN job' = [job EXCEPT ![j].pc = "enqueue", ![j].need = need] /\ UNCHANGED counter
          ELSE Storing(j, need)
  /\ UNCHANGED <<lists, queue, rows, partitioned, regular, tx>>

\* enqueueBatchProgress, unless there is nothing to embed; and the next batch.
EnqueueBatch(j) ==
  /\ job[j].pc = "enqueue"
  /\ \/ LET rest == job[j].rest \ Lowest(BatchSize, job[j].rest)
            ids == {job[j].chunk[i] : i \in job[j].need}
            queued == job[j].batches \cup ({ids} \ {{}})
        IN /\ IF rest = {}
              THEN /\ job' = [job EXCEPT ![j] = [Over(j, "ended") EXCEPT !.batches = queued]]
                   /\ UNCHANGED tx
              ELSE /\ job' = [job EXCEPT ![j] = [Over(j, "find") EXCEPT !.batches = queued,
                                                   !.async = TRUE, !.rest = rest]]
                   /\ tx' = [tx EXCEPT ![main(j)].todo = First(j, Lowest(BatchSize, rest))]
           /\ UNCHANGED faults
     \/ job[j].need # {} /\ Fault /\ FallBack(j)
  /\ UNCHANGED <<lists, queue, rows, partitioned, regular, counter>>

\* processEmbeddingsWithGenerator: the next chunk, or the end; a chunk whose embedding
\* is not generated fails the job.
EmbedNext(j) ==
  /\ job[j].pc = "store" /\ tx[main(j)] = Closed
  /\ \/ /\ job[j].need = {}
        /\ job' = [job EXCEPT ![j] = Over(j, "ended")]
        /\ UNCHANGED <<tx, faults>>
     \/ /\ job[j].need # {}
        /\ tx' = [tx EXCEPT ![main(j)].todo = Lowest(1, job[j].need)]
        /\ job' = [job EXCEPT ![j].need = @ \ Lowest(1, @)]
        /\ UNCHANGED faults
     \/ /\ job[j].need # {} /\ Fault
        /\ job' = [job EXCEPT ![j] = Over(j, "failed")]
        /\ UNCHANGED tx
  /\ UNCHANGED <<lists, queue, rows, partitioned, regular, counter>>

\* Its transaction inserts the embedding of the row that is there, too.
SaveChunkWithEmbedding(j) ==
  /\ job[j].pc = "store" /\ Complete(main(j))
  /\ rows' = Committed(main(j))
  /\ partitioned' = partitioned \cup {rows'[lists[j][i]].id : i \in tx[main(j)].done}
  /\ tx' = [tx EXCEPT ![main(j)] = Closed]
  /\ UNCHANGED <<lists, queue, regular, job, counter, faults>>

\* That includes a failed insert into embeddings_partitioned: the one into embeddings
\* that is tried next is part of the same, aborted transaction.
SaveChunkWithEmbeddingFails(j) ==
  /\ job[j].pc = "store" /\ Fails(main(j))
  /\ job' = [job EXCEPT ![j] = Over(j, "failed")] /\ tx' = Aborted(main(j))
  /\ UNCHANGED <<lists, queue, rows, partitioned, regular, counter>>

\* The worker's process ends.  Batches it has queued are still polled.
Crash(j) ==
  /\ job[j].pc \notin {"idle", "ended", "failed"} /\ Fault
  /\ job' = [job EXCEPT ![j] = Over(j, "failed")]
  /\ tx' = [t \in Tx |-> IF t[1] = j THEN Closed ELSE tx[t]]
  /\ counter' = [t \in Counters |-> IF t[1] = j THEN {} ELSE counter[t]]
  /\ UNCHANGED <<lists, queue, rows, partitioned, regular>>

JobStep(j) ==
  \/ Begin(j) \/ QueueBulk(j) \/ FindOrCreateChunks(j) \/ FindOrCreateFails(j) \/ FilterNewEmbeddings(j)
  \/ EnqueueBatch(j) \/ EmbedNext(j) \/ SaveChunkWithEmbedding(j)
  \/ SaveChunkWithEmbeddingFails(j)

-----------------------------------------------------------------------------
(* The poller.                                                             *)

RowIds == {rows[k].id : k \in Keys} \ {NoId}

BatchEnds(j, ids, missed) ==
  job' = [job EXCEPT ![j].batches = @ \ {ids}, ![j].missed = @ \cup missed]

\* downloadAndParseResults skips the lines it cannot parse, so that the results of a
\* job that succeeded may lack requests, or all of them; what there is is saved, and the
\* batch is completed.  Foreign keys of both tables refuse an embedding of a chunk that
\* is not there; the batch has failed then.
SaveEmbeddings(j, ids) ==
  /\ ids \in job[j].batches
  /\ \E got \in SUBSET ids :
       \/ /\ got \subseteq RowIds
          /\ BatchEnds(j, ids, ids \ got)
          /\ \/ partitioned' = partitioned \cup got /\ UNCHANGED <<regular, faults>>
             \/ Fault /\ regular' = regular \cup got /\ UNCHANGED partitioned
       \/ /\ IF got \subseteq RowIds THEN Fault ELSE UNCHANGED faults
          /\ BatchEnds(j, ids, ids)
          /\ UNCHANGED <<partitioned, regular>>
  /\ UNCHANGED <<lists, queue, rows, counter, tx>>

CountStep(t) == CountTokens(t) \/ SaveCounts(t) \/ SaveCountsFails(t)

Progress ==
  \/ \E t \in Tx : UpsertRow(t)
  \/ \E t \in Counters : CountStep(t)
  \/ \E j \in Jobs : JobStep(j) \/ \E ids \in job[j].batches : SaveEmbeddings(j, ids)

Next == Progress \/ \E j \in Jobs : Crash(j)

Spec == Init /\ [][Next]_vars

\* Some goroutine that can run runs: statements return, PostgreSQL breaks deadlocks,
\* batches are polled.  None of them repeats a step without end.
Fairness == WF_vars(Progress)

FairSpec == Spec /\ Fairness

-----------------------------------------------------------------------------
StoredRow == [id : Ids \cup {NoId}, count : {0, 1}, counted : BOOLEAN]
Job(j) == [pc : {"idle", "submit", "find", "filter", "enqueue", "store", "ended", "failed"},
           async : BOOLEAN, rest : SUBSET Indices(j), need : SUBSET Indices(j),
           chunk : [Indices(j) -> Ids], batches : SUBSET SUBSET Ids, missed : SUBSET Ids]
Transaction(j) == [todo : SUBSET Indices(j), done : SUBSET Indices(j)]

\* Types, and: a row is locked by one transaction at a time, and by none of a job that
\* is over or between two transactions.
StoreTypeOK ==
  /\ lists \in Parses /\ queue \in 0..MaxQueueSize
  /\ rows \in [Keys -> StoredRow]
  /\ partitioned \subseteq Ids /\ regular \subseteq Ids
  /\ job = [j \in Jobs |-> job[j]] /\ \A j \in Jobs : job[j] \in Job(j)
  /\ counter = [t \in Counters |-> counter[t]]
  /\ \A t \in Counters : counter[t] \subseteq Indices(t[1])
  /\ tx = [t \in Tx |-> tx[t]] /\ \A t \in Tx : tx[t] \in Transaction(t[1])
  /\ faults \in 0..MaxFaults
  /\ \A t, u \in Tx : t # u => Locks(t) \cap Locks(u) = {}
  /\ \A j \in Jobs : job[j].pc \notin {"find", "store"} => tx[main(j)] = Closed

\* A request that waits for its embedding names a chunk that is stored, although the
\* parse made up another id and other jobs store the same chunks at the same time.
RequestsNameChunks ==
  \A j \in Jobs : \A ids \in job[j].batches : ids \subseteq RowIds

\* Once a job has ended well and its batches are over, every chunk it found has an
\* embedding, whoever stored or embedded it and in whatever table, but for those for
\* which a batch of the job itself brought none: it failed or its results lacked them.
DoneIsEmbedded ==
  \A j \in Jobs : job[j].pc = "ended" /\ job[j].batches = {} =>
    \A i \in Indices(j) : rows[lists[j][i]].id \in Embedded \cup job[j].missed

\* Jobs, their counting and their batches come to an end: no row stays locked, and
\* jobs that wait for each other's rows are told apart.
EveryJobEnds ==
  \A j \in Jobs :
    job[j].pc # "idle" ~>
      /\ job[j].pc \in {"ended", "failed"} /\ job[j].batches = {}
      /\ \A t \in Tx : t[1] = j => tx[t] = Closed

-----------------------------------------------------------------------------
(* The inductive invariant behind the theorems.                            *)

\* What FindOrCreateChunks is given, and what a job has not dealt with yet: b is the
\* job's record, m its transaction.
Found(b) == IF b.async THEN Lowest(BatchSize, b.rest) ELSE b.rest
Pending(b, m) ==
  CASE b.pc \in {"submit", "find"} -> b.rest
    [] b.pc \in {"filter", "enqueue"} -> b.need \cup (b.rest \ Found(b))
    [] b.pc = "store" -> b.need \cup m.todo \cup m.done
    [] OTHER -> {}

\* Of job j, when the rows are R and the chunks E have embeddings: the ids it goes by are
\* those of rows; its batches name rows; and each of its chunks is still to be dealt
\* with, or waits in a batch, or has an embedding, or was missed by one of its batches.
JobOK(j, b, m, R, E) ==
  /\ b.pc = "find" => m.todo \cup m.done = First(j, Found(b))
  /\ b.pc = "enqueue" => b.async
  /\ b.pc \in {"filter", "enqueue"} =>
       /\ b.need \subseteq b.rest
       /\ \A i \in b.need : b.chunk[i] = R[lists[j][i]].id /\ b.chunk[i] # NoId
  /\ \A ids \in b.batches : \A c \in ids : c # NoId /\ \E k \in Keys : c = R[k].id
  /\ b.pc \notin {"idle", "failed"} => \A i \in Indices(j) :
       \/ \E h \in Pending(b, m) : lists[j][h] = lists[j][i]
       \/ \E ids \in b.batches : R[lists[j][i]].id \in ids
       \/ R[lists[j][i]].id \in E \cup b.missed

StoreInv ==
  /\ StoreTypeOK
  /\ \A j \in Jobs : JobOK(j, job[j], tx[main(j)], rows, Embedded)
=============================================================================
