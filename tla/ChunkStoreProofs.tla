--------------------------- MODULE ChunkStoreProofs ---------------------------
(***************************************************************************)
(* Proofs about the chunk store, for every number of jobs, keys, chunks,   *)
(* batch sizes and failures, and whatever order the parses give.           *)
(***************************************************************************)
EXTENDS ChunkStore, TLAPS, WellFoundedInduction

\* The parts of the invariant.
DataOK ==
  /\ lists \in Parses /\ queue \in 0..MaxQueueSize
  /\ rows \in [Keys -> StoredRow]
  /\ partitioned \subseteq Ids /\ regular \subseteq Ids
  /\ faults \in 0..MaxFaults
JobsTyped == job = [j \in Jobs |-> job[j]] /\ \A j \in Jobs : job[j] \in Job(j)
CountersTyped ==
  /\ counter = [t \in Counters |-> counter[t]]
  /\ \A t \in Counters : counter[t] \subseteq Indices(t[1])
TxTyped == tx = [t \in Tx |-> tx[t]] /\ \A t \in Tx : tx[t] \in Transaction(t[1])
LocksOK == \A t, u \in Tx : t # u => Locks(t) \cap Locks(u) = {}
RestOK == \A j \in Jobs : job[j].pc \notin {"find", "store"} => tx[main(j)] = Closed
JobsOK == \A j \in Jobs : JobOK(j, job[j], tx[main(j)], rows, Embedded)

LEMMA Parts ==
  /\ StoreInv <=> DataOK /\ JobsTyped /\ CountersTyped /\ TxTyped /\ LocksOK /\ RestOK /\ JobsOK
  /\ StoreInv' <=> DataOK' /\ JobsTyped' /\ CountersTyped' /\ TxTyped' /\ LocksOK' /\ RestOK' /\ JobsOK'
BY Zenon DEF StoreInv, StoreTypeOK, DataOK, JobsTyped, CountersTyped, TxTyped, LocksOK, RestOK, JobsOK

-----------------------------------------------------------------------------
(* Lemmas about keys, ids, and transactions.                               *)

LEMMA Bounds ==
  /\ Parses \subseteq [Jobs -> Seq(Keys)] /\ BatchSize \in Nat /\ CountBatch \in Nat
  /\ MaxQueueSize \in Nat /\ Backlogs \subseteq 0..MaxQueueSize
  /\ SampleSizes \subseteq Nat /\ MaxFaults \in Nat
BY StoreAssumption

LEMMA KeyOfChunk ==
  ASSUME lists \in Parses, NEW j \in Jobs
  PROVE  /\ Indices(j) \subseteq Nat
         /\ \A i \in Indices(j) : lists[j][i] \in Keys
         /\ Len(lists[j]) \in Nat
<1>1. lists[j] \in Seq(Keys)
  BY Bounds
<1> QED BY <1>1 DEF Indices

LEMMA IdsAreIds ==
  /\ NoId \notin Ids
  /\ \A j \in Jobs : \A i \in Indices(j) : <<j, i>> \in Ids
  /\ \A j \in Jobs : Transient(j) \in [Indices(j) -> Ids]
<1>1. \A j \in Jobs : \A i \in Indices(j) : <<j, i>> \in Ids
  BY DEF Ids
<1>2. NoId \notin Ids
  BY DEF Ids, NoId
<1> QED BY <1>1, <1>2 DEF Transient

LEMMA TxOfJobs ==
  /\ \A t \in Tx : t[1] \in Jobs
  /\ \A j \in Jobs : main(j) \in Tx /\ main(j)[1] = j /\ main(j) \notin Counters
  /\ \A j, l \in Jobs : j # l => main(j) # main(l)
  /\ Counters \subseteq Tx
BY DEF Tx, Counters, main

LEMMA LessThan == \A m, n \in Nat : m < n => <<m, n>> \in OpToRel(<, Nat)
<1> SUFFICES ASSUME NEW m \in Nat, NEW n \in Nat, m < n PROVE <<m, n>> \in OpToRel(<, Nat)
  OBVIOUS
<1>1. <<m, n>> \in Nat \X Nat /\ <<m, n>>[1] < <<m, n>>[2]
  OBVIOUS
<1> QED BY <1>1, Zenon DEF OpToRel

\* deduplicateChunksByKey leaves one chunk of every key.
LEMMA FirstCovers ==
  ASSUME lists \in Parses, NEW j \in Jobs, NEW S \in SUBSET Indices(j)
  PROVE  /\ First(j, S) \subseteq S
         /\ \A i \in S : \E h \in First(j, S) : lists[j][h] = lists[j][i]
<1>1. First(j, S) \subseteq S
  BY DEF First
<1>2. ASSUME NEW i \in S PROVE \E h \in First(j, S) : lists[j][h] = lists[j][i]
  <2> DEFINE T == {h \in S : lists[j][h] = lists[j][i]}
  <2>1. T \subseteq Nat /\ T # {} /\ S \subseteq Nat
    BY KeyOfChunk
  <2>2. \E x \in T : \A y \in T : ~(<<y, x>> \in OpToRel(<, Nat))
    <3> HIDE DEF T
    <3> QED BY <2>1, WFMin, NatLessThanWellFounded
  <2>3. PICK x \in T : \A y \in T : ~(<<y, x>> \in OpToRel(<, Nat))
    BY <2>2
  <2>4. \A y \in T : x <= y
    <3>1. \A y \in T : ~(y < x)
      BY <2>1, <2>3, LessThan
    <3> QED BY <2>1, <3>1
  <2>5. x \in First(j, S)
    BY <2>4 DEF First
  <2> QED BY <2>5
<1> QED BY <1>1, <1>2

LEMMA LowestOf ==
  \A n, S : Lowest(n, S) \subseteq S
BY DEF Lowest

\* Rows that are there keep their ids.
Kept(R, S) == \A k \in Keys : R[k].id \in Ids => S[k].id = R[k].id

LEMMA CommittedRows ==
  ASSUME DataOK, TxTyped, NEW t \in Tx
  PROVE  /\ Committed(t) \in [Keys -> StoredRow]
         /\ Kept(rows, Committed(t))
         /\ \A i \in tx[t].done : Committed(t)[lists[t[1]][i]].id \in Ids
<1> USE TxOfJobs
<1>1. tx[t] \in Transaction(t[1]) /\ t[1] \in Jobs /\ lists \in Parses
  BY DEF TxTyped, DataOK
<1>2. tx[t].done \subseteq Indices(t[1])
  BY <1>1 DEF Transaction
<1>3. ASSUME NEW k \in Keys
      PROVE  /\ Committed(t)[k] \in StoredRow
             /\ rows[k].id \in Ids => Committed(t)[k].id = rows[k].id
             /\ k \in Locks(t) => Committed(t)[k].id \in Ids
  <2>1. rows[k] \in StoredRow
    BY DEF DataOK
  <2>2. CASE k \notin Locks(t)
    <3>1. Committed(t)[k] = rows[k]
      BY <2>2 DEF Committed
    <3> QED BY <2>1, <2>2, <3>1
  <2>3. CASE k \in Locks(t)
    <3> DEFINE i == CHOOSE i \in tx[t].done : lists[t[1]][i] = k
               new == Upserted(rows[k], <<t[1], i>>, t \in Counters)
    <3>1. i \in tx[t].done
      BY <2>3 DEF Locks
    <3>2. Committed(t)[k] = new
      BY <2>3 DEF Committed
    <3>3. <<t[1], i>> \in Ids
      BY <3>1, <1>1, <1>2, IdsAreIds
    <3> HIDE DEF i
    <3>4. /\ new.id = IF rows[k].id = NoId THEN <<t[1], i>> ELSE rows[k].id
          /\ new \in StoredRow
      BY <2>1, <3>3 DEF Upserted, StoredRow
    <3> HIDE DEF new
    <3>5. rows[k].id \in Ids \cup {NoId}
      BY <2>1 DEF StoredRow
    <3> QED BY <3>2, <3>3, <3>4, <3>5, IdsAreIds
  <2> QED BY <2>2, <2>3
<1>4. Committed(t) = [k \in Keys |-> Committed(t)[k]]
  BY DEF Committed
<1>5. Committed(t) \in [Keys -> StoredRow]
  BY <1>3, <1>4
<1>6. \A i \in tx[t].done : lists[t[1]][i] \in Keys /\ lists[t[1]][i] \in Locks(t)
  BY <1>1, <1>2, KeyOfChunk DEF Locks
<1> QED BY <1>3, <1>5, <1>6 DEF Kept

\* What is true of a job stays true while rows keep their ids and embeddings are added.
LEMMA JobKept ==
  ASSUME lists \in Parses, NEW j \in Jobs, NEW b \in Job(j), NEW m, NEW R, NEW S,
         NEW E \in SUBSET Ids, NEW F, E \subseteq F,
         R \in [Keys -> StoredRow], Kept(R, S), JobOK(j, b, m, R, E)
  PROVE  JobOK(j, b, m, S, F)
<1> USE IdsAreIds
<1>1. \A k \in Keys : R[k].id # NoId => S[k].id = R[k].id
  BY DEF Kept, StoredRow
<1>2. b.need \subseteq Indices(j) /\ b.batches \in SUBSET SUBSET Ids /\ b.missed \subseteq Ids
  BY DEF Job
<1>3. b.pc \in {"filter", "enqueue"} =>
        /\ b.need \subseteq b.rest
        /\ \A i \in b.need : b.chunk[i] = S[lists[j][i]].id /\ b.chunk[i] # NoId
  BY <1>1, <1>2, KeyOfChunk DEF JobOK
<1>4. \A ids \in b.batches : \A c \in ids : c # NoId /\ \E k \in Keys : c = S[k].id
  BY <1>1 DEF JobOK
<1>5. b.pc \notin {"idle", "failed"} => \A i \in Indices(j) :
       \/ \E h \in Pending(b, m) : lists[j][h] = lists[j][i]
       \/ \E ids \in b.batches : S[lists[j][i]].id \in ids
       \/ S[lists[j][i]].id \in F \cup b.missed
  <2> SUFFICES ASSUME b.pc \notin {"idle", "failed"}, NEW i \in Indices(j),
                      ~\E h \in Pending(b, m) : lists[j][h] = lists[j][i]
               PROVE  \/ \E ids \in b.batches : S[lists[j][i]].id \in ids
                      \/ S[lists[j][i]].id \in F \cup b.missed
    OBVIOUS
  <2>1. \/ \E ids \in b.batches : R[lists[j][i]].id \in ids
        \/ R[lists[j][i]].id \in E \cup b.missed
    BY DEF JobOK
  <2>2. R[lists[j][i]].id \in Ids
    BY <2>1, <1>2
  <2>3. S[lists[j][i]].id = R[lists[j][i]].id
    BY <2>2, KeyOfChunk DEF Kept
  <2> QED BY <2>1, <2>3
<1>6. /\ b.pc = "find" => m.todo \cup m.done = First(j, Found(b))
      /\ b.pc = "enqueue" => b.async
  BY DEF JobOK
<1> QED BY <1>3, <1>4, <1>5, <1>6, Zenon DEF JobOK

\* A transaction changes into one that locks no row of another's.
LEMMA TxChanged ==
  ASSUME lists' = lists, TxTyped, LocksOK, NEW t \in Tx,
         tx' = [tx EXCEPT ![t] = tx'[t]], tx'[t] \in Transaction(t[1]),
         \A u \in Tx : u # t => \A i \in tx'[t].done : lists[t[1]][i] \notin Locks(u)
  PROVE  TxTyped' /\ LocksOK'
<1>1. DOMAIN tx = Tx
  BY DEF TxTyped
<1>2. \A u \in Tx : u # t => tx'[u] = tx[u]
  BY <1>1
<1>3. \A u \in Tx : Transaction(u[1])' = Transaction(u[1])
  BY DEF Transaction, Indices
<1>4. TxTyped'
  BY <1>1, <1>2, <1>3 DEF TxTyped
<1>5. \A u \in Tx : u # t => Locks(u)' = Locks(u)
  BY <1>2 DEF Locks
<1>6. Locks(t)' = {lists[t[1]][i] : i \in tx'[t].done}
  BY DEF Locks
<1> HIDE DEF LocksOK
<1>7. \A u \in Tx : u # t => Locks(t)' \cap Locks(u)' = {}
  BY <1>5, <1>6
<1>8. \A u, v \in Tx : u # v => Locks(u)' \cap Locks(v)' = {}
  BY <1>5, <1>7 DEF LocksOK
<1> QED BY <1>4, <1>8 DEF LocksOK

LEMMA TxOpened ==
  ASSUME lists' = lists, TxTyped, LocksOK, NEW t \in Tx,
         tx' = [tx EXCEPT ![t] = tx'[t]],
         tx'[t].done = {}, tx'[t] \in Transaction(t[1])
  PROVE  TxTyped' /\ LocksOK'
BY TxChanged

\* A step of one job j, or beside it.
LEMMA StepOfJob ==
  ASSUME StoreInv, NEW j \in Jobs, lists' = lists, DataOK',
         Kept(rows, rows'), Embedded \subseteq Embedded',
         job' = [job EXCEPT ![j] = job'[j]], job'[j] \in Job(j),
         CountersTyped', TxTyped', LocksOK',
         \A l \in Jobs : l # j => tx'[main(l)] = tx[main(l)],
         job'[j].pc \notin {"find", "store"} => tx'[main(j)] = Closed,
         JobOK(j, job'[j], tx'[main(j)], rows', Embedded')
  PROVE  StoreInv'
<1> USE Parts
<1>1. DataOK /\ JobsTyped /\ RestOK /\ JobsOK
  OBVIOUS
<1>2. DOMAIN job = Jobs
  BY <1>1 DEF JobsTyped
<1>3. \A l \in Jobs : l # j => job'[l] = job[l]
  BY <1>2
<1>4. \A l \in Jobs : Job(l)' = Job(l)
  BY DEF Job, Indices, Ids
<1>5. JobsTyped'
  BY <1>1, <1>2, <1>3, <1>4 DEF JobsTyped
<1>6. \A l \in Jobs : main(l)' = main(l)
  BY DEF main
<1>7. RestOK'
  <2> SUFFICES ASSUME NEW l \in Jobs, job'[l].pc \notin {"find", "store"}
               PROVE  tx'[main(l)] = Closed
    BY <1>6 DEF RestOK, Closed
  <2> QED BY <1>1, <1>3 DEF RestOK
<1>8. ASSUME NEW l \in Jobs PROVE JobOK(l, job'[l], tx'[main(l)], rows', Embedded')
  <2>1. CASE l = j
    BY <2>1
  <2>2. CASE l # j
    <3>1. JobOK(l, job[l], tx[main(l)], rows, Embedded)
      BY <1>1 DEF JobsOK
    <3>2. job[l] \in Job(l) /\ lists \in Parses /\ rows \in [Keys -> StoredRow]
      BY <1>1 DEF JobsTyped, DataOK
    <3>3. Embedded \subseteq Ids
      BY <1>1 DEF DataOK, Embedded
    <3>4. JobOK(l, job[l], tx[main(l)], rows', Embedded')
      BY <3>1, <3>2, <3>3, JobKept
    <3> QED BY <2>2, <1>3, <3>4
  <2> QED BY <2>1, <2>2
<1>9. JobsOK'
  <2> SUFFICES ASSUME NEW l \in Jobs PROVE JobOK(l, job[l], tx[main(l)], rows, Embedded)'
    BY DEF JobsOK
  <2>1. \A S : First(l, S)' = First(l, S)
    BY DEF First
  <2>2. Indices(l)' = Indices(l)
    BY DEF Indices
  <2> QED BY <1>6, <1>8, <2>1, <2>2 DEF JobOK
<1> QED BY <1>5, <1>7, <1>9

-----------------------------------------------------------------------------
(* Steps of transactions and of token counting.                            *)

LEMMA DataKept ==
  ASSUME DataOK, lists' = lists, queue' \in 0..MaxQueueSize, rows' \in [Keys -> StoredRow],
         partitioned' \subseteq Ids, regular' \subseteq Ids, Fault \/ UNCHANGED faults
  PROVE  DataOK'
<1>1. Ids' = Ids /\ StoredRow' = StoredRow
  BY DEF Ids, StoredRow, Indices
<1>2. faults' \in 0..MaxFaults
  BY Bounds DEF DataOK, Fault
<1> QED BY <1>1, <1>2 DEF DataOK

LEMMA CountersKept ==
  ASSUME CountersTyped, lists' = lists, counter' = counter
  PROVE  CountersTyped'
BY DEF CountersTyped, Indices

LEMMA CounterChanged ==
  ASSUME CountersTyped, lists' = lists, NEW t \in Counters, NEW U \in SUBSET Indices(t[1]),
         counter' = [counter EXCEPT ![t] = U]
  PROVE  CountersTyped'
<1>1. DOMAIN counter = Counters
  BY DEF CountersTyped
<1>2. \A u \in Counters : Indices(u[1])' = Indices(u[1])
  BY DEF Indices
<1>3. counter' = [u \in Counters |-> counter'[u]]
  BY <1>1
<1>4. ASSUME NEW u \in Counters PROVE counter'[u] \subseteq Indices(u[1])
  <2>1. CASE u = t
    BY <1>1, <2>1
  <2>2. CASE u # t
    BY <1>1, <2>2 DEF CountersTyped
  <2> QED BY <2>1, <2>2
<1> QED BY <1>2, <1>3, <1>4 DEF CountersTyped

\* The rows do not change, and neither do the embeddings.
LEMMA NothingKept == Kept(rows, rows) /\ Embedded \subseteq Embedded
BY DEF Kept

\* An upsert moves a chunk within its transaction.
LEMMA UpsertRowSafe ==
  ASSUME StoreInv, NEW t \in Tx, UpsertRow(t)
  PROVE  StoreInv'
<1> USE Parts, TxOfJobs
<1>1. PICK i \in tx[t].todo :
        /\ \A u \in Tx : lists[t[1]][i] \notin Locks(u)
        /\ tx' = [tx EXCEPT ![t].todo = @ \ {i}, ![t].done = @ \cup {i}]
  BY DEF UpsertRow
<1> DEFINE j == t[1]
<1>2. /\ lists' = lists /\ rows' = rows /\ job' = job
      /\ UNCHANGED <<queue, partitioned, regular, counter, faults>>
  BY DEF UpsertRow
<1>3. j \in Jobs /\ DOMAIN tx = Tx /\ tx[t] \in Transaction(j)
  BY DEF TxTyped
<1>4. tx'[t] = [todo |-> tx[t].todo \ {i}, done |-> tx[t].done \cup {i}]
  BY <1>1, <1>3 DEF Transaction
<1>5. tx' = [tx EXCEPT ![t] = tx'[t]] /\ \A u \in Tx : u # t => tx'[u] = tx[u]
  BY <1>1, <1>3
<1>6. tx'[t] \in Transaction(j)
  BY <1>3, <1>4 DEF Transaction
<1>7. \A u \in Tx : u # t => \A h \in tx'[t].done : lists[j][h] \notin Locks(u)
  <2> SUFFICES ASSUME NEW u \in Tx, u # t, NEW h \in tx'[t].done
               PROVE  lists[j][h] \notin Locks(u)
    OBVIOUS
  <2>1. CASE h = i
    BY <2>1, <1>1
  <2>2. CASE h \in tx[t].done
    <3>1. lists[j][h] \in Locks(t) /\ Locks(t) \cap Locks(u) = {}
      BY <2>2 DEF Locks, LocksOK
    <3> QED BY <3>1
  <2> QED BY <1>4, <2>1, <2>2
<1>8. TxTyped' /\ LocksOK'
  BY <1>2, <1>5, <1>6, <1>7, TxChanged
<1>9. DataOK' /\ CountersTyped'
  BY <1>2, DataKept, CountersKept DEF DataOK
<1>10. job' = [job EXCEPT ![j] = job'[j]] /\ job'[j] \in Job(j)
  BY <1>2, <1>3 DEF JobsTyped
<1>11. tx'[main(j)].todo \cup tx'[main(j)].done = tx[main(j)].todo \cup tx[main(j)].done
  BY <1>1, <1>3, <1>4, <1>5
<1>12. JobOK(j, job[j], tx[main(j)], rows, Embedded)
  BY <1>3 DEF JobsOK
<1>13. Pending(job[j], tx'[main(j)]) = Pending(job[j], tx[main(j)])
  BY <1>11 DEF Pending
<1>14. JobOK(j, job'[j], tx'[main(j)], rows', Embedded')
  BY <1>2, <1>11, <1>12, <1>13 DEF JobOK, Embedded
<1>15. job'[j].pc \notin {"find", "store"} => tx'[main(j)] = Closed
  <2>1. job[j].pc \notin {"find", "store"} => tx[main(j)] = Closed
    BY <1>3 DEF RestOK
  <2>2. tx[main(j)] = Closed => main(j) # t
    BY <1>1 DEF Closed
  <2> QED BY <1>2, <1>3, <1>5, <2>1, <2>2
<1>16. \A l \in Jobs : l # j => tx'[main(l)] = tx[main(l)]
  BY <1>3, <1>5
<1> HIDE DEF j
<1> QED BY <1>2, <1>3, <1>8, <1>9, <1>10, <1>14, <1>15, <1>16, StepOfJob, NothingKept DEF Embedded

\* A counting goroutine begins or ends a transaction.
LEMMA CountingStep ==
  ASSUME StoreInv, NEW t \in Counters, lists' = lists, job' = job, DataOK', CountersTyped',
         Kept(rows, rows'), UNCHANGED <<partitioned, regular>>,
         tx' = [tx EXCEPT ![t] = tx'[t]], tx'[t].done = {}, tx'[t] \in Transaction(t[1])
  PROVE  StoreInv'
<1> USE Parts, TxOfJobs
<1> DEFINE j == t[1]
<1>1. j \in Jobs /\ t \in Tx
  OBVIOUS
<1>2. TxTyped' /\ LocksOK'
  BY <1>1, TxOpened
<1>3. \A l \in Jobs : tx'[main(l)] = tx[main(l)]
  BY DEF TxTyped
<1>4. job' = [job EXCEPT ![j] = job'[j]] /\ job[j] \in Job(j)
  BY <1>1 DEF JobsTyped
<1>5. JobOK(j, job[j], tx[main(j)], rows, Embedded)
  BY <1>1 DEF JobsOK
<1>6. Embedded' = Embedded /\ Embedded \in SUBSET Ids
  BY DEF Embedded, DataOK
<1>7. lists \in Parses /\ rows \in [Keys -> StoredRow]
  BY DEF DataOK
<1>8. JobOK(j, job[j], tx[main(j)], rows', Embedded)
  BY <1>1, <1>4, <1>5, <1>6, <1>7, JobKept
<1>9. job[j].pc \notin {"find", "store"} => tx[main(j)] = Closed
  BY <1>1 DEF RestOK
<1> HIDE DEF j
<1> QED BY <1>1, <1>2, <1>3, <1>4, <1>6, <1>8, <1>9, StepOfJob

LEMMA CountTokensSafe ==
  ASSUME StoreInv, NEW t \in Counters, CountTokens(t)
  PROVE  StoreInv'
<1> USE Parts, TxOfJobs
<1>1. UNCHANGED <<lists, queue, rows, partitioned, regular, job>> /\ (Fault \/ UNCHANGED faults)
  BY DEF CountTokens
<1>2. DataOK'
  BY <1>1, DataKept DEF DataOK
<1>3. tx[t] = Closed /\ DOMAIN tx = Tx /\ counter[t] \subseteq Indices(t[1])
  BY DEF CountTokens, TxTyped, CountersTyped
<1>4. PICK n \in Nat, U \in SUBSET counter[t] :
        /\ tx' = [tx EXCEPT ![t].todo = Lowest(n, counter[t])]
        /\ counter' = [counter EXCEPT ![t] = U]
  <2>1. CASE /\ tx' = [tx EXCEPT ![t].todo = Lowest(CountBatch, counter[t])]
             /\ counter' = [counter EXCEPT ![t] = @ \ Lowest(CountBatch, @)]
    <3>1. counter' = [counter EXCEPT ![t] = counter[t] \ Lowest(CountBatch, counter[t])]
      BY <2>1
    <3> QED BY <2>1, <3>1, Bounds
  <2>2. CASE /\ \E n \in 0..(CountBatch - 1) : tx' = [tx EXCEPT ![t].todo = Lowest(n, counter[t])]
             /\ counter' = [counter EXCEPT ![t] = {}]
    <3>1. PICK n \in 0..(CountBatch - 1) : tx' = [tx EXCEPT ![t].todo = Lowest(n, counter[t])]
      BY <2>2
    <3>2. n \in Nat /\ {} \in SUBSET counter[t]
      BY Bounds
    <3> QED BY <2>2, <3>1, <3>2
  <2> QED BY <2>1, <2>2 DEF CountTokens
<1>5. CountersTyped'
  BY <1>1, <1>3, <1>4, CounterChanged
<1>6. tx'[t] = [todo |-> Lowest(n, counter[t]), done |-> {}]
  <2>1. t \in DOMAIN tx /\ tx[t] = [todo |-> {}, done |-> {}]
    BY <1>3 DEF Closed
  <2>2. tx'[t] = [tx[t] EXCEPT !.todo = Lowest(n, counter[t])]
    BY <1>4, <2>1
  <2> QED BY <2>1, <2>2
<1>7. tx' = [tx EXCEPT ![t] = tx'[t]]
  BY <1>3, <1>4
<1>8. tx'[t] \in Transaction(t[1]) /\ tx'[t].done = {}
  BY <1>3, <1>6, LowestOf DEF Transaction
<1> QED BY <1>1, <1>2, <1>5, <1>7, <1>8, CountingStep, NothingKept

LEMMA ClosedTyped == \A j : Closed \in Transaction(j) /\ Closed.done = {} /\ Closed.todo = {}
BY DEF Closed, Transaction

LEMMA ClosedWith == \A S : [Closed EXCEPT !.todo = S] = [todo |-> S, done |-> {}]
BY DEF Closed

LEMMA CountedOf ==
  ASSUME NEW j, NEW S, NEW raced, NEW U \in Counted(j, S, raced)
  PROVE  U \subseteq S
BY LowestOf DEF Counted

LEMMA SaveCountsSafe ==
  ASSUME StoreInv, NEW t \in Counters, SaveCounts(t) \/ SaveCountsFails(t)
  PROVE  StoreInv'
<1> USE Parts, TxOfJobs
<1>1. /\ UNCHANGED <<lists, queue, partitioned, regular, job, counter>>
      /\ Fault \/ UNCHANGED faults
      /\ rows' = Committed(t) \/ rows' = rows
  BY DEF SaveCounts, SaveCountsFails, Fails
<1>2. tx' = [tx EXCEPT ![t] = Closed] /\ DOMAIN tx = Tx
  BY DEF SaveCounts, SaveCountsFails, Aborted, TxTyped
<1>3. rows' \in [Keys -> StoredRow] /\ Kept(rows, rows')
  BY <1>1, CommittedRows, NothingKept DEF DataOK
<1>4. DataOK' /\ CountersTyped'
  BY <1>1, <1>3, DataKept, CountersKept DEF DataOK
<1>5. tx'[t] = Closed
  BY <1>2
<1> QED BY <1>1, <1>2, <1>3, <1>4, <1>5, ClosedTyped, CountingStep

-----------------------------------------------------------------------------
(* Where a job goes from one step to the next.                             *)

\* Each chunk of job j is among those in S, or waits in a batch, or has an embedding.
Covered(j, S) ==
  \A i \in Indices(j) :
    \/ \E h \in S : lists[j][h] = lists[j][i]
    \/ \E ids \in job[j].batches : rows[lists[j][i]].id \in ids
    \/ rows[lists[j][i]].id \in Embedded \cup job[j].missed

LEMMA CoveredByPending ==
  ASSUME StoreInv, NEW j \in Jobs, job[j].pc \notin {"idle", "failed"}
  PROVE  Covered(j, Pending(job[j], tx[main(j)]))
BY Parts DEF JobsOK, JobOK, Covered

LEMMA CoveredBy ==
  ASSUME NEW j \in Jobs, NEW S, NEW T, Covered(j, S),
         \A h \in S : \E g \in T : lists[j][g] = lists[j][h]
  PROVE  Covered(j, T)
BY DEF Covered

\* The steps below change neither rows nor embeddings.
StoreKept == UNCHANGED <<lists, rows, partitioned, regular>> /\ DataOK' /\ CountersTyped'

\* Job j gets the record b, and its transaction is m.
LEMMA JobGets ==
  ASSUME StoreInv, NEW j \in Jobs, StoreKept, NEW b \in Job(j), NEW m \in Transaction(j),
         job' = [job EXCEPT ![j] = b], tx' = [tx EXCEPT ![main(j)] = m], m.done = {},
         b.pc \notin {"find", "store"} => m = Closed,
         JobOK(j, b, m, rows, Embedded)
  PROVE  StoreInv'
<1> USE Parts, TxOfJobs
<1>1. job'[j] = b /\ tx'[main(j)] = m
  BY DEF JobsTyped, TxTyped
<1>2. \A l \in Jobs : l # j => tx'[main(l)] = tx[main(l)]
  BY DEF TxTyped
<1>3. TxTyped' /\ LocksOK'
  BY <1>1, TxOpened DEF StoreKept
<1>4. Embedded' = Embedded
  BY DEF StoreKept, Embedded
<1> QED BY <1>1, <1>2, <1>3, <1>4, StepOfJob, NothingKept DEF StoreKept

LEMMA FindingSafe ==
  ASSUME StoreInv, NEW j \in Jobs, NEW async \in BOOLEAN, NEW rest \in SUBSET Indices(j),
         StoreKept, Finding(j, async, rest), Covered(j, rest)
  PROVE  StoreInv'
<1> USE Parts, TxOfJobs, IdsAreIds
<1>1. job[j] \in Job(j) /\ DOMAIN job = Jobs /\ DOMAIN tx = Tx /\ lists \in Parses
  BY DEF JobsTyped, TxTyped, DataOK
<1> DEFINE b == [job[j] EXCEPT !.pc = "find", !.async = async, !.rest = rest,
                               !.chunk = Transient(j)]
           m == [todo |-> First(j, Found(b)), done |-> {}]
<1>2. b \in Job(j)
  BY <1>1 DEF Job
<1>3. b.pc = "find" /\ b.async = async /\ b.rest = rest /\ b.batches = job[j].batches /\ b.missed = job[j].missed
  BY <1>1 DEF Job
<1>4. job' = [job EXCEPT ![j] = b]
  BY <1>1 DEF Finding
<1>5. Found(b) \in SUBSET Indices(j)
  BY <1>3, LowestOf DEF Found
<1>6. m \in Transaction(j) /\ m.done = {}
  BY <1>1, <1>5, FirstCovers DEF Transaction
<1>7. tx' = [tx EXCEPT ![main(j)] = m]
  <2>1. Found(b) = IF async THEN Lowest(BatchSize, rest) ELSE rest
    BY <1>3 DEF Found
  <2>2. [Closed EXCEPT !.todo = First(j, Found(b))] = m
    BY ClosedWith
  <2>3. tx' = [tx EXCEPT ![main(j)] = [Closed EXCEPT !.todo = First(j, Found(b))]]
    BY <2>1 DEF Finding
  <2> QED BY <2>2, <2>3
<1>8. JobOK(j, job[j], tx[main(j)], rows, Embedded)
  BY DEF JobsOK
<1> HIDE DEF b
<1>9. JobOK(j, b, m, rows, Embedded)
  <2>1. Pending(b, m) = rest
    BY <1>3 DEF Pending
  <2> QED BY <1>3, <1>8, <2>1 DEF JobOK, Covered
<1> HIDE DEF m
<1> QED BY <1>2, <1>3, <1>4, <1>6, <1>7, <1>9, JobGets

LEMMA OverSafe ==
  ASSUME StoreInv, NEW j \in Jobs, NEW pc \in {"ended", "failed"}, StoreKept,
         job' = [job EXCEPT ![j] = Over(j, pc)], tx' = Aborted(main(j)),
         pc = "ended" => Covered(j, {})
  PROVE  StoreInv'
<1> USE Parts, TxOfJobs, IdsAreIds
<1>1. job[j] \in Job(j)
  BY DEF JobsTyped
<1> DEFINE b == Over(j, pc)
<1>2. b \in Job(j)
  BY <1>1 DEF Job, Over
<1>3. b.pc = pc /\ b.batches = job[j].batches /\ b.missed = job[j].missed
  BY <1>1 DEF Job, Over
<1>4. JobOK(j, job[j], tx[main(j)], rows, Embedded)
  BY DEF JobsOK
<1> HIDE DEF b
<1>5. JobOK(j, b, Closed, rows, Embedded)
  BY <1>3, <1>4 DEF JobOK, Covered
<1>6. tx' = [tx EXCEPT ![main(j)] = Closed]
  BY DEF Aborted
<1> QED BY <1>2, <1>3, <1>5, <1>6, ClosedTyped, JobGets DEF b

\* It is still on the closed transaction it had.
LEMMA StillClosed ==
  ASSUME StoreInv, NEW j \in Jobs, tx[main(j)] = Closed
  PROVE  tx = [tx EXCEPT ![main(j)] = Closed] /\ tx = Aborted(main(j))
BY Parts, TxOfJobs DEF TxTyped, Aborted

LEMMA StoringSafe ==
  ASSUME StoreInv, NEW j \in Jobs, NEW need \in SUBSET Indices(j),
         UNCHANGED <<lists, rows, partitioned, regular>>, DataOK',
         Storing(j, need), tx' = Aborted(main(j)), Covered(j, need)
  PROVE  StoreInv'
<1> USE Parts, TxOfJobs, IdsAreIds
<1>1. job[j] \in Job(j) /\ DOMAIN job = Jobs
  BY DEF JobsTyped
<1>2. CountersTyped'
  <2> DEFINE t == <<j, "sequential count">>
  <2>1. PICK U \in Counted(j, need, FALSE) : counter' = [counter EXCEPT ![t] = U]
    BY DEF Storing
  <2>2. U \in SUBSET Indices(t[1]) /\ t \in Counters
    BY <2>1, CountedOf DEF Counters
  <2> HIDE DEF t
  <2> QED BY <2>1, <2>2, CounterChanged
<1> DEFINE b == [job[j] EXCEPT !.pc = "store", !.need = need, !.rest = {},
                               !.chunk = Transient(j)]
<1>3. b \in Job(j) /\ job' = [job EXCEPT ![j] = b]
  BY <1>1 DEF Job, Storing
<1>4. b.pc = "store" /\ b.need = need /\ b.batches = job[j].batches /\ b.missed = job[j].missed
  BY <1>1 DEF Job
<1>5. JobOK(j, job[j], tx[main(j)], rows, Embedded)
  BY DEF JobsOK
<1> HIDE DEF b
<1>6. Pending(b, Closed) = need
  BY <1>4, ClosedTyped DEF Pending
<1>7. JobOK(j, b, Closed, rows, Embedded)
  BY <1>4, <1>5, <1>6 DEF JobOK, Covered
<1>8. tx' = [tx EXCEPT ![main(j)] = Closed]
  BY DEF Aborted
<1> QED BY <1>2, <1>3, <1>4, <1>7, <1>8, ClosedTyped, JobGets DEF StoreKept

LEMMA FallBackSafe ==
  ASSUME StoreInv, NEW j \in Jobs, StoreKept, FallBack(j), Covered(j, job[j].rest)
  PROVE  StoreInv'
<1>1. job[j].rest \in SUBSET Indices(j)
  BY Parts DEF JobsTyped, Job
<1>2. CASE Finding(j, FALSE, job[j].rest)
  BY <1>1, <1>2, FindingSafe
<1>3. CASE job' = [job EXCEPT ![j] = Over(j, "failed")] /\ tx' = Aborted(main(j))
  BY <1>3, OverSafe
<1> QED BY <1>2, <1>3 DEF FallBack

-----------------------------------------------------------------------------
(* The steps of a job.                                                     *)

LEMMA BeginSafe ==
  ASSUME StoreInv, NEW j \in Jobs, Begin(j)
  PROVE  StoreInv'
<1> USE Parts, TxOfJobs, IdsAreIds
<1>1. UNCHANGED <<lists, queue, rows, partitioned, regular, faults>> /\ job[j].pc = "idle"
  BY DEF Begin
<1>2. DataOK'
  BY <1>1, DataKept DEF DataOK
<1>3. Covered(j, Indices(j))
  BY DEF Covered
<1>4. job[j] \in Job(j) /\ DOMAIN job = Jobs
  BY DEF JobsTyped
<1>5. CASE Finding(j, FALSE, Indices(j)) /\ UNCHANGED counter
  BY <1>1, <1>2, <1>3, <1>5, CountersKept, FindingSafe DEF StoreKept
<1>6. CASE /\ job' = [job EXCEPT ![j].pc = "submit", ![j].rest = Indices(j)]
           /\ \E U \in Counted(j, Indices(j), TRUE) :
                counter' = [counter EXCEPT ![<<j, "async count">>] = U]
           /\ UNCHANGED tx
  <2> DEFINE b == [job[j] EXCEPT !.pc = "submit", !.rest = Indices(j)]
             t == <<j, "async count">>
  <2>1. CountersTyped'
    <3>1. PICK U \in Counted(j, Indices(j), TRUE) : counter' = [counter EXCEPT ![t] = U]
      BY <1>6
    <3>2. U \in SUBSET Indices(t[1]) /\ t \in Counters
      BY <3>1, CountedOf DEF Counters
    <3> HIDE DEF t
    <3> QED BY <1>1, <3>1, <3>2, CounterChanged
  <2>2. b \in Job(j) /\ job' = [job EXCEPT ![j] = b]
    BY <1>4, <1>6 DEF Job
  <2>3. b.pc = "submit" /\ b.rest = Indices(j) /\ b.batches = job[j].batches /\ b.missed = job[j].missed
    BY <1>4 DEF Job
  <2> HIDE DEF b
  <2>4. Pending(b, Closed) = Indices(j)
    BY <2>3 DEF Pending
  <2>5. JobOK(j, job[j], tx[main(j)], rows, Embedded)
    BY DEF JobsOK
  <2>6. JobOK(j, b, Closed, rows, Embedded)
    BY <2>3, <2>4, <2>5 DEF JobOK
  <2>7. tx[main(j)] = Closed
    BY <1>1 DEF RestOK
  <2>8. tx' = [tx EXCEPT ![main(j)] = Closed]
    BY <1>6, <2>7, StillClosed
  <2> QED BY <1>1, <1>2, <2>1, <2>2, <2>3, <2>6, <2>8, ClosedTyped, JobGets DEF StoreKept
<1> QED BY <1>5, <1>6 DEF Begin

LEMMA QueueBulkSafe ==
  ASSUME StoreInv, NEW j \in Jobs, QueueBulk(j)
  PROVE  StoreInv'
<1> USE Parts
<1>1. /\ UNCHANGED <<lists, rows, partitioned, regular, counter, faults>>
      /\ job[j].pc = "submit"
  BY DEF QueueBulk
<1>2. queue' \in 0..MaxQueueSize
  <2>1. queue \in 0..MaxQueueSize /\ Len(lists[j]) \in Nat
    BY KeyOfChunk DEF DataOK
  <2>2. queue' = queue \/ (queue' = queue + Len(lists[j]) /\ ~(queue' > MaxQueueSize))
    BY DEF QueueBulk
  <2> QED BY <2>1, <2>2, Bounds
<1>3. StoreKept
  BY <1>1, <1>2, DataKept, CountersKept DEF DataOK, StoreKept
<1>4. Covered(j, job[j].rest)
  BY <1>1, CoveredByPending DEF Pending
<1>5. CASE FallBack(j)
  BY <1>3, <1>4, <1>5, FallBackSafe
<1>6. CASE Finding(j, TRUE, Indices(j))
  <2>1. Covered(j, Indices(j))
    BY DEF Covered
  <2> QED BY <1>3, <1>6, <2>1, FindingSafe
<1> QED BY <1>5, <1>6 DEF QueueBulk

\* What FindOrCreateChunks found is what it was given, one chunk of each key.
LEMMA FindOrCreateChunksSafe ==
  ASSUME StoreInv, NEW j \in Jobs, FindOrCreateChunks(j)
  PROVE  StoreInv'
<1> USE Parts, TxOfJobs
<1>1. /\ UNCHANGED <<lists, queue, partitioned, regular, counter, faults>>
      /\ job[j].pc = "find" /\ tx[main(j)].todo = {}
      /\ rows' = Committed(main(j))
      /\ tx' = [tx EXCEPT ![main(j)] = Closed]
  BY DEF FindOrCreateChunks, Complete
<1>2. /\ job[j] \in Job(j) /\ tx[main(j)] \in Transaction(j) /\ lists \in Parses
      /\ DOMAIN tx = Tx /\ DOMAIN job = Jobs
  BY DEF JobsTyped, TxTyped, DataOK
<1> DEFINE found == tx[main(j)].done
           b == [job[j] EXCEPT !.pc = "filter", !.need = found,
                   !.chunk = [i \in Indices(j) |->
                      IF i \in found THEN rows'[lists[j][i]].id ELSE job[j].chunk[i]]]
<1>3. /\ rows' \in [Keys -> StoredRow] /\ Kept(rows, rows')
      /\ \A i \in found : rows'[lists[j][i]].id \in Ids
  BY <1>1, CommittedRows
<1>4. DataOK' /\ CountersTyped'
  BY <1>1, <1>3, DataKept, CountersKept DEF DataOK
<1>5. found \subseteq Indices(j)
  BY <1>2 DEF Transaction
<1> HIDE DEF found
<1>6. b \in Job(j)
  <2>1. [i \in Indices(j) |-> IF i \in found THEN rows'[lists[j][i]].id ELSE job[j].chunk[i]]
          \in [Indices(j) -> Ids]
    BY <1>2, <1>3 DEF Job
  <2> QED BY <1>2, <1>5, <2>1 DEF Job
<1>7. /\ b.pc = "filter" /\ b.need = found /\ b.batches = job[j].batches /\ b.missed = job[j].missed
      /\ b.async = job[j].async /\ b.rest = job[j].rest
      /\ \A i \in found : b.chunk[i] = rows'[lists[j][i]].id
  BY <1>2, <1>5 DEF Job
<1>8. job' = [job EXCEPT ![j] = b]
  <2>1. job' = [job EXCEPT ![j].pc = "filter", ![j].need = found,
                 ![j].chunk = [i \in Indices(j) |->
                    IF i \in found THEN rows'[lists[j][i]].id ELSE job[j].chunk[i]]]
    BY <1>2 DEF FindOrCreateChunks, found
  <2> QED BY <1>2, <2>1
<1> HIDE DEF b
<1>9. Embedded' = Embedded /\ Embedded \in SUBSET Ids
  BY <1>1 DEF Embedded, DataOK
<1>10. JobOK(j, job[j], tx[main(j)], rows', Embedded)
  <2>1. JobOK(j, job[j], tx[main(j)], rows, Embedded) /\ rows \in [Keys -> StoredRow]
    BY DEF JobsOK, DataOK
  <2> QED BY <1>2, <1>3, <1>9, <2>1, JobKept
<1>11. found = First(j, Found(job[j])) /\ Found(b) = Found(job[j])
  BY <1>1, <1>7, <1>10 DEF JobOK, Found, found
<1>12. \A h \in job[j].rest : \E g \in Pending(b, Closed) : lists[j][g] = lists[j][h]
  <2>1. Pending(b, Closed) = found \cup (job[j].rest \ Found(job[j]))
    BY <1>7, <1>11 DEF Pending
  <2>2. Found(job[j]) \in SUBSET Indices(j)
    BY <1>2, LowestOf DEF Found, Job
  <2>3. \A h \in Found(job[j]) : \E g \in found : lists[j][g] = lists[j][h]
    BY <1>2, <1>11, <2>2, FirstCovers
  <2> QED BY <2>1, <2>3
<1>13. JobOK(j, b, Closed, rows', Embedded)
  <2>1. /\ b.need \subseteq b.rest
        /\ \A i \in b.need : b.chunk[i] = rows'[lists[j][i]].id /\ b.chunk[i] # NoId
    <3>1. Found(job[j]) \subseteq job[j].rest
      BY LowestOf DEF Found
    <3>2. Found(job[j]) \in SUBSET Indices(j)
      BY <1>2, <3>1 DEF Job
    <3>3. b.need \subseteq Found(job[j])
      BY <1>2, <1>7, <1>11, <3>2, FirstCovers
    <3> QED BY <1>3, <1>7, <3>1, <3>3, IdsAreIds
  <2>2. \A ids \in b.batches : \A c \in ids : c # NoId /\ \E k \in Keys : c = rows'[k].id
    BY <1>7, <1>10 DEF JobOK
  <2>3. Pending(job[j], tx[main(j)]) = job[j].rest
    BY <1>1 DEF Pending
  <2>4. \A i \in Indices(j) :
       \/ \E h \in Pending(b, Closed) : lists[j][h] = lists[j][i]
       \/ \E ids \in b.batches : rows'[lists[j][i]].id \in ids
       \/ rows'[lists[j][i]].id \in Embedded \cup b.missed
    <3> SUFFICES ASSUME NEW i \in Indices(j)
                 PROVE  \/ \E h \in Pending(b, Closed) : lists[j][h] = lists[j][i]
                        \/ \E ids \in b.batches : rows'[lists[j][i]].id \in ids
                        \/ rows'[lists[j][i]].id \in Embedded \cup b.missed
      OBVIOUS
    <3>1. \/ \E h \in job[j].rest : lists[j][h] = lists[j][i]
          \/ \E ids \in b.batches : rows'[lists[j][i]].id \in ids
          \/ rows'[lists[j][i]].id \in Embedded \cup b.missed
      BY <1>1, <1>7, <1>10, <2>3 DEF JobOK
    <3> QED BY <1>12, <3>1
  <2> QED BY <1>7, <2>1, <2>2, <2>4 DEF JobOK
<1>14. TxTyped' /\ LocksOK'
  BY <1>1, <1>2, ClosedTyped, TxOpened
<1>15. tx'[main(j)] = Closed /\ \A l \in Jobs : l # j => tx'[main(l)] = tx[main(l)]
  BY <1>1, <1>2
<1>16. job'[j] = b
  BY <1>2, <1>8
<1> QED BY <1>1, <1>3, <1>4, <1>6, <1>7, <1>8, <1>9, <1>13, <1>14, <1>15, <1>16, StepOfJob

LEMMA FindOrCreateFailsSafe ==
  ASSUME StoreInv, NEW j \in Jobs, FindOrCreateFails(j)
  PROVE  StoreInv'
<1> USE Parts
<1>1. /\ UNCHANGED <<lists, queue, rows, partitioned, regular>>
      /\ job[j].pc = "find" /\ (Fault \/ UNCHANGED faults)
  BY DEF FindOrCreateFails, Fails
<1>2. DataOK'
  BY <1>1, DataKept DEF DataOK
<1>3. Covered(j, job[j].rest)
  BY <1>1, CoveredByPending DEF Pending
<1>4. job[j].rest \in SUBSET Indices(j) /\ lists \in Parses
  BY DEF JobsTyped, Job, DataOK
<1>5. CASE FallBack(j) /\ UNCHANGED counter
  BY <1>1, <1>2, <1>3, <1>5, CountersKept, FallBackSafe DEF StoreKept
<1>6. CASE tx' = Aborted(main(j)) /\ Storing(j, First(j, job[j].rest))
  <2>1. First(j, job[j].rest) \in SUBSET Indices(j)
    BY <1>4, FirstCovers
  <2>2. Covered(j, First(j, job[j].rest))
    BY <1>3, <1>4, FirstCovers, CoveredBy
  <2> QED BY <1>1, <1>2, <1>6, <2>1, <2>2, StoringSafe
<1> QED BY <1>5, <1>6 DEF FindOrCreateFails

\* What GetChunkIDsWithEmbeddings leaves out has an embedding.
LEMMA LeftOut ==
  ASSUME StoreInv, NEW j \in Jobs, job[j].pc = "filter", NEW S, NEW need,
         need = job[j].need \/ need = {i \in job[j].need : job[j].chunk[i] \notin Embedded},
         Covered(j, job[j].need \cup S)
  PROVE  Covered(j, need \cup S)
<1>1. \A i \in job[j].need : job[j].chunk[i] = rows[lists[j][i]].id
  BY Parts DEF JobsOK, JobOK
<1> SUFFICES ASSUME NEW i \in Indices(j)
             PROVE  \/ \E h \in need \cup S : lists[j][h] = lists[j][i]
                    \/ \E ids \in job[j].batches : rows[lists[j][i]].id \in ids
                    \/ rows[lists[j][i]].id \in Embedded \cup job[j].missed
  BY DEF Covered
<1>2. CASE \E h \in job[j].need \cup S : lists[j][h] = lists[j][i]
  <2>1. PICK h \in job[j].need \cup S : lists[j][h] = lists[j][i]
    BY <1>2
  <2>2. CASE h \in need \cup S
    BY <2>1, <2>2
  <2>3. CASE h \notin need \cup S
    <3>1. h \in job[j].need /\ job[j].chunk[h] \in Embedded
      BY <2>3
    <3> QED BY <1>1, <2>1, <3>1
  <2> QED BY <2>2, <2>3
<1> QED BY <1>2 DEF Covered

LEMMA FilterNewEmbeddingsSafe ==
  ASSUME StoreInv, NEW j \in Jobs, FilterNewEmbeddings(j)
  PROVE  StoreInv'
<1> USE Parts
<1>1. /\ UNCHANGED <<lists, queue, rows, partitioned, regular, tx>> /\ job[j].pc = "filter"
  BY DEF FilterNewEmbeddings
<1>2. PICK need \in {job[j].need, {i \in job[j].need : job[j].chunk[i] \notin Embedded}} :
        /\ Fault \/ UNCHANGED faults
        /\ IF job[j].async
           THEN job' = [job EXCEPT ![j].pc = "enqueue", ![j].need = need] /\ UNCHANGED counter
           ELSE Storing(j, need)
  BY DEF FilterNewEmbeddings
<1>3. DataOK'
  BY <1>1, <1>2, DataKept DEF DataOK
<1>4. job[j] \in Job(j) /\ DOMAIN job = Jobs /\ need \in SUBSET Indices(j)
  BY DEF JobsTyped, Job
<1>5. tx[main(j)] = Closed
  BY <1>1 DEF RestOK
<1>6. tx' = Aborted(main(j)) /\ tx' = [tx EXCEPT ![main(j)] = Closed]
  BY <1>1, <1>5, StillClosed
<1> DEFINE left == job[j].rest \ Found(job[j])
<1>7. Covered(j, job[j].need \cup left)
  <2>1. Pending(job[j], tx[main(j)]) = job[j].need \cup left
    BY <1>1 DEF Pending
  <2> QED BY <1>1, <2>1, CoveredByPending
<1> HIDE DEF left
<1>8. Covered(j, need \cup left)
  BY <1>1, <1>7, LeftOut
<1>9. CASE ~job[j].async
  <2>1. left = {}
    BY <1>9 DEF left, Found
  <2>2. Covered(j, need)
    BY <1>8, <2>1
  <2> QED BY <1>1, <1>2, <1>3, <1>4, <1>6, <1>9, <2>2, StoringSafe
<1>10. CASE job[j].async
  <2> DEFINE b == [job[j] EXCEPT !.pc = "enqueue", !.need = need]
  <2>1. b \in Job(j) /\ job' = [job EXCEPT ![j] = b]
    BY <1>2, <1>4, <1>10 DEF Job
  <2>2. /\ b.pc = "enqueue" /\ b.need = need /\ b.async /\ b.rest = job[j].rest
        /\ b.chunk = job[j].chunk /\ b.batches = job[j].batches /\ b.missed = job[j].missed
    BY <1>4, <1>10 DEF Job
  <2> HIDE DEF b
  <2>3. Pending(b, Closed) = need \cup left
    BY <1>10, <2>2 DEF Pending, left, Found
  <2>4. JobOK(j, job[j], tx[main(j)], rows, Embedded)
    BY DEF JobsOK
  <2>5. need \subseteq job[j].need
    OBVIOUS
  <2>6. JobOK(j, b, Closed, rows, Embedded)
    <3>1. /\ b.need \subseteq b.rest
          /\ \A i \in b.need : b.chunk[i] = rows[lists[j][i]].id /\ b.chunk[i] # NoId
      BY <1>1, <2>2, <2>4, <2>5 DEF JobOK
    <3>2. \A ids \in b.batches : \A c \in ids : c # NoId /\ \E k \in Keys : c = rows[k].id
      BY <2>2, <2>4 DEF JobOK
    <3> QED BY <1>8, <2>2, <2>3, <3>1, <3>2 DEF JobOK, Covered
  <2>7. StoreKept
    BY <1>1, <1>2, <1>3, <1>10, CountersKept DEF StoreKept
  <2> QED BY <1>6, <2>1, <2>2, <2>6, <2>7, ClosedTyped, JobGets
<1> QED BY <1>9, <1>10

\* The chunks of a batch wait in it.
LEMMA QueuedCovers ==
  ASSUME StoreInv, NEW j \in Jobs, job[j].pc = "enqueue",
         NEW queued, queued = job[j].batches \cup ({{job[j].chunk[i] : i \in job[j].need}} \ {{}}),
         NEW i \in Indices(j)
  PROVE  \/ \E h \in job[j].rest \ Lowest(BatchSize, job[j].rest) : lists[j][h] = lists[j][i]
         \/ \E ids \in queued : rows[lists[j][i]].id \in ids
         \/ rows[lists[j][i]].id \in Embedded \cup job[j].missed
<1> USE Parts
<1> DEFINE left == job[j].rest \ Lowest(BatchSize, job[j].rest)
           these == {job[j].chunk[h] : h \in job[j].need}
<1>1. JobOK(j, job[j], tx[main(j)], rows, Embedded)
  BY DEF JobsOK
<1>2. Pending(job[j], tx[main(j)]) = job[j].need \cup left
  BY <1>1 DEF Pending, Found, JobOK
<1>3. Covered(j, job[j].need \cup left)
  BY <1>2, CoveredByPending
<1>4. \A h \in job[j].need : job[j].chunk[h] = rows[lists[j][h]].id
  BY <1>1 DEF JobOK
<1>5. \A h \in job[j].need : job[j].chunk[h] \in these /\ these \in queued
  OBVIOUS
<1> HIDE DEF left, these
<1> QED BY <1>3, <1>4, <1>5 DEF Covered, left

LEMMA EnqueueBatchSafe ==
  ASSUME StoreInv, NEW j \in Jobs, EnqueueBatch(j)
  PROVE  StoreInv'
<1> USE Parts, IdsAreIds
<1> DEFINE rest == job[j].rest \ Lowest(BatchSize, job[j].rest)
           queued == job[j].batches \cup ({{job[j].chunk[i] : i \in job[j].need}} \ {{}})
<1>1. /\ UNCHANGED <<lists, queue, rows, partitioned, regular, counter>>
      /\ Fault \/ UNCHANGED faults
      /\ job[j].pc = "enqueue"
  BY DEF EnqueueBatch
<1>2. StoreKept
  BY <1>1, DataKept, CountersKept DEF DataOK, StoreKept
<1>3. /\ job[j] \in Job(j) /\ DOMAIN job = Jobs /\ DOMAIN tx = Tx /\ lists \in Parses
  BY DEF JobsTyped, TxTyped, DataOK
<1>4. tx[main(j)] = Closed
  BY <1>1 DEF RestOK
<1>5. JobOK(j, job[j], tx[main(j)], rows, Embedded)
  BY DEF JobsOK
<1>6. rest \in SUBSET Indices(j)
  BY <1>3 DEF Job
<1>7. queued \in SUBSET SUBSET Ids
  <2>1. {job[j].chunk[i] : i \in job[j].need} \in SUBSET Ids
    BY <1>3 DEF Job
  <2> QED BY <1>3, <2>1 DEF Job
<1>8. \A ids \in queued : \A c \in ids : c # NoId /\ \E k \in Keys : c = rows[k].id
  <2>1. \A i \in job[j].need : lists[j][i] \in Keys
    BY <1>3, KeyOfChunk DEF Job
  <2> QED BY <1>1, <1>5, <2>1 DEF JobOK
<1>9. \A i \in Indices(j) :
        \/ \E h \in rest : lists[j][h] = lists[j][i]
        \/ \E ids \in queued : rows[lists[j][i]].id \in ids
        \/ rows[lists[j][i]].id \in Embedded \cup job[j].missed
  BY <1>1, QueuedCovers
<1>10. \A pc \in {"ended", "find"} :
         /\ Over(j, pc).pc = pc /\ Over(j, pc) \in Job(j) /\ Over(j, pc).missed = job[j].missed
  BY <1>3 DEF Over, Job
<1> HIDE DEF rest, queued
<1>11. CASE rest = {} /\ job' = [job EXCEPT ![j] = [Over(j, "ended") EXCEPT !.batches = queued]]
            /\ UNCHANGED tx
  <2> DEFINE b == [Over(j, "ended") EXCEPT !.batches = queued]
  <2>1. b \in Job(j)
    BY <1>7, <1>10 DEF Job
  <2>2. b.pc = "ended" /\ b.batches = queued /\ b.missed = job[j].missed
    BY <1>3 DEF Over, Job
  <2> HIDE DEF b
  <2>3. JobOK(j, b, Closed, rows, Embedded)
    BY <1>8, <1>9, <1>11, <2>2 DEF JobOK
  <2>4. job' = [job EXCEPT ![j] = b]
    BY <1>11 DEF b
  <2>5. tx' = [tx EXCEPT ![main(j)] = Closed]
    BY <1>4, <1>11, StillClosed
  <2> QED BY <1>2, <2>1, <2>2, <2>3, <2>4, <2>5, ClosedTyped, JobGets
<1>12. CASE /\ job' = [job EXCEPT ![j] = [Over(j, "find") EXCEPT !.batches = queued,
                                           !.async = TRUE, !.rest = rest]]
            /\ tx' = [tx EXCEPT ![main(j)].todo = First(j, Lowest(BatchSize, rest))]
  <2> DEFINE b == [Over(j, "find") EXCEPT !.batches = queued, !.async = TRUE, !.rest = rest]
             m == [todo |-> First(j, Found(b)), done |-> {}]
  <2>1. b \in Job(j)
    BY <1>6, <1>7, <1>10 DEF Job
  <2>2. b.pc = "find" /\ b.async /\ b.rest = rest /\ b.batches = queued /\ b.missed = job[j].missed
    BY <1>3 DEF Over, Job
  <2>3. job' = [job EXCEPT ![j] = b]
    BY <1>12
  <2> HIDE DEF b
  <2>4. Found(b) = Lowest(BatchSize, rest) /\ Found(b) \in SUBSET Indices(j)
    BY <1>6, <2>2, LowestOf DEF Found
  <2>5. m \in Transaction(j) /\ m.done = {}
    BY <1>3, <2>4, FirstCovers DEF Transaction
  <2>6. tx' = [tx EXCEPT ![main(j)] = m]
    <3>1. main(j) \in DOMAIN tx
      BY <1>3, TxOfJobs
    <3>2. [tx[main(j)] EXCEPT !.todo = First(j, Found(b))] = m
      BY <1>4, ClosedWith
    <3>3. tx' = [tx EXCEPT ![main(j)] = [tx[main(j)] EXCEPT !.todo = First(j, Found(b))]]
      BY <1>12, <2>4, <3>1
    <3> QED BY <3>2, <3>3
  <2>7. JobOK(j, b, m, rows, Embedded)
    <3>1. Pending(b, m) = rest
      BY <2>2 DEF Pending
    <3> QED BY <1>8, <1>9, <2>2, <3>1 DEF JobOK
  <2> HIDE DEF m
  <2> QED BY <1>2, <2>1, <2>2, <2>3, <2>5, <2>6, <2>7, JobGets
<1>13. CASE FallBack(j)
  <2>1. Pending(job[j], tx[main(j)]) \subseteq job[j].rest
    BY <1>1, <1>5 DEF Pending, JobOK
  <2>2. Covered(j, job[j].rest)
    BY <1>1, <2>1, CoveredByPending, CoveredBy
  <2> QED BY <1>2, <1>13, <2>2, FallBackSafe
<1> QED BY <1>11, <1>12, <1>13 DEF EnqueueBatch, rest, queued

LEMMA EmbedNextSafe ==
  ASSUME StoreInv, NEW j \in Jobs, EmbedNext(j)
  PROVE  StoreInv'
<1> USE Parts, TxOfJobs
<1>1. /\ UNCHANGED <<lists, queue, rows, partitioned, regular, counter>>
      /\ Fault \/ UNCHANGED faults
      /\ job[j].pc = "store" /\ tx[main(j)] = Closed
  BY DEF EmbedNext
<1>2. StoreKept
  BY <1>1, DataKept, CountersKept DEF DataOK, StoreKept
<1>3. /\ job[j] \in Job(j) /\ DOMAIN job = Jobs /\ DOMAIN tx = Tx
      /\ JobOK(j, job[j], tx[main(j)], rows, Embedded)
  BY DEF JobsTyped, TxTyped, JobsOK
<1>4. Covered(j, job[j].need)
  <2>1. Pending(job[j], tx[main(j)]) = job[j].need
    BY <1>1, ClosedTyped DEF Pending
  <2> QED BY <1>1, <2>1, CoveredByPending
<1>5. CASE job[j].need = {} /\ job' = [job EXCEPT ![j] = Over(j, "ended")] /\ UNCHANGED tx
  <2>1. tx' = Aborted(main(j))
    BY <1>1, <1>5, StillClosed
  <2> QED BY <1>2, <1>4, <1>5, <2>1, OverSafe
<1>6. CASE job' = [job EXCEPT ![j] = Over(j, "failed")] /\ UNCHANGED tx
  <2>1. tx' = Aborted(main(j))
    BY <1>1, <1>6, StillClosed
  <2> QED BY <1>2, <1>6, <2>1, OverSafe
<1>7. CASE /\ tx' = [tx EXCEPT ![main(j)].todo = Lowest(1, job[j].need)]
           /\ job' = [job EXCEPT ![j].need = @ \ Lowest(1, @)]
  <2> DEFINE next == Lowest(1, job[j].need)
             b == [job[j] EXCEPT !.need = @ \ next]
             m == [todo |-> next, done |-> {}]
  <2>1. next \subseteq job[j].need
    BY LowestOf
  <2>2. job' = [job EXCEPT ![j] = b]
    BY <1>3, <1>7
  <2>3. tx' = [tx EXCEPT ![main(j)] = m]
    <3>1. [tx[main(j)] EXCEPT !.todo = next] = m
      BY <1>1, ClosedWith
    <3>2. tx' = [tx EXCEPT ![main(j)] = [tx[main(j)] EXCEPT !.todo = next]]
      BY <1>3, <1>7
    <3> QED BY <3>1, <3>2
  <2> HIDE DEF next
  <2>4. b \in Job(j) /\ m \in Transaction(j) /\ m.done = {}
    BY <1>3, <2>1 DEF Job, Transaction
  <2>5. /\ b.pc = "store" /\ b.need = job[j].need \ next
        /\ b.batches = job[j].batches /\ b.missed = job[j].missed
    BY <1>1, <1>3 DEF Job
  <2> HIDE DEF b
  <2>6. Pending(b, m) = job[j].need
    BY <2>1, <2>5 DEF Pending
  <2>7. JobOK(j, b, m, rows, Embedded)
    BY <1>3, <1>4, <2>5, <2>6 DEF JobOK, Covered
  <2> HIDE DEF m
  <2> QED BY <1>2, <2>2, <2>3, <2>4, <2>5, <2>7, JobGets
<1> QED BY <1>5, <1>6, <1>7 DEF EmbedNext

LEMMA SaveChunkWithEmbeddingFailsSafe ==
  ASSUME StoreInv, NEW j \in Jobs, SaveChunkWithEmbeddingFails(j)
  PROVE  StoreInv'
<1>1. /\ UNCHANGED <<lists, queue, rows, partitioned, regular, counter>>
      /\ Fault \/ UNCHANGED faults
      /\ job' = [job EXCEPT ![j] = Over(j, "failed")] /\ tx' = Aborted(main(j))
  BY DEF SaveChunkWithEmbeddingFails, Fails
<1>2. StoreKept
  BY <1>1, Parts, DataKept, CountersKept DEF DataOK, StoreKept
<1> QED BY <1>1, <1>2, OverSafe

\* What was pending in the transaction has an embedding when it commits.
LEMMA SaveChunkWithEmbeddingSafe ==
  ASSUME StoreInv, NEW j \in Jobs, SaveChunkWithEmbedding(j)
  PROVE  StoreInv'
<1> USE Parts, TxOfJobs
<1> DEFINE done == tx[main(j)].done
<1>1. /\ UNCHANGED <<lists, queue, regular, job, counter, faults>>
      /\ job[j].pc = "store" /\ tx[main(j)].todo = {}
      /\ rows' = Committed(main(j))
      /\ partitioned' = partitioned \cup {rows'[lists[j][i]].id : i \in done}
      /\ tx' = [tx EXCEPT ![main(j)] = Closed]
  BY DEF SaveChunkWithEmbedding, Complete
<1>2. /\ job[j] \in Job(j) /\ lists \in Parses /\ DOMAIN tx = Tx
      /\ tx[main(j)] \in Transaction(j)
      /\ job' = [job EXCEPT ![j] = job'[j]] /\ job'[j] = job[j]
  BY <1>1 DEF JobsTyped, TxTyped, DataOK
<1>3. /\ rows' \in [Keys -> StoredRow] /\ Kept(rows, rows')
      /\ \A i \in done : rows'[lists[j][i]].id \in Ids
  BY <1>1, CommittedRows
<1> HIDE DEF done
<1>4. DataOK' /\ CountersTyped'
  <2>1. partitioned' \subseteq Ids
    BY <1>1, <1>3 DEF DataOK
  <2> QED BY <1>1, <1>3, <2>1, DataKept, CountersKept DEF DataOK
<1>5. Embedded \in SUBSET Ids /\ Embedded \subseteq Embedded'
  BY <1>1 DEF Embedded, DataOK
<1>6. JobOK(j, job[j], tx[main(j)], rows', Embedded')
  <2>1. JobOK(j, job[j], tx[main(j)], rows, Embedded) /\ rows \in [Keys -> StoredRow]
    BY DEF JobsOK, DataOK
  <2> QED BY <1>2, <1>3, <1>5, <2>1, JobKept
<1>7. JobOK(j, job[j], Closed, rows', Embedded')
  <2>1. \A ids \in job[j].batches : \A c \in ids : c # NoId /\ \E k \in Keys : c = rows'[k].id
    BY <1>6 DEF JobOK
  <2>2. Pending(job[j], tx[main(j)]) = job[j].need \cup done /\ Pending(job[j], Closed) = job[j].need
    BY <1>1, ClosedTyped DEF Pending, done
  <2>3. \A h \in done : rows'[lists[j][h]].id \in Embedded'
    BY <1>1 DEF Embedded
  <2>4. \A i \in Indices(j) :
       \/ \E h \in job[j].need : lists[j][h] = lists[j][i]
       \/ \E ids \in job[j].batches : rows'[lists[j][i]].id \in ids
       \/ rows'[lists[j][i]].id \in Embedded' \cup job[j].missed
    <3> SUFFICES ASSUME NEW i \in Indices(j)
                 PROVE  \/ \E h \in job[j].need : lists[j][h] = lists[j][i]
                        \/ \E ids \in job[j].batches : rows'[lists[j][i]].id \in ids
                        \/ rows'[lists[j][i]].id \in Embedded' \cup job[j].missed
      OBVIOUS
    <3>1. \/ \E h \in job[j].need \cup done : lists[j][h] = lists[j][i]
          \/ \E ids \in job[j].batches : rows'[lists[j][i]].id \in ids
          \/ rows'[lists[j][i]].id \in Embedded' \cup job[j].missed
      BY <1>1, <1>6, <2>2 DEF JobOK
    <3> QED BY <2>3, <3>1
  <2> QED BY <1>1, <2>1, <2>2, <2>4 DEF JobOK
<1>8. TxTyped' /\ LocksOK'
  BY <1>1, <1>2, ClosedTyped, TxOpened
<1>9. tx'[main(j)] = Closed /\ \A l \in Jobs : l # j => tx'[main(l)] = tx[main(l)]
  BY <1>1, <1>2
<1> QED BY <1>1, <1>2, <1>3, <1>4, <1>5, <1>7, <1>8, <1>9, StepOfJob

LEMMA CrashSafe ==
  ASSUME StoreInv, NEW j \in Jobs, Crash(j)
  PROVE  StoreInv'
<1> USE Parts, TxOfJobs, IdsAreIds
<1>1. /\ UNCHANGED <<lists, queue, rows, partitioned, regular>> /\ Fault
      /\ job' = [job EXCEPT ![j] = Over(j, "failed")]
      /\ tx' = [t \in Tx |-> IF t[1] = j THEN Closed ELSE tx[t]]
      /\ counter' = [t \in Counters |-> IF t[1] = j THEN {} ELSE counter[t]]
  BY DEF Crash
<1> DEFINE b == Over(j, "failed")
<1>2. /\ job[j] \in Job(j) /\ DOMAIN job = Jobs
      /\ JobOK(j, job[j], tx[main(j)], rows, Embedded)
  BY DEF JobsTyped, JobsOK
<1>3. DataOK'
  BY <1>1, DataKept DEF DataOK
<1>4. b \in Job(j) /\ b.pc = "failed" /\ b.batches = job[j].batches /\ job'[j] = b
  BY <1>1, <1>2 DEF Job, Over
<1> HIDE DEF b
<1>5. CountersTyped'
  BY <1>1 DEF CountersTyped, Indices
<1>6. TxTyped'
  BY <1>1, ClosedTyped DEF TxTyped, Transaction, Indices
<1>7. \A t \in Tx : Locks(t)' = {} \/ Locks(t)' = Locks(t)
  <2> SUFFICES ASSUME NEW t \in Tx PROVE Locks(t)' = {} \/ Locks(t)' = Locks(t)
    OBVIOUS
  <2>1. tx'[t].done = {} \/ tx'[t] = tx[t]
    BY <1>1, ClosedTyped
  <2> QED BY <1>1, <2>1 DEF Locks
<1>8. LocksOK'
  <2>1. \A t, u \in Tx : t # u => Locks(t) \cap Locks(u) = {}
    BY Zenon, Parts DEF LocksOK
  <2>2. \A t, u \in Tx : t # u => Locks(t)' \cap Locks(u)' = {}
    BY <1>7, <2>1
  <2> QED BY <2>2 DEF LocksOK
<1>9. tx'[main(j)] = Closed /\ \A l \in Jobs : l # j => tx'[main(l)] = tx[main(l)]
  BY <1>1
<1>10. JobOK(j, b, Closed, rows, Embedded)
  BY <1>2, <1>4 DEF JobOK
<1>11. job' = [job EXCEPT ![j] = b]
  BY <1>1 DEF b
<1> QED BY <1>1, <1>3, <1>4, <1>5, <1>6, <1>8, <1>9, <1>10, <1>11, StepOfJob, NothingKept DEF Embedded

\* What leaves the batches has an embedding, or is known to be missed.
LEMMA SaveEmbeddingsSafe ==
  ASSUME StoreInv, NEW j \in Jobs, NEW ids, SaveEmbeddings(j, ids)
  PROVE  StoreInv'
<1> USE Parts, TxOfJobs
<1>1. /\ UNCHANGED <<lists, queue, rows, counter, tx>> /\ ids \in job[j].batches
      /\ Fault \/ UNCHANGED faults
      /\ Embedded \subseteq Embedded'
      /\ partitioned' \subseteq partitioned \cup ids /\ regular' \subseteq regular \cup ids
  BY DEF SaveEmbeddings, Embedded
<1>2. /\ job[j] \in Job(j) /\ DOMAIN job = Jobs
      /\ JobOK(j, job[j], tx[main(j)], rows, Embedded)
  BY DEF JobsTyped, JobsOK
<1>3. DataOK' /\ CountersTyped'
  <2>1. ids \subseteq Ids
    BY <1>1, <1>2 DEF Job
  <2> QED BY <1>1, <2>1, DataKept, CountersKept DEF DataOK
<1>4. PICK missed \in SUBSET ids :
        /\ job' = [job EXCEPT ![j] = [job[j] EXCEPT !.batches = @ \ {ids}, !.missed = @ \cup missed]]
        /\ ids \ missed \subseteq Embedded'
  <2>1. PICK missed \in SUBSET ids : BatchEnds(j, ids, missed) /\ ids \ missed \subseteq Embedded'
    <3> PICK got \in SUBSET ids :
          \/ /\ BatchEnds(j, ids, ids \ got)
             /\ partitioned' = partitioned \cup got \/ regular' = regular \cup got
          \/ BatchEnds(j, ids, ids)
      BY DEF SaveEmbeddings
    <3>1. CASE /\ BatchEnds(j, ids, ids \ got)
               /\ partitioned' = partitioned \cup got \/ regular' = regular \cup got
      <4>1. ids \ (ids \ got) \subseteq Embedded'
        BY <3>1 DEF Embedded
      <4> QED BY <3>1, <4>1
    <3>2. CASE BatchEnds(j, ids, ids)
      BY <3>2
    <3> QED BY <3>1, <3>2
  <2> QED BY <1>2, <2>1 DEF BatchEnds
<1> DEFINE b == [job[j] EXCEPT !.batches = @ \ {ids}, !.missed = @ \cup missed]
<1>5. /\ b \in Job(j) /\ b.pc = job[j].pc /\ b.async = job[j].async /\ b.rest = job[j].rest
      /\ b.need = job[j].need /\ b.chunk = job[j].chunk
      /\ b.batches = job[j].batches \ {ids} /\ b.missed = job[j].missed \cup missed
  <2>1. ids \subseteq Ids
    BY <1>1, <1>2 DEF Job
  <2> QED BY <1>2, <2>1 DEF Job
<1>6. job' = [job EXCEPT ![j] = b] /\ job'[j] = b
  BY <1>2, <1>4
<1> HIDE DEF b
<1>7. Found(b) = Found(job[j]) /\ Pending(b, tx[main(j)]) = Pending(job[j], tx[main(j)])
  BY <1>5 DEF Found, Pending
<1>8. JobOK(j, b, tx[main(j)], rows, Embedded')
  <2>1. \A c \in ids : c \in Embedded' \cup b.missed
    BY <1>4, <1>5
  <2>2. b.pc \notin {"idle", "failed"} => \A i \in Indices(j) :
       \/ \E h \in Pending(b, tx[main(j)]) : lists[j][h] = lists[j][i]
       \/ \E set \in b.batches : rows[lists[j][i]].id \in set
       \/ rows[lists[j][i]].id \in Embedded' \cup b.missed
    <3> SUFFICES ASSUME b.pc \notin {"idle", "failed"}, NEW i \in Indices(j)
                 PROVE  \/ \E h \in Pending(b, tx[main(j)]) : lists[j][h] = lists[j][i]
                        \/ \E set \in b.batches : rows[lists[j][i]].id \in set
                        \/ rows[lists[j][i]].id \in Embedded' \cup b.missed
      OBVIOUS
    <3>1. \/ \E h \in Pending(job[j], tx[main(j)]) : lists[j][h] = lists[j][i]
          \/ \E set \in job[j].batches : rows[lists[j][i]].id \in set
          \/ rows[lists[j][i]].id \in Embedded \cup job[j].missed
      BY <1>2, <1>5 DEF JobOK
    <3>2. job[j].missed \subseteq b.missed
      BY <1>5
    <3> QED BY <1>1, <1>5, <1>7, <2>1, <3>1, <3>2
  <2>3. /\ b.pc = "find" =>
             tx[main(j)].todo \cup tx[main(j)].done = First(j, Found(b))
        /\ b.pc = "enqueue" => b.async
        /\ b.pc \in {"filter", "enqueue"} =>
             /\ b.need \subseteq b.rest
             /\ \A i \in b.need : b.chunk[i] = rows[lists[j][i]].id /\ b.chunk[i] # NoId
        /\ \A set \in b.batches : \A c \in set : c # NoId /\ \E k \in Keys : c = rows[k].id
    BY <1>2, <1>5, <1>7 DEF JobOK
  <2> QED BY <2>2, <2>3 DEF JobOK
<1>9. TxTyped' /\ LocksOK'
  <2>1. tx[main(j)] \in Transaction(j) /\ tx' = [tx EXCEPT ![main(j)] = tx'[main(j)]]
    BY <1>1 DEF TxTyped
  <2>2. \A u \in Tx : u # main(j) =>
          \A i \in tx'[main(j)].done : lists[j][i] \notin Locks(u)
    <3>1. \A u \in Tx : u # main(j) => Locks(main(j)) \cap Locks(u) = {}
      BY DEF LocksOK
    <3>2. \A i \in tx'[main(j)].done : lists[j][i] \in Locks(main(j))
      BY <1>1 DEF Locks
    <3> QED BY <3>1, <3>2
  <2> QED BY <1>1, <2>1, <2>2, TxChanged
<1>10. b.pc \notin {"find", "store"} => tx'[main(j)] = Closed
  BY <1>1, <1>5 DEF RestOK
<1> QED BY <1>1, <1>3, <1>5, <1>6, <1>8, <1>9, <1>10, StepOfJob, NothingKept

-----------------------------------------------------------------------------
(* The specification.                                                      *)

LEMMA StoreInit == Init => StoreInv
<1> SUFFICES ASSUME Init PROVE StoreInv
  OBVIOUS
<1> USE TxOfJobs, IdsAreIds, ClosedTyped DEF Init
<1>1. DataOK
  BY Bounds DEF DataOK, StoredRow
<1>2. \A j \in Jobs : job[j] \in Job(j) /\ job[j].pc = "idle" /\ job[j].batches = {}
  BY DEF Job
<1>3. JobsTyped
  BY <1>2 DEF JobsTyped
<1>4. CountersTyped
  BY DEF CountersTyped
<1>5. TxTyped
  BY DEF TxTyped, Transaction
<1>6. \A t \in Tx : Locks(t) = {}
  BY DEF Locks
<1>7. LocksOK
  BY <1>6 DEF LocksOK
<1>8. RestOK
  BY DEF RestOK
<1>9. JobsOK
  BY <1>2 DEF JobsOK, JobOK
<1> HIDE DEF Init
<1> QED BY <1>1, <1>3, <1>4, <1>5, <1>7, <1>8, <1>9, Parts

LEMMA JobStepSafe ==
  ASSUME StoreInv, NEW j \in Jobs, JobStep(j)
  PROVE  StoreInv'
<1>1. CASE Begin(j)
  BY <1>1, BeginSafe
<1>2. CASE QueueBulk(j)
  BY <1>2, QueueBulkSafe
<1>3. CASE FindOrCreateChunks(j)
  BY <1>3, FindOrCreateChunksSafe
<1>4. CASE FindOrCreateFails(j)
  BY <1>4, FindOrCreateFailsSafe
<1>5. CASE FilterNewEmbeddings(j)
  BY <1>5, FilterNewEmbeddingsSafe
<1>6. CASE EnqueueBatch(j)
  BY <1>6, EnqueueBatchSafe
<1>7. CASE EmbedNext(j)
  BY <1>7, EmbedNextSafe
<1>8. CASE SaveChunkWithEmbedding(j)
  BY <1>8, SaveChunkWithEmbeddingSafe
<1>9. CASE SaveChunkWithEmbeddingFails(j)
  BY <1>9, SaveChunkWithEmbeddingFailsSafe
<1> QED
  BY <1>1, <1>2, <1>3, <1>4, <1>5, <1>6, <1>7, <1>8, <1>9 DEF JobStep

LEMMA StoreStep == StoreInv /\ [Next]_vars => StoreInv'
<1> SUFFICES ASSUME StoreInv, [Next]_vars PROVE StoreInv'
  OBVIOUS
<1>1. ASSUME NEW t \in Tx, UpsertRow(t) PROVE StoreInv'
  BY <1>1, UpsertRowSafe
<1>2. ASSUME NEW t \in Counters, CountStep(t) PROVE StoreInv'
  BY <1>2, CountTokensSafe, SaveCountsSafe DEF CountStep
<1>3. ASSUME NEW j \in Jobs, JobStep(j) PROVE StoreInv'
  BY <1>3, JobStepSafe
<1>4. ASSUME NEW j \in Jobs, NEW ids \in job[j].batches, SaveEmbeddings(j, ids) PROVE StoreInv'
  BY <1>4, SaveEmbeddingsSafe
<1>5. ASSUME NEW j \in Jobs, Crash(j) PROVE StoreInv'
  BY <1>5, CrashSafe
<1>6. CASE UNCHANGED vars
  <2> USE Parts, <1>6 DEF vars
  <2>1. DataOK' /\ CountersTyped'
    BY DataKept, CountersKept DEF DataOK
  <2>2. JobsTyped'
    BY DEF JobsTyped, Job, Ids, Indices
  <2>3. TxTyped'
    BY DEF TxTyped, Transaction, Indices
  <2>4. LocksOK'
    <3>1. \A t : Locks(t)' = Locks(t)
      BY DEF Locks
    <3>2. LocksOK
      OBVIOUS
    <3> QED BY Zenon, <3>1, <3>2 DEF LocksOK
  <2>5. RestOK'
    BY DEF RestOK, main, Closed
  <2>6. JobsOK'
    BY DEF JobsOK, JobOK, main, Embedded, Indices, Found, Pending, First
  <2> QED BY <2>1, <2>2, <2>3, <2>4, <2>5, <2>6
<1> QED BY <1>1, <1>2, <1>3, <1>4, <1>5, <1>6 DEF Next, Progress

\* The inductive invariant: a job's ids are those of rows, its batches name rows, and every
\* chunk of its parse is still to be dealt with, waits in a batch, has an embedding, or was
\* in a batch that failed or ended without a result for it; whatever other jobs, goroutines
\* that count tokens and the poller do to the same rows.
THEOREM StoreConsistent == Spec => []StoreInv
BY StoreInit, StoreStep, PTL DEF Spec

\* chunk_repository.go: state is typed, no row is locked by two transactions, and a job
\* that is over or between two calls of the repository keeps no row locked.
THEOREM StoreTypeCorrect == Spec => []StoreTypeOK
<1>1. StoreInv => StoreTypeOK
  BY DEF StoreInv
<1> QED BY <1>1, StoreConsistent, PTL

\* FindOrCreateChunks: what waits for the Batch API names rows that are there, so that the
\* foreign keys never refuse an embedding.
THEOREM RequestsAlwaysNameChunks == Spec => []RequestsNameChunks
<1>1. StoreInv => RequestsNameChunks
  BY DEF StoreInv, JobOK, RequestsNameChunks, RowIds
<1> QED BY <1>1, StoreConsistent, PTL

\* job_processor.go: a job that ended well has left no chunk without an embedding, by
\* deduplication, by batches, by the fall-back to the sequential path, or by leaving out
\* what has one already; what is without one once the job's batches are over is what the
\* Batch API itself gave no result line for, or what a batch that failed held.
THEOREM EndedIsEmbedded == Spec => []DoneIsEmbedded
<1>1. StoreInv => DoneIsEmbedded
  BY DEF StoreInv, JobOK, Pending, DoneIsEmbedded
<1> QED BY <1>1, StoreConsistent, PTL
=============================================================================
