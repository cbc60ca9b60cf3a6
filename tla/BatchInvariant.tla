---------------------------- MODULE BatchInvariant ----------------------------
(***************************************************************************)
(* The inductive invariant behind the safety theorems of the pipeline.     *)
(*                                                                         *)
(* The invariants of BatchPipeline speak of rows, but any entity in a      *)
(* goroutine's hands may become a row at its next Save, whatever the table *)
(* holds by then.  So the same facts are stated of every entity there is,  *)
(* about the entity alone and the Gemini job it names; nothing is said of  *)
(* the row it was read from, which may long have changed.                  *)
(***************************************************************************)
EXTENDS BatchPipeline

\* An entity of batch b is consistent with the Gemini jobs and the stored
\* embeddings: what its status claims has happened, at Gemini and in the store.
EntityOK(b, e, js, stored) ==
  /\ e.gjob # NoJob => js[e.gjob].batch = b /\ js[e.gjob].state # "unused"
  /\ e.retries > 0 => e.gjob # NoJob /\ js[e.gjob].state = "failed"
  /\ e.status = "pending_submission" =>
       e.payload # {} /\ e.gjob = NoJob /\ e.attempts < MaxSubmissionAttempts
  /\ e.status = "completed" =>
       /\ e.gjob # NoJob /\ js[e.gjob].state = "succeeded"
       /\ js[e.gjob].results \subseteq stored
       /\ e.done = Cardinality(js[e.gjob].results)

RowsOK == \A b \in Batches : EntityOK(b, rows[b], jobs, embedded)

\* A submitter works on a queued entity; once Gemini has accepted the job, the
\* job is one of that batch.
SubmissionOK(g, js, stored) ==
  /\ EntityOK(g.batch, g.ent, js, stored)
  /\ g.pc \in {"upload", "create", "saveFile", "saveJob"} =>
       g.ent.status = "pending_submission"
  /\ g.pc \in {"saveFile", "saveJob"} =>
       /\ g.job # NoJob
       /\ js[g.job].batch = g.batch /\ js[g.job].state # "unused"

SubmitterOK == \A s \in Slots : SubmissionOK(sub[s], jobs, embedded)

\* The poller asks Gemini only about entities that have a job.
PollOK(b, g, js, stored) ==
  /\ EntityOK(b, g.ent, js, stored)
  /\ g.pc \in {"polled", "results"} => g.ent.gjob # NoJob

PollerOK == \A w \in Workers, b \in Batches : PollOK(b, poll[w][b], jobs, embedded)

\* A delivery about to queue a batch has something to queue.
DeliveryOK == \A d \in Deliveries : deliv[d].pc = "enqueue" => deliv[d].need # {}

\* Every entity in the table or in a goroutine's hands tells the truth about its
\* Gemini job, and every goroutine holds the kind of entity its next step needs.
IInv == TypeOK /\ RowsOK /\ SubmitterOK /\ PollerOK /\ DeliveryOK

-----------------------------------------------------------------------------
(* With one worker, one submission at a time and one delivery, each row    *)
(* has one owner at every moment, which its status tells: the delivery     *)
(* until it is queued, the submitter, then recovery, the poller or the     *)
(* retry loop.  So an entity does agree with its row until it is saved.    *)

OneActor ==
  /\ \A v, w \in Workers : v = w
  /\ \A d, f \in Deliveries : d = f
  /\ MaxConcurrentSubmissions = 1

\* What is asked for is what is in the file, if there is one.
RowsOwned == \A b \in Batches :
  /\ rows[b].status # "pending"
  /\ rows[b].status = "absent" => rows[b].payload = {}
  /\ rows[b].status \in {"processing", "retry_scheduled"} => rows[b].gjob # NoJob
  /\ files[b] \in {{}, rows[b].payload}
  /\ rows[b].file => files[b] = rows[b].payload

JobsOwned == \A j \in JobIds : jobs[j].state # "unused" =>
  /\ rows[jobs[j].batch].status # "absent"
  /\ jobs[j].payload = rows[jobs[j].batch].payload
  /\ jobs[j].results \subseteq jobs[j].payload
  /\ jobs[j].state = "succeeded" => Lossy \/ jobs[j].results = jobs[j].payload

DeliveryOwned == \A d \in Deliveries :
  /\ deliv[d].pc \in {"new", "filter", "enqueue", "record"} =>
       \A b \in Batches : deliv[d].n <= b => rows[b].status = "absent"
  /\ deliv[d].pc = "sequential" => FallbackToSequential

SubOwned == \A s \in Slots : sub[s].pc # "idle" =>
  /\ rows[sub[s].batch].status = "pending_submission"
  /\ sub[s].ent.payload = rows[sub[s].batch].payload
  /\ sub[s].ent.file \/ sub[s].pc \in {"create", "saveFile", "saveJob"} =>
       files[sub[s].batch] = sub[s].ent.payload
  /\ sub[s].pc = "save" => sub[s].ent.status \in {"pending_submission", "failed"}

PollOwned == \A w \in Workers, b \in Batches : poll[w][b].pc # "idle" =>
  /\ phase[w] = "running" /\ rows[b].status = "processing"
  /\ poll[w][b].ent.payload = rows[b].payload /\ poll[w][b].ent.gjob = rows[b].gjob
  /\ poll[w][b].ent.file => files[b] = rows[b].payload
  /\ poll[w][b].pc = "complete" => poll[w][b].ent.status = "completed"
  /\ poll[w][b].pc = "save" => poll[w][b].ent.status \in {"failed", "retry_scheduled"}

RetryOwned == \A w \in Workers : retry[w] # 0 =>
  phase[w] = "running" /\ rows[retry[w]].status = "retry_scheduled"

RecoverOwned == \A w \in Workers, b \in Batches : recov[w][b] # NoJob \/ failing[w] = b =>
  /\ phase[w] = "recovering" /\ rows[b].status = "processing"
  /\ failing[w] = b => recov[w][b] = NoJob

\* Where nothing fails, a job's id is in its row or about to be.
OnceOwned == MaxFaults = 0 /\ MaxCrashes = 0 =>
  \A j \in JobIds : jobs[j].state # "unused" =>
    \/ rows[jobs[j].batch].gjob = j
    \/ \E s \in Slots : /\ sub[s].pc \in {"saveFile", "saveJob"}
                        /\ sub[s].batch = jobs[j].batch /\ sub[s].job = j

OwnInv ==
  /\ RowsOwned /\ JobsOwned /\ DeliveryOwned /\ SubOwned /\ PollOwned
  /\ RetryOwned /\ RecoverOwned /\ OnceOwned
=============================================================================
