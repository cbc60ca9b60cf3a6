-------------------------- MODULE RepositoryLifecycle --------------------------
(***************************************************************************)
(* One repository and its indexing jobs: from the request that creates or  *)
(* resets it to the delivery that marks it completed.  Actors:             *)
(*   requests   repository_service.go  POST /repositories                  *)
(*   removal    repository_service.go  DELETE /repositories/{id}           *)
(*   sync       connector_service.go   publishes pending jobs again        *)
(*   workers    job_processor.go       process one message at a time       *)
(* A status is changed by reading the row, checking the transition on the  *)
(* entity and writing the whole row back, with no check that it is still   *)
(* the row that was read.  Every action is one statement or one long call. *)
(***************************************************************************)
EXTENDS Naturals, FiniteSets

CONSTANTS
  MaxRequests,   \* bound: POST requests for the repository
  MaxSyncs,      \* bound: jobs the connector sync publishes again
  Workers,       \* worker processes, each with one consumer
  MaxDeliver,    \* the consumer's MaxDeliver
  ConcurrentIndexing,  \* zoekt.concurrent_indexing.enabled: index with Zoekt too
  MaxTroubles    \* bound: faults, errors, timeouts, crashes and expired messages together

ASSUME LifecycleAssumption ==
  /\ MaxRequests \in Nat \ {0}
  /\ MaxDeliver \in Nat \ {0}
  /\ {MaxSyncs, MaxTroubles} \subseteq Nat
  /\ ConcurrentIndexing \in BOOLEAN

Requests == 1..MaxRequests               \* each request creates one job
Messages == 1..(MaxRequests + MaxSyncs)

RepositoryStatuses ==
  {"none", "pending", "cloning", "processing", "completed", "failed", "archived"}
JobStatuses == {"none", "pending", "running", "completed", "failed"}

\* RepositoryStatus.CanTransitionTo.
Transitions ==
  [s \in RepositoryStatuses |->
     CASE s = "pending"    -> {"pending", "cloning", "failed"}
       [] s = "cloning"    -> {"pending", "processing", "failed"}
       [] s = "processing" -> {"pending", "completed", "failed"}
       [] s = "completed"  -> {"pending", "processing", "completed", "archived"}
       [] s = "failed"     -> {"pending", "archived"}
       [] s = "archived"   -> {"pending"}
       [] OTHER            -> {}]

VARIABLES
  repo,     \* status of the repository's row; "archived" rows are soft-deleted
  jobs,     \* indexing_jobs: status, and whether it counts chunks
  covered,  \* requests whose content an engine has: it is embedded, queued for
            \* embedding or in Zoekt's index
  msgs,     \* messages published: job, deliveries left, and how it left the stream:
            \* "acked", "expired" or "no" while it is stored
  api,      \* each POST request
  del,      \* the DELETE request
  sync,     \* job the connector sync is about to publish (0: none)
  run,      \* what each worker is doing
  faults,   \* database and messaging calls that failed
  errors,   \* clones, parses, embeddings and Zoekt runs that failed
  timeouts, \* expiries of JobTimeout
  crashes,  \* worker crashes
  syncs     \* jobs published again by the connector sync

requestVars == <<api, del, sync, syncs>>
boundVars   == <<faults, errors, timeouts, crashes>>
vars == <<repo, jobs, covered, msgs, requestVars, run, boundVars>>

NoJobRow == [status |-> "none", counted |-> FALSE]
NoMessage == [job |-> 0, left |-> 0, gone |-> "no"]
Idle == [pc |-> "idle", msg |-> 1, ent |-> "none", stale |-> "none",
         goal |-> "pending", fresh |-> {}]

Init ==
  /\ repo = "none"
  /\ jobs = [r \in Requests |-> NoJobRow]
  /\ covered = {}
  /\ msgs = [m \in Messages |-> NoMessage]
  /\ api  = [r \in Requests |-> "new"]
  /\ del  = "new"
  /\ sync = 0
  /\ run  = [w \in Workers |-> Idle]
  /\ faults = 0 /\ errors = 0 /\ timeouts = 0 /\ crashes = 0 /\ syncs = 0

Expired == {m \in Messages : msgs[m].gone = "expired"}

MayFail == faults + errors + timeouts + crashes + Cardinality(Expired) < MaxTroubles

Fault == MayFail /\ faults' = faults + 1
Error == MayFail /\ errors' = errors + 1

-----------------------------------------------------------------------------
(* The tables.                                                             *)

\* The queries and the UPDATE see only rows with deleted_at IS NULL.
Visible == repo \notin {"none", "archived"}

\* Mutant: the UPDATE also finds soft-deleted rows.
UpdateRepository_Deleted(status) == repo' = status

\* The whole-row UPDATE; it fails when there is no such row.
UpdateRepository(status) == Visible /\ repo' = status

SaveJobRow(r, status, counted) ==
  jobs' = [jobs EXCEPT ![r] = [status |-> status, counted |-> counted]]

PublishIndexingJob(r) ==
  \E m \in Messages :
    /\ msgs[m].job = 0 /\ \A k \in 1..(m - 1) : msgs[k].job # 0
    /\ msgs' = [msgs EXCEPT ![m] = [job |-> r, left |-> MaxDeliver, gone |-> "no"]]

-----------------------------------------------------------------------------
(* CreateRepository.  An error ends the request and leaves what it wrote.  *)

\* FindByNormalizedURL; ResetForReindexing is allowed from every visible status.
FindRepository(r) ==
  /\ api[r] = "new"
  /\ \/ /\ api' = [api EXCEPT ![r] = IF Visible THEN "reset" ELSE "insert"]
        /\ UNCHANGED faults
     \/ Fault /\ api' = [api EXCEPT ![r] = "done"]
  /\ UNCHANGED <<repo, jobs, covered, msgs, del, sync, syncs, run, errors, timeouts, crashes>>

\* normalized_url is UNIQUE, over soft-deleted rows too.
InsertRepository(r) ==
  /\ api[r] = "insert"
  /\ \/ /\ repo = "none" /\ repo' = "pending"
        /\ api' = [api EXCEPT ![r] = "job"]
        /\ UNCHANGED faults
     \/ /\ repo # "none"
        /\ api' = [api EXCEPT ![r] = "done"]
        /\ UNCHANGED <<repo, faults>>
     \/ Fault /\ api' = [api EXCEPT ![r] = "done"] /\ UNCHANGED repo
  /\ UNCHANGED <<jobs, covered, msgs, del, sync, syncs, run, errors, timeouts, crashes>>

ResetRepository(r) ==
  /\ api[r] = "reset"
  /\ \/ /\ UpdateRepository("pending")
        /\ api' = [api EXCEPT ![r] = "job"]
        /\ UNCHANGED faults
     \/ /\ ~Visible
        /\ api' = [api EXCEPT ![r] = "done"]
        /\ UNCHANGED <<repo, faults>>
     \/ Fault /\ api' = [api EXCEPT ![r] = "done"] /\ UNCHANGED repo
  /\ UNCHANGED <<jobs, covered, msgs, del, sync, syncs, run, errors, timeouts, crashes>>

SaveJob(r) ==
  /\ api[r] = "job"
  /\ \/ /\ SaveJobRow(r, "pending", FALSE)
        /\ api' = [api EXCEPT ![r] = "publish"]
        /\ UNCHANGED faults
     \/ Fault /\ api' = [api EXCEPT ![r] = "done"] /\ UNCHANGED jobs
  /\ UNCHANGED <<repo, covered, msgs, del, sync, syncs, run, errors, timeouts, crashes>>

PublishJob(r) ==
  /\ api[r] = "publish"
  /\ \/ PublishIndexingJob(r) /\ UNCHANGED faults
     \/ Fault /\ UNCHANGED msgs
  /\ api' = [api EXCEPT ![r] = "done"]
  /\ UNCHANGED <<repo, jobs, covered, del, sync, syncs, run, errors, timeouts, crashes>>

RequestStep(r) == InsertRepository(r) \/ ResetRepository(r) \/ SaveJob(r) \/ PublishJob(r)

-----------------------------------------------------------------------------
(* DeleteRepository and the connector sync's republishPendingJob.          *)

\* Archive refuses a repository that is waiting or being worked on.
DeleteFind ==
  /\ del = "new"
  /\ del' = IF repo \in {"completed", "failed"} THEN "archive" ELSE "done"
  /\ UNCHANGED <<repo, jobs, covered, msgs, api, sync, syncs, run, boundVars>>

DeleteArchive ==
  /\ del = "archive"
  /\ \/ UpdateRepository("archived") /\ UNCHANGED faults
     \/ Fault /\ UNCHANGED repo
  /\ del' = "done"
  /\ UNCHANGED <<jobs, covered, msgs, api, sync, syncs, run, errors, timeouts, crashes>>

\* The job may be pending because publishing it failed, or because no worker has
\* come to it yet.  The query takes the newest of them, here any is taken.
SyncFind(r) ==
  /\ sync = 0 /\ syncs < MaxSyncs
  /\ Visible /\ jobs[r].status = "pending"
  /\ sync' = r /\ syncs' = syncs + 1
  /\ UNCHANGED <<repo, jobs, covered, msgs, api, del, run, boundVars>>

SyncPublish ==
  /\ sync # 0
  /\ \/ PublishIndexingJob(sync) /\ UNCHANGED faults
     \/ Fault /\ UNCHANGED msgs
  /\ sync' = 0
  /\ UNCHANGED <<repo, jobs, covered, api, del, syncs, run, errors, timeouts, crashes>>

-----------------------------------------------------------------------------
(* The workers: ProcessJob and executeJobPipeline.                         *)

JobOf(w) == msgs[run[w].msg].job

Stored(m) == msgs[m].job # 0 /\ msgs[m].gone = "no"

\* The messages once m is acknowledged; it may have expired in its worker's hands.
Acknowledged(m) == [msgs EXCEPT ![m].gone = IF @ = "no" THEN "acked" ELSE @]

Goto(w, pc) == run' = [run EXCEPT ![w].pc = pc]

\* updateRepositoryStatus(goal) is a read (pc "read") and a write (pc "write").
Update(w, goal) == run' = [run EXCEPT ![w].pc = "read", ![w].goal = goal]

\* Mutant: the message is acknowledged when it is received.
Deliver_AckFirst(w, m) ==
  /\ run[w].pc = "idle"
  /\ Stored(m) /\ msgs[m].left > 0
  /\ msgs' = [msgs EXCEPT ![m].left = @ - 1, ![m].gone = "acked"]
  /\ run' = [run EXCEPT ![w] = [Idle EXCEPT !.pc = "loadJob", !.msg = m]]
  /\ UNCHANGED <<repo, jobs, covered, requestVars, boundVars>>

\* A message is delivered again after a Nak, a crash, or AckWait, however busy
\* the worker that has it may be.
Deliver(w, m) ==
  /\ run[w].pc = "idle"
  /\ Stored(m) /\ msgs[m].left > 0
  /\ msgs' = [msgs EXCEPT ![m].left = @ - 1]
  /\ run' = [run EXCEPT ![w] = [Idle EXCEPT !.pc = "loadJob", !.msg = m]]
  /\ UNCHANGED <<repo, jobs, covered, requestVars, boundVars>>

\* Mutant: a job is started whatever its status.
LoadJob_Restarts(w) ==
  /\ run[w].pc = "loadJob"
  /\ run' = [run EXCEPT ![w].pc = "startJob", ![w].ent = "running"]
  /\ UNCHANGED <<repo, jobs, covered, msgs, requestVars, boundVars>>

\* persistJobStart: only a pending job is started; a job in any other status is
\* carried on with as it is.
LoadJob(w) ==
  LET status == jobs[JobOf(w)].status IN
  /\ run[w].pc = "loadJob"
  /\ \/ /\ status = "pending"
        /\ run' = [run EXCEPT ![w].pc = "startJob", ![w].ent = "running"]
        /\ UNCHANGED faults
     \/ /\ status # "pending"
        /\ run' = [run EXCEPT ![w].pc = "readRepo", ![w].ent = status]
        /\ UNCHANGED faults
     \/ Fault /\ Goto(w, "readRepo")
  /\ UNCHANGED <<repo, jobs, covered, msgs, requestVars, errors, timeouts, crashes>>

StartJob(w) ==
  /\ run[w].pc = "startJob"
  /\ \/ SaveJobRow(JobOf(w), "running", FALSE) /\ UNCHANGED faults
     \/ Fault /\ UNCHANGED jobs
  /\ Goto(w, "readRepo")
  /\ UNCHANGED <<repo, covered, msgs, requestVars, errors, timeouts, crashes>>

\* Mutant: a repository that is being processed is left to the run that began it.
ReadRepository_SkipsWorking(w) ==
  /\ run[w].pc = "readRepo"
  /\ \/ ~Visible /\ Goto(w, "failJob")
     \/ repo \in {"completed", "cloning", "processing"} /\ Goto(w, "skipJob")
     \/ /\ repo = "failed"
        /\ run' = [run EXCEPT ![w].stale = repo, ![w].pc = "read", ![w].goal = "pending"]
     \/ /\ repo = "pending"
        /\ run' = [run EXCEPT ![w].stale = repo, ![w].pc = "setup"]
  /\ UNCHANGED <<repo, jobs, covered, msgs, requestVars, boundVars>>

\* handleRepositoryStatus.  An archived repository is not found, which is an error;
\* the status read here is used until the end of the run.
ReadRepository(w) ==
  /\ run[w].pc = "readRepo"
  /\ \/ ~Visible /\ Goto(w, "failJob") /\ UNCHANGED faults
     \/ repo = "completed" /\ Goto(w, "skipJob") /\ UNCHANGED faults
     \/ /\ repo = "failed"
        /\ run' = [run EXCEPT ![w].stale = repo, ![w].pc = "read", ![w].goal = "pending"]
        /\ UNCHANGED faults
     \/ /\ repo \in {"pending", "cloning", "processing"}
        /\ run' = [run EXCEPT ![w].stale = repo, ![w].pc = "setup"]
        /\ UNCHANGED faults
     \/ Fault /\ Goto(w, "failJob")
  /\ UNCHANGED <<repo, jobs, covered, msgs, requestVars, errors, timeouts, crashes>>

\* Mutant: a resumed run trusts the clone of the run it resumes.
Setup_TrustsClone(w) ==
  /\ run[w].pc = "setup"
  /\ IF run[w].stale = "processing" THEN Goto(w, "index") ELSE Update(w, "cloning")
  /\ UNCHANGED <<repo, jobs, covered, msgs, requestVars, boundVars>>

\* setupWorkspace, and whether there is a transition to cloning.
Setup(w) ==
  /\ run[w].pc = "setup"
  /\ \/ /\ run[w].stale \in {"cloning", "processing"}
        /\ Goto(w, "clone") /\ UNCHANGED errors
     \/ /\ run[w].stale \notin {"cloning", "processing"}
        /\ Update(w, "cloning") /\ UNCHANGED errors
     \/ Error /\ Update(w, "failed")
  /\ UNCHANGED <<repo, jobs, covered, msgs, requestVars, faults, timeouts, crashes>>

\* Where a run goes on after updateRepositoryStatus has succeeded ...
Accepted(w) ==
  Goto(w, CASE run[w].goal = "pending"    -> "setup"
            [] run[w].goal = "cloning"    -> "clone"
            [] run[w].goal = "processing" -> "index"
            [] run[w].goal = "completed"  -> "completeJob"
            [] OTHER                      -> "failJob")

\* ... and after it has not: a refused transition fails the repository
\* (handleTransitionFailure); the errors of the other updates are logged, or fail
\* the job.
Refused(w) ==
  IF run[w].goal \in {"cloning", "processing"} THEN Update(w, "failed")
  ELSE Goto(w, IF run[w].goal = "completed" THEN "completeJob" ELSE "failJob")

CheckTransition(w) ==
  LET allowed == Visible /\ run[w].goal \in Transitions[repo] IN
  /\ run[w].pc = "read"
  /\ \/ allowed /\ Goto(w, "write") /\ UNCHANGED faults
     \/ ~allowed /\ Refused(w) /\ UNCHANGED faults
     \/ Fault /\ Refused(w)
  /\ UNCHANGED <<repo, jobs, covered, msgs, requestVars, errors, timeouts, crashes>>

WriteTransition(w) ==
  /\ run[w].pc = "write"
  /\ \/ UpdateRepository(run[w].goal) /\ Accepted(w) /\ UNCHANGED faults
     \/ ~Visible /\ Refused(w) /\ UNCHANGED <<repo, faults>>
     \/ Fault /\ Refused(w) /\ UNCHANGED repo
  /\ UNCHANGED <<jobs, covered, msgs, requestVars, errors, timeouts, crashes>>

\* The content cloned is that of every request made before.
Clone(w) ==
  /\ run[w].pc = "clone"
  /\ \/ /\ run' = [run EXCEPT
             ![w].fresh = {r \in Requests : api[r] # "new"},
             ![w].pc    = IF run[w].stale = "processing" THEN "index" ELSE "read",
             ![w].goal  = "processing"]
        /\ UNCHANGED errors
     \/ Error /\ Update(w, "failed")
  /\ UNCHANGED <<repo, jobs, covered, msgs, requestVars, faults, timeouts, crashes>>

\* Mutant: an error while embedding never fails the run.
Index_Lenient(w) ==
  /\ run[w].pc = "index"
  /\ \/ covered' = covered \cup run[w].fresh /\ UNCHANGED errors
     \/ Error /\ UNCHANGED covered
  /\ Update(w, "completed")
  /\ UNCHANGED <<repo, jobs, msgs, requestVars, faults, timeouts, crashes>>

\* Mutant: the repository is not marked completed.
Index_JobOnly(w) ==
  /\ run[w].pc = "index"
  /\ \/ covered' = covered \cup run[w].fresh /\ Goto(w, "completeJob") /\ UNCHANGED errors
     \/ Error /\ Update(w, "failed") /\ UNCHANGED covered
  /\ UNCHANGED <<repo, jobs, msgs, requestVars, faults, timeouts, crashes>>

\* parseCode, then generateEmbeddings, or both engines side by side: then one of
\* them may fail and the run goes on (ConcurrencyResult.AnySucceeded).
Index(w) ==
  /\ run[w].pc = "index"
  /\ \/ /\ covered' = covered \cup run[w].fresh
        /\ Update(w, "completed")
        /\ UNCHANGED errors \/ (ConcurrentIndexing /\ Error)
     \/ Error /\ Update(w, "failed") /\ UNCHANGED covered
  /\ UNCHANGED <<repo, jobs, msgs, requestVars, faults, timeouts, crashes>>

\* The calls left are to record a run that has succeeded, or was skipped.
Finishing(w) ==
  \/ run[w].pc \in {"completeJob", "skipJob"}
  \/ run[w].pc \in {"read", "write"} /\ run[w].goal = "completed"

\* JobTimeout expires: the call in progress fails and so do all that follow, also
\* those that were to record it, for they use the same context.  A run that is
\* finishing, or has one engine done, drops these errors and acknowledges its message.
TimeOut(w) ==
  /\ run[w].pc \notin {"down", "idle", "ack", "nak"}
  /\ MayFail /\ timeouts' = timeouts + 1
  /\ \/ Goto(w, IF Finishing(w) THEN "ack" ELSE "nak") /\ UNCHANGED covered
     \/ /\ ConcurrentIndexing /\ run[w].pc = "index"
        /\ covered' = covered \cup run[w].fresh
        /\ Goto(w, "ack")
  /\ UNCHANGED <<repo, jobs, msgs, requestVars, faults, errors, crashes>>

\* persistJobComplete, persistJobSkip and persistJobFail, on the entity loaded at
\* the start of the delivery.
EndJob(w) ==
  /\ run[w].pc \in {"completeJob", "skipJob", "failJob"}
  /\ \/ /\ run[w].ent = "running"
        /\ SaveJobRow(JobOf(w), IF run[w].pc = "failJob" THEN "failed" ELSE "completed",
                      run[w].pc = "completeJob")
        /\ UNCHANGED faults
     \/ run[w].ent # "running" /\ UNCHANGED <<jobs, faults>>
     \/ run[w].ent = "running" /\ Fault /\ UNCHANGED jobs
  /\ Goto(w, IF run[w].pc = "failJob" THEN "nak" ELSE "ack")
  /\ UNCHANGED <<repo, covered, msgs, requestVars, errors, timeouts, crashes>>

\* Mutant: a run that has failed is acknowledged too.
Settle_Always(w) ==
  /\ run[w].pc \in {"nak", "ack"}
  /\ msgs' = Acknowledged(run[w].msg)
  /\ run' = [run EXCEPT ![w] = Idle]
  /\ UNCHANGED <<repo, jobs, covered, requestVars, boundVars>>

\* processMessage: the error of Ack is dropped, and the message comes again.
Settle(w) ==
  /\ \/ run[w].pc = "nak" /\ UNCHANGED <<msgs, faults>>
     \/ /\ run[w].pc = "ack"
        /\ msgs' = Acknowledged(run[w].msg)
        /\ UNCHANGED faults
     \/ run[w].pc = "ack" /\ Fault /\ UNCHANGED msgs
  /\ run' = [run EXCEPT ![w] = Idle]
  /\ UNCHANGED <<repo, jobs, covered, requestVars, errors, timeouts, crashes>>

WorkerStep(w) ==
  \/ LoadJob(w) \/ StartJob(w) \/ ReadRepository(w) \/ Setup(w)
  \/ CheckTransition(w) \/ WriteTransition(w) \/ Clone(w) \/ Index(w)
  \/ EndJob(w) \/ Settle(w)

Crash(w) ==
  /\ run[w].pc # "down" /\ MayFail /\ crashes' = crashes + 1
  /\ run' = [run EXCEPT ![w] = [Idle EXCEPT !.pc = "down"]]
  /\ UNCHANGED <<repo, jobs, covered, msgs, requestVars, faults, errors, timeouts>>

\* A starting consumer deletes and recreates the durable consumer, so deliveries
\* are counted anew.
Restart(w) ==
  /\ run[w].pc = "down"
  /\ Goto(w, "idle")
  /\ msgs' = [m \in Messages |->
               IF Stored(m) THEN [msgs[m] EXCEPT !.left = MaxDeliver]
               ELSE msgs[m]]
  /\ UNCHANGED <<repo, jobs, covered, requestVars, boundVars>>

\* The stream's MaxAge: a message is dropped a day after it was published, also
\* from under a worker that is still at it.
Expire(m) ==
  /\ Stored(m) /\ MayFail
  /\ msgs' = [msgs EXCEPT ![m].gone = "expired"]
  /\ UNCHANGED <<repo, jobs, covered, requestVars, run, boundVars>>

-----------------------------------------------------------------------------
Next ==
  \/ \E r \in Requests : FindRepository(r) \/ RequestStep(r) \/ SyncFind(r)
  \/ DeleteFind \/ DeleteArchive \/ SyncPublish
  \/ \E w \in Workers : WorkerStep(w) \/ TimeOut(w) \/ Crash(w) \/ Restart(w)
  \/ \E m \in Messages : Expire(m) \/ \E w \in Workers : Deliver(w, m)

Spec == Init /\ [][Next]_vars

\* Calls return, a worker is restarted, and a message with deliveries left is
\* delivered.  Nothing is assumed about requests, expiry and troubles.
Fairness ==
  /\ \A r \in Requests : WF_vars(RequestStep(r))
  /\ \A w \in Workers :
       /\ WF_vars(WorkerStep(w)) /\ WF_vars(Restart(w))
       /\ WF_vars(\E m \in Messages : Deliver(w, m))

FairSpec == Spec /\ Fairness

-----------------------------------------------------------------------------
(* Properties.                                                             *)

Positions ==
  {"down", "idle", "loadJob", "startJob", "readRepo", "setup", "read", "write",
   "clone", "index", "completeJob", "skipJob", "failJob", "ack", "nak"}

Run == [pc : Positions, msg : Messages, ent : JobStatuses, stale : RepositoryStatuses,
        goal : RepositoryStatuses, fresh : SUBSET Requests]

JobRow == [status : JobStatuses, counted : BOOLEAN]

Message == [job : Requests \cup {0}, left : 0..MaxDeliver, gone : {"no", "acked", "expired"}]

BoundsOK ==
  /\ faults \in Nat /\ errors \in Nat /\ timeouts \in Nat /\ crashes \in Nat
  /\ faults + errors + timeouts + crashes <= MaxTroubles

\* Every variable has its type.
LifecycleTypeOK ==
  /\ repo \in RepositoryStatuses
  /\ jobs \in [Requests -> JobRow]
  /\ covered \in SUBSET Requests
  /\ msgs \in [Messages -> Message]
  /\ api \in [Requests -> {"new", "insert", "reset", "job", "publish", "done"}]
  /\ del \in {"new", "archive", "done"}
  /\ sync \in 0..MaxRequests
  /\ run \in [Workers -> Run]
  /\ syncs \in 0..MaxSyncs
  /\ BoundsOK

\* Nothing is called completed that was not indexed: a completed repository has
\* been indexed, a job that counts chunks has been indexed itself, and one that
\* was skipped found the repository indexed.
CompletedIsIndexed ==
  /\ repo = "completed" => covered # {}
  /\ \A r \in Requests : jobs[r].status = "completed" =>
       covered # {} /\ (jobs[r].counted => r \in covered)

\* A completed job's request has been honoured: the content it asked to index, or
\* later content, is indexed.
RequestHonoured ==
  \A r \in Requests : jobs[r].status = "completed" => r \in covered

\* An archived repository is never brought back by a run still holding its row.
ArchivedStaysArchived == [][repo = "archived" => repo' = "archived"]_vars

Ended(r) == jobs[r].status \in {"completed", "failed"}

\* A job ends once: deliveries, redeliveries and restarts never reopen it.
JobEndsOnce == [][\A r \in Requests : Ended(r) => jobs'[r] = jobs[r]]_vars

InHand == {m \in Messages : \E w \in Workers : run[w].pc \notin {"down", "idle"} /\ run[w].msg = m}
Processed == {m \in Messages : \E w \in Workers : run[w].pc = "ack" /\ run[w].msg = m}

Delivery == INSTANCE DeliveryPromise WITH
  state <- [m \in Messages |-> IF msgs[m].job = 0 THEN "unpublished"
                               ELSE CASE msgs[m].gone = "no"      -> "stored"
                                      [] msgs[m].gone = "acked"   -> "removed"
                                      [] msgs[m].gone = "expired" -> "expired"],
  count <- [m \in Messages |-> IF Stored(m) THEN MaxDeliver - msgs[m].left ELSE 0],
  held  <- InHand,
  ready <- Processed

\* The messages a run is about come and go as WorkerConsumer's do: whatever fails,
\* times out or crashes, a message leaves the stream by its age, or after a run that
\* holds it has ended well.
KeepsDelivery == Delivery!Spec

Untroubled == faults = 0 /\ timeouts = 0

\* A job that reports its chunks leaves a repository that says so too, unless a
\* later request or a removal has changed it.
JobAgreesWithRepository ==
  \A r \in Requests :
    (/\ jobs[r].counted /\ Untroubled
     /\ \A q \in Requests : q # r => api[q] = "new") => repo \in {"completed", "archived"}

\* Without failing calls and expiring deadlines every job that is saved ends, or its
\* message is dropped by the stream's MaxAge first ...
EveryJobEnds ==
  \A r \in Requests :
    (jobs[r].status = "pending")
      ~> \/ Ended(r) \/ ~Untroubled
         \/ \E m \in Expired : msgs[m].job = r

\* ... and no repository is left looking as if it were worked on, while no message
\* that could bring a run back to it is dropped.
NoRepositoryStuck ==
  (repo \in {"cloning", "processing"})
    ~> \/ repo \notin {"cloning", "processing"} \/ ~Untroubled \/ Expired # {}

-----------------------------------------------------------------------------
(* The inductive invariant behind the theorems.                            *)

\* A job has a row, a message or a turn in the sync only after its request.
RequestsOK ==
  /\ sync # 0 => api[sync] # "new"
  /\ \A m \in Messages : msgs[m].job # 0 => api[msgs[m].job] # "new"
  /\ \A r \in Requests : jobs[r].status # "none" => api[r] # "new"

\* A worker past the clone has the content of its own job's request; past the
\* indexing, that content is indexed; about to skip, something is.
RunOK(g, job, done) ==
  /\ g.pc \notin {"down", "idle"} => job # 0
  /\ g.pc = "index" => job \in g.fresh
  /\ g.pc \in {"read", "write"} /\ g.goal = "processing" => job \in g.fresh
  /\ g.pc \in {"read", "write"} /\ g.goal = "completed" => job \in done
  /\ g.pc = "completeJob" => job \in done
  /\ g.pc = "skipJob" => done # {}

LifecycleInv ==
  /\ LifecycleTypeOK /\ RequestsOK /\ CompletedIsIndexed
  /\ \A w \in Workers : RunOK(run[w], JobOf(w), covered)

\* A request's row is written before a message, the sync or a worker knows its job.
Posted(r) == api[r] \in {"publish", "done"}

PostedOK ==
  /\ sync # 0 => Posted(sync)
  /\ \A m \in Messages : msgs[m].job # 0 => Posted(msgs[m].job)
  /\ \A r \in Requests : jobs[r] # NoJobRow => Posted(r)

\* The entity a worker holds is not older than the end of its job.
HoldsOpenJob(w) ==
  (/\ run[w].pc \notin {"down", "idle", "ack", "nak"}
   /\ run[w].pc = "startJob" \/ run[w].ent = "running") => ~Ended(JobOf(w))

OpenOK == \A w \in Workers : HoldsOpenJob(w)

\* The request of job r is the only one and nothing has failed to be recorded.
Alone(r) == Untroubled /\ \A q \in Requests : q # r => api[q] = "new"

\* What a run believes the repository's status to be at each point; a removal may
\* have archived it all the same.
StatusSeen(g, status) ==
  \/ status = "archived"
  \/ /\ g.pc = "setup" => status = IF g.stale = "failed" THEN "pending" ELSE g.stale
     /\ g.pc = "setup" => g.stale \in {"pending", "cloning", "processing", "failed"}
     /\ g.pc = "clone" => status = IF g.stale = "processing" THEN "processing" ELSE "cloning"
     /\ g.pc = "index" => status = "processing"
     /\ g.pc = "completeJob" => status = "completed"
     /\ g.pc \in {"read", "write"} =>
          \/ g.goal = "pending" /\ status = "failed" /\ g.stale = "failed"
          \/ g.goal = "cloning" /\ status = "pending" /\ g.stale \in {"pending", "failed"}
          \/ g.goal = "processing" /\ status = "cloning"
          \/ g.goal = "completed" /\ status = "processing"
          \/ g.goal = "failed" /\ status \in {"pending", "cloning", "processing"}

SeenOK ==
  /\ JobAgreesWithRepository
  /\ \A w \in Workers : Alone(JobOf(w)) => StatusSeen(run[w], repo)

\* The invariant of one worker: with two, each writes over what the other believes.
OneWorkerInv == PostedOK /\ OpenOK /\ SeenOK
=============================================================================
