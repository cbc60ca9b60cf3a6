----------------------- MODULE RepositoryLifecycleProofs -----------------------
(***************************************************************************)
(* Proofs about the repository lifecycle, for every number of requests,    *)
(* messages, workers, deliveries and failures.                             *)
(***************************************************************************)
EXTENDS RepositoryLifecycle, FiniteSetTheorems, TLAPS

\* The part of the invariant that speaks of what a worker is doing.
RunsOK == \A w \in Workers : RunOK(run[w], JobOf(w), covered)

\* Whatever a step does to the messages, a message in use keeps its job.
JobsKept == \A m \in Messages : msgs[m].job # 0 => msgs'[m].job = msgs[m].job

-----------------------------------------------------------------------------
(* Lemmas.                                                                 *)

\* The expired messages are finitely many.
LEMMA ExpiredCounted == Cardinality(Expired) \in Nat
<1>1. IsFiniteSet(Messages)
  BY LifecycleAssumption, FS_Interval DEF Messages
<1>2. Expired \subseteq Messages
  BY DEF Expired
<1> QED BY <1>1, <1>2, FS_Subset, FS_CardinalityType

\* Each failure is counted, and none happens beyond the bound.
LEMMA BoundsKept ==
  ASSUME BoundsOK,
         \/ UNCHANGED boundVars
         \/ Fault /\ UNCHANGED <<errors, timeouts, crashes>>
         \/ Error /\ UNCHANGED <<faults, timeouts, crashes>>
         \/ MayFail /\ timeouts' = timeouts + 1 /\ UNCHANGED <<faults, errors, crashes>>
         \/ MayFail /\ crashes' = crashes + 1 /\ UNCHANGED <<faults, errors, timeouts>>
  PROVE  BoundsOK'
BY LifecycleAssumption, ExpiredCounted DEF BoundsOK, Fault, Error, MayFail, boundVars

\* The job of a message in a worker's hands is one whose request has been made.
LEMMA JobRequested ==
  ASSUME LifecycleInv, NEW w \in Workers, JobOf(w) # 0
  PROVE  JobOf(w) \in Requests /\ api[JobOf(w)] # "new"
<1>1. run[w].msg \in Messages /\ msgs[run[w].msg].job \in Requests \cup {0}
  BY DEF LifecycleInv, LifecycleTypeOK, Run, Message
<1> QED BY <1>1 DEF LifecycleInv, RequestsOK, JobOf

\* What is true of one run stays true when more is indexed and when messages
\* change.
LEMMA RunKept ==
  ASSUME LifecycleInv, NEW w \in Workers, covered \subseteq covered', JobsKept
  PROVE  RunOK(run[w], msgs'[run[w].msg].job, covered')
<1>1. RunOK(run[w], JobOf(w), covered) /\ run[w].msg \in Messages
  BY DEF LifecycleInv, LifecycleTypeOK, Run
<1>2. CASE JobOf(w) # 0
  <2>1. msgs'[run[w].msg].job = JobOf(w)
    BY <1>1, <1>2 DEF JobOf, JobsKept
  <2> QED BY <1>1, <2>1 DEF RunOK
<1>3. CASE JobOf(w) = 0
  BY <1>1, <1>3 DEF RunOK
<1> QED BY <1>2, <1>3

\* ... and so of all of them when no worker moves.
LEMMA RunsKept ==
  ASSUME LifecycleInv, covered \subseteq covered', JobsKept, UNCHANGED run
  PROVE  RunsOK'
BY RunKept DEF RunsOK, JobOf

\* A worker that moves on has to make good its own claims only.
LEMMA RunMoves ==
  ASSUME LifecycleInv, NEW w \in Workers, NEW g \in Run,
         run' = [run EXCEPT ![w] = g], RunOK(g, msgs'[g.msg].job, covered'),
         covered \subseteq covered', JobsKept
  PROVE  run' \in [Workers -> Run] /\ RunsOK'
<1>1. run \in [Workers -> Run]
  BY DEF LifecycleInv, LifecycleTypeOK
<1>2. ASSUME NEW v \in Workers
      PROVE  RunOK(run'[v], msgs'[run'[v].msg].job, covered')
  <2>1. CASE v = w
    BY <1>1, <2>1
  <2>2. CASE v # w
    BY <1>1, <2>2, RunKept
  <2> QED BY <2>1, <2>2
<1> QED BY <1>1, <1>2 DEF RunsOK, JobOf

\* Going to another position.
LEMMA GotoMoves ==
  ASSUME LifecycleInv, NEW w \in Workers, NEW pc \in Positions,
         Goto(w, pc), covered \subseteq covered', JobsKept, JobOf(w) # 0,
         RunOK([run[w] EXCEPT !.pc = pc], JobOf(w), covered')
  PROVE  run' \in [Workers -> Run] /\ RunsOK'
<1>1. run \in [Workers -> Run]
  BY DEF LifecycleInv, LifecycleTypeOK
<1> DEFINE g == [run[w] EXCEPT !.pc = pc]
<1>2. g \in Run /\ g.msg = run[w].msg
  BY <1>1 DEF Run
<1>3. run' = [run EXCEPT ![w] = g]
  BY <1>1 DEF Goto
<1>4. RunOK(g, msgs'[g.msg].job, covered')
  <2>1. msgs'[g.msg].job = JobOf(w)
    BY <1>1, <1>2 DEF JobOf, JobsKept, Run
  <2> QED BY <2>1
<1> HIDE DEF g
<1> QED BY <1>2, <1>3, <1>4, RunMoves

\* Going to the read of an update of the repository's status.
LEMMA UpdateMoves ==
  ASSUME LifecycleInv, NEW w \in Workers, NEW goal \in RepositoryStatuses,
         Update(w, goal), covered \subseteq covered', JobsKept, JobOf(w) # 0,
         goal = "processing" => JobOf(w) \in run[w].fresh,
         goal = "completed" => JobOf(w) \in covered'
  PROVE  run' \in [Workers -> Run] /\ RunsOK'
<1>1. run \in [Workers -> Run]
  BY DEF LifecycleInv, LifecycleTypeOK
<1> DEFINE g == [run[w] EXCEPT !.pc = "read", !.goal = goal]
<1>2. /\ g \in Run /\ g.msg = run[w].msg
      /\ g.pc = "read" /\ g.goal = goal /\ g.fresh = run[w].fresh
  BY <1>1 DEF Run, Positions
<1>3. run' = [run EXCEPT ![w] = g]
  BY <1>1 DEF Update
<1>4. RunOK(g, msgs'[g.msg].job, covered')
  <2>1. msgs'[g.msg].job = JobOf(w)
    BY <1>1, <1>2 DEF JobOf, JobsKept, Run
  <2> HIDE DEF g
  <2> QED BY <1>2, <2>1 DEF RunOK
<1> HIDE DEF g
<1> QED BY <1>2, <1>3, <1>4, RunMoves

\* A step that moves a worker and nothing else but the bounds.
LEMMA OnlyRunMoves ==
  ASSUME LifecycleInv, BoundsOK', run' \in [Workers -> Run], RunsOK',
         UNCHANGED <<repo, jobs, covered, msgs, requestVars>>
  PROVE  LifecycleInv'
<1>1. LifecycleTypeOK'
  BY DEF LifecycleInv, LifecycleTypeOK, requestVars
<1>2. RequestsOK' /\ CompletedIsIndexed'
  BY DEF LifecycleInv, RequestsOK, CompletedIsIndexed, requestVars
<1> QED BY <1>1, <1>2 DEF LifecycleInv, RunsOK

\* Or a step that moves a worker and gives an engine more content.
LEMMA CoverMoves ==
  ASSUME LifecycleInv, BoundsOK', run' \in [Workers -> Run], RunsOK',
         covered \subseteq covered', covered' \in SUBSET Requests,
         UNCHANGED <<repo, jobs, msgs, requestVars>>
  PROVE  LifecycleInv'
<1>1. LifecycleTypeOK'
  BY DEF LifecycleInv, LifecycleTypeOK, requestVars
<1>2. RequestsOK' /\ CompletedIsIndexed'
  BY DEF LifecycleInv, RequestsOK, CompletedIsIndexed, requestVars
<1> QED BY <1>1, <1>2 DEF LifecycleInv, RunsOK

\* Publishing uses a message nobody has.
LEMMA PublishOK ==
  ASSUME LifecycleInv, NEW r \in Requests, PublishIndexingJob(r)
  PROVE  /\ msgs' \in [Messages -> Message] /\ JobsKept
         /\ \A m \in Messages : msgs'[m].job \in {msgs[m].job, r}
<1> PICK m \in Messages :
      /\ msgs[m].job = 0
      /\ msgs' = [msgs EXCEPT ![m] = [job |-> r, left |-> MaxDeliver, gone |-> "no"]]
  BY DEF PublishIndexingJob
<1>1. [job |-> r, left |-> MaxDeliver, gone |-> "no"] \in Message
  BY LifecycleAssumption DEF Message
<1> QED BY <1>1 DEF LifecycleInv, LifecycleTypeOK, Message, JobsKept

\* Writing a job's row keeps the table well typed.
LEMMA SaveJobRowOK ==
  ASSUME LifecycleInv, NEW r \in Requests, NEW status \in JobStatuses,
         NEW counted \in BOOLEAN, SaveJobRow(r, status, counted)
  PROVE  /\ jobs' \in [Requests -> JobRow]
         /\ jobs'[r].status = status /\ jobs'[r].counted = counted
         /\ \A q \in Requests : q # r => jobs'[q] = jobs[q]
<1> DEFINE row == [status |-> status, counted |-> counted]
<1>1. row \in JobRow /\ row.status = status /\ row.counted = counted
  BY DEF JobRow
<1>2. jobs \in [Requests -> JobRow] /\ jobs' = [jobs EXCEPT ![r] = row]
  BY DEF LifecycleInv, LifecycleTypeOK, SaveJobRow
<1> HIDE DEF row
<1> QED BY <1>1, <1>2

-----------------------------------------------------------------------------
(* The initial states.                                                     *)

LEMMA InitLifecycleInv == Init => LifecycleInv
<1> SUFFICES ASSUME Init
             PROVE  LifecycleInv
  OBVIOUS
<1>1. NoJobRow \in JobRow /\ NoMessage \in Message
  BY LifecycleAssumption DEF NoJobRow, JobRow, JobStatuses, NoMessage, Message
<1>2. Idle \in Run
  BY LifecycleAssumption DEF Idle, Run, Positions, Messages, JobStatuses, RepositoryStatuses
<1>3. LifecycleTypeOK
  BY <1>1, <1>2, LifecycleAssumption
     DEF Init, LifecycleTypeOK, BoundsOK, RepositoryStatuses
<1>4. RequestsOK /\ CompletedIsIndexed
  BY DEF Init, RequestsOK, CompletedIsIndexed, NoMessage, NoJobRow
<1>5. RunsOK
  BY DEF Init, RunsOK, RunOK, Idle
<1> QED BY <1>3, <1>4, <1>5 DEF LifecycleInv, RunsOK

-----------------------------------------------------------------------------
(* Requests, removal and the connector sync: no worker moves.              *)

\* A step of these that leaves jobs and messages alone.
LEMMA RequestMoves ==
  ASSUME LifecycleInv, BoundsOK', UNCHANGED <<jobs, covered, msgs, run, sync, syncs>>,
         repo' \in RepositoryStatuses, repo' = "completed" => repo = "completed",
         api' \in [Requests -> {"new", "insert", "reset", "job", "publish", "done"}],
         del' \in {"new", "archive", "done"},
         \A r \in Requests : api[r] # "new" => api'[r] # "new"
  PROVE  LifecycleInv'
<1>1. LifecycleTypeOK'
  BY DEF LifecycleInv, LifecycleTypeOK
<1>2. RequestsOK'
  <2>1. /\ sync # 0 => sync \in Requests
        /\ \A m \in Messages : msgs[m].job # 0 => msgs[m].job \in Requests
    BY LifecycleAssumption DEF LifecycleInv, LifecycleTypeOK, Message, Requests
  <2> QED BY <2>1 DEF LifecycleInv, RequestsOK
<1>3. CompletedIsIndexed'
  BY DEF LifecycleInv, CompletedIsIndexed
<1>4. RunsOK'
  BY RunsKept DEF JobsKept
<1> QED BY <1>1, <1>2, <1>3, <1>4 DEF LifecycleInv, RunsOK

LEMMA FindRepositoryStep ==
  ASSUME LifecycleInv, NEW r \in Requests, FindRepository(r)
  PROVE  LifecycleInv'
<1>1. BoundsOK'
  BY BoundsKept DEF LifecycleInv, LifecycleTypeOK, FindRepository, boundVars
<1>2. \E s \in {"insert", "reset", "done"} : api' = [api EXCEPT ![r] = s]
  BY DEF FindRepository
<1> QED BY <1>1, <1>2, RequestMoves DEF LifecycleInv, LifecycleTypeOK, FindRepository

LEMMA InsertRepositoryStep ==
  ASSUME LifecycleInv, NEW r \in Requests, InsertRepository(r)
  PROVE  LifecycleInv'
<1>1. BoundsOK'
  BY BoundsKept DEF LifecycleInv, LifecycleTypeOK, InsertRepository, boundVars
<1>2. \E s \in {"job", "done"} : api' = [api EXCEPT ![r] = s]
  BY DEF InsertRepository
<1>3. repo' \in {"pending", repo}
  BY DEF InsertRepository
<1> QED BY <1>1, <1>2, <1>3, RequestMoves
        DEF LifecycleInv, LifecycleTypeOK, InsertRepository, RepositoryStatuses

LEMMA ResetRepositoryStep ==
  ASSUME LifecycleInv, NEW r \in Requests, ResetRepository(r)
  PROVE  LifecycleInv'
<1>1. BoundsOK'
  BY BoundsKept DEF LifecycleInv, LifecycleTypeOK, ResetRepository, boundVars
<1>2. \E s \in {"job", "done"} : api' = [api EXCEPT ![r] = s]
  BY DEF ResetRepository
<1>3. repo' \in {"pending", repo}
  BY DEF ResetRepository, UpdateRepository
<1> QED BY <1>1, <1>2, <1>3, RequestMoves
        DEF LifecycleInv, LifecycleTypeOK, ResetRepository, RepositoryStatuses

LEMMA DeleteFindStep ==
  ASSUME LifecycleInv, DeleteFind
  PROVE  LifecycleInv'
<1>1. BoundsOK'
  BY BoundsKept DEF LifecycleInv, LifecycleTypeOK, DeleteFind
<1> QED BY <1>1, RequestMoves DEF LifecycleInv, LifecycleTypeOK, DeleteFind

LEMMA DeleteArchiveStep ==
  ASSUME LifecycleInv, DeleteArchive
  PROVE  LifecycleInv'
<1>1. BoundsOK'
  BY BoundsKept DEF LifecycleInv, LifecycleTypeOK, DeleteArchive, boundVars
<1>2. repo' \in {"archived", repo}
  BY DEF DeleteArchive, UpdateRepository
<1> QED BY <1>1, <1>2, RequestMoves
        DEF LifecycleInv, LifecycleTypeOK, DeleteArchive, RepositoryStatuses

LEMMA SaveJobStep ==
  ASSUME LifecycleInv, NEW r \in Requests, SaveJob(r)
  PROVE  LifecycleInv'
<1>1. BoundsOK'
  BY BoundsKept DEF LifecycleInv, LifecycleTypeOK, SaveJob, boundVars
<1>2. /\ api' \in [Requests -> {"new", "insert", "reset", "job", "publish", "done"}]
      /\ \A q \in Requests : api[q] # "new" => api'[q] # "new"
      /\ api'[r] # "new"
  BY DEF SaveJob, LifecycleInv, LifecycleTypeOK
<1>3. /\ jobs' \in [Requests -> JobRow]
      /\ \A q \in Requests : q # r => jobs'[q] = jobs[q]
      /\ jobs'[r].status = "pending" \/ jobs'[r] = jobs[r]
  <2>1. CASE SaveJobRow(r, "pending", FALSE)
    BY <2>1, SaveJobRowOK DEF JobStatuses
  <2>2. CASE UNCHANGED jobs
    BY <2>2 DEF LifecycleInv, LifecycleTypeOK
  <2> QED BY <2>1, <2>2 DEF SaveJob
<1>4. LifecycleTypeOK'
  BY <1>1, <1>2, <1>3 DEF SaveJob, LifecycleInv, LifecycleTypeOK
<1>5. RequestsOK'
  <2>1. /\ sync # 0 => sync \in Requests
        /\ \A m \in Messages : msgs[m].job # 0 => msgs[m].job \in Requests
    BY LifecycleAssumption DEF LifecycleInv, LifecycleTypeOK, Message, Requests
  <2> QED BY <1>2, <1>3, <2>1 DEF SaveJob, LifecycleInv, RequestsOK
<1>6. CompletedIsIndexed'
  BY <1>3 DEF SaveJob, LifecycleInv, CompletedIsIndexed
<1>7. RunsOK'
  BY RunsKept DEF JobsKept, SaveJob
<1> QED BY <1>4, <1>5, <1>6, <1>7 DEF LifecycleInv, RunsOK

LEMMA PublishJobStep ==
  ASSUME LifecycleInv, NEW r \in Requests, PublishJob(r)
  PROVE  LifecycleInv'
<1>1. BoundsOK'
  BY BoundsKept DEF LifecycleInv, LifecycleTypeOK, PublishJob, boundVars
<1>2. api' = [api EXCEPT ![r] = "done"] /\ api[r] = "publish"
  BY DEF PublishJob
<1>3. /\ msgs' \in [Messages -> Message] /\ JobsKept
      /\ \A m \in Messages : msgs'[m].job \in {msgs[m].job, r}
  BY PublishOK DEF PublishJob, LifecycleInv, LifecycleTypeOK, JobsKept
<1>4. LifecycleTypeOK'
  BY <1>1, <1>2, <1>3 DEF PublishJob, LifecycleInv, LifecycleTypeOK
<1>5. RequestsOK'
  BY <1>2, <1>3 DEF PublishJob, LifecycleInv, LifecycleTypeOK, RequestsOK, Message
<1>6. CompletedIsIndexed'
  BY DEF PublishJob, LifecycleInv, CompletedIsIndexed
<1>7. RunsOK'
  BY <1>3, RunsKept DEF PublishJob
<1> QED BY <1>4, <1>5, <1>6, <1>7 DEF LifecycleInv, RunsOK

LEMMA SyncFindStep ==
  ASSUME LifecycleInv, NEW r \in Requests, SyncFind(r)
  PROVE  LifecycleInv'
<1>1. BoundsOK'
  BY BoundsKept DEF LifecycleInv, LifecycleTypeOK, SyncFind
<1>2. LifecycleTypeOK'
  BY <1>1, LifecycleAssumption DEF SyncFind, LifecycleInv, LifecycleTypeOK, Requests
<1>3. RequestsOK' /\ CompletedIsIndexed'
  BY DEF SyncFind, LifecycleInv, RequestsOK, CompletedIsIndexed
<1>4. RunsOK'
  BY RunsKept DEF JobsKept, SyncFind
<1> QED BY <1>2, <1>3, <1>4 DEF LifecycleInv, RunsOK

LEMMA SyncPublishStep ==
  ASSUME LifecycleInv, SyncPublish
  PROVE  LifecycleInv'
<1>1. BoundsOK'
  BY BoundsKept DEF LifecycleInv, LifecycleTypeOK, SyncPublish, boundVars
<1>2. sync \in Requests /\ api[sync] # "new" /\ sync' = 0
  BY LifecycleAssumption
     DEF SyncPublish, LifecycleInv, LifecycleTypeOK, RequestsOK, Requests
<1>3. /\ msgs' \in [Messages -> Message] /\ JobsKept
      /\ \A m \in Messages : msgs'[m].job \in {msgs[m].job, sync}
  BY <1>2, PublishOK DEF SyncPublish, LifecycleInv, LifecycleTypeOK, JobsKept
<1>4. LifecycleTypeOK'
  BY <1>1, <1>2, <1>3, LifecycleAssumption DEF SyncPublish, LifecycleInv, LifecycleTypeOK
<1>5. RequestsOK'
  BY <1>2, <1>3 DEF SyncPublish, LifecycleInv, LifecycleTypeOK, RequestsOK, Message
<1>6. CompletedIsIndexed'
  BY DEF SyncPublish, LifecycleInv, CompletedIsIndexed
<1>7. RunsOK'
  BY <1>3, RunsKept DEF SyncPublish
<1> QED BY <1>4, <1>5, <1>6, <1>7 DEF LifecycleInv, RunsOK

-----------------------------------------------------------------------------
(* Workers.                                                                *)

\* A worker with a message has its job, and its claims are true.
LEMMA Working ==
  ASSUME LifecycleInv, NEW w \in Workers, run[w].pc \notin {"down", "idle"}
  PROVE  /\ JobOf(w) # 0 /\ RunOK(run[w], JobOf(w), covered)
         /\ JobOf(w) \in Requests /\ api[JobOf(w)] # "new" /\ run[w] \in Run
<1>1. RunOK(run[w], JobOf(w), covered) /\ run[w] \in Run
  BY DEF LifecycleInv, LifecycleTypeOK
<1>2. JobOf(w) # 0
  BY <1>1 DEF RunOK
<1> QED BY <1>1, <1>2, JobRequested

\* Positions where a worker claims nothing but to have a job.
LEMMA PlainOK ==
  ASSUME NEW g \in Run, NEW job, NEW done, job # 0,
         NEW pc \in Positions \ {"read", "write", "index", "completeJob", "skipJob"}
  PROVE  RunOK([g EXCEPT !.pc = pc], job, done)
BY DEF RunOK, Run, Positions

\* Going to such a position.
LEMMA GotoPlain ==
  ASSUME LifecycleInv, NEW w \in Workers, run[w].pc \notin {"down", "idle"},
         NEW pc \in Positions \ {"read", "write", "index", "completeJob", "skipJob"},
         Goto(w, pc), covered \subseteq covered', JobsKept
  PROVE  run' \in [Workers -> Run] /\ RunsOK'
BY Working, PlainOK, GotoMoves

LEMMA DeliverStep ==
  ASSUME LifecycleInv, NEW w \in Workers, NEW m \in Messages, Deliver(w, m)
  PROVE  LifecycleInv'
<1>1. BoundsOK'
  BY BoundsKept DEF LifecycleInv, LifecycleTypeOK, Deliver
<1>2. msgs' \in [Messages -> Message] /\ \A k \in Messages : msgs'[k].job = msgs[k].job
  <2>1. msgs \in [Messages -> Message] /\ msgs[m].left - 1 \in 0..MaxDeliver
    BY LifecycleAssumption DEF Deliver, Stored, LifecycleInv, LifecycleTypeOK, Message
  <2> QED BY <2>1 DEF Deliver, Message
<1> DEFINE g == [Idle EXCEPT !.pc = "loadJob", !.msg = m]
<1>3. g \in Run /\ g.msg = m /\ g.pc = "loadJob"
  BY DEF Idle, Run, Positions, JobStatuses, RepositoryStatuses
<1>4. run' = [run EXCEPT ![w] = g]
  BY DEF Deliver
<1>5. RunOK(g, msgs'[g.msg].job, covered')
  <2> HIDE DEF g
  <2> QED BY <1>2, <1>3 DEF RunOK, Deliver, Stored
<1>6. run' \in [Workers -> Run] /\ RunsOK'
  <2>1. JobsKept /\ covered \subseteq covered'
    BY <1>2 DEF JobsKept, Deliver
  <2> HIDE DEF g
  <2> QED BY <1>3, <1>4, <1>5, <2>1, RunMoves
<1>7. LifecycleTypeOK'
  BY <1>1, <1>2, <1>6 DEF Deliver, LifecycleInv, LifecycleTypeOK, requestVars
<1>8. RequestsOK' /\ CompletedIsIndexed'
  BY <1>2 DEF Deliver, LifecycleInv, RequestsOK, CompletedIsIndexed, requestVars
<1> QED BY <1>6, <1>7, <1>8 DEF LifecycleInv, RunsOK

\* Loading the job, whether or not it is started, claims nothing.
LEMMA LoadJobStep ==
  ASSUME LifecycleInv, NEW w \in Workers, LoadJob(w)
  PROVE  LifecycleInv'
<1>1. BoundsOK'
  BY BoundsKept DEF LifecycleInv, LifecycleTypeOK, LoadJob, boundVars
<1>2. run[w] \in Run /\ JobOf(w) \in Requests /\ JobOf(w) # 0
  BY Working DEF LoadJob
<1>3. jobs[JobOf(w)].status \in JobStatuses
  BY <1>2 DEF LifecycleInv, LifecycleTypeOK, JobRow
<1>4. \E pc \in {"startJob", "readRepo"}, status \in JobStatuses :
        run' = [run EXCEPT ![w] = [run[w] EXCEPT !.pc = pc, !.ent = status]]
  <2>1. run \in [Workers -> Run] /\ run[w].ent \in JobStatuses /\ "running" \in JobStatuses
    BY DEF LifecycleInv, LifecycleTypeOK, Run, JobStatuses
  <2>2. CASE Goto(w, "readRepo")
    <3>1. run' = [run EXCEPT ![w] = [run[w] EXCEPT !.pc = "readRepo", !.ent = run[w].ent]]
      BY <2>1, <2>2 DEF Goto, Run
    <3> QED BY <2>1, <3>1
  <2>3. CASE run' = [run EXCEPT ![w].pc = "startJob", ![w].ent = "running"]
    <3>1. run' = [run EXCEPT ![w] = [run[w] EXCEPT !.pc = "startJob", !.ent = "running"]]
      BY <2>1, <2>3 DEF Run
    <3> QED BY <2>1, <3>1
  <2>4. CASE run' = [run EXCEPT ![w].pc = "readRepo", ![w].ent = jobs[JobOf(w)].status]
    <3>1. run' = [run EXCEPT ![w] = [run[w] EXCEPT !.pc = "readRepo",
                                                   !.ent = jobs[JobOf(w)].status]]
      BY <2>1, <2>4 DEF Run
    <3> QED BY <1>3, <3>1
  <2> QED BY <2>2, <2>3, <2>4 DEF LoadJob
<1>5. run' \in [Workers -> Run] /\ RunsOK'
  <2> PICK pc \in {"startJob", "readRepo"}, status \in JobStatuses :
        run' = [run EXCEPT ![w] = [run[w] EXCEPT !.pc = pc, !.ent = status]]
    BY <1>4
  <2> DEFINE g == [run[w] EXCEPT !.pc = pc, !.ent = status]
  <2>1. g \in Run /\ g.pc = pc /\ g.msg = run[w].msg
    BY <1>2 DEF Run, Positions
  <2>2. JobsKept /\ covered \subseteq covered'
    BY DEF JobsKept, LoadJob
  <2> HIDE DEF g
  <2>3. RunOK(g, msgs'[g.msg].job, covered')
    BY <1>2, <2>1 DEF RunOK, JobOf, LoadJob
  <2>4. run' = [run EXCEPT ![w] = g]
    BY DEF g
  <2> QED BY <2>1, <2>2, <2>3, <2>4, RunMoves
<1> QED BY <1>1, <1>5, OnlyRunMoves DEF LoadJob, requestVars

\* What a worker writes to its job's row.
LEMMA JobRowWritten ==
  ASSUME LifecycleInv, NEW w \in Workers, run[w].pc \notin {"down", "idle"},
         BoundsOK', run' \in [Workers -> Run], RunsOK',
         UNCHANGED <<repo, covered, msgs, requestVars>>,
         NEW status \in JobStatuses, NEW counted \in BOOLEAN,
         SaveJobRow(JobOf(w), status, counted),
         status = "completed" => covered # {} /\ (counted => JobOf(w) \in covered)
  PROVE  LifecycleInv'
<1>1. JobOf(w) \in Requests /\ api[JobOf(w)] # "new"
  BY Working
<1>2. /\ jobs' \in [Requests -> JobRow]
      /\ jobs'[JobOf(w)].status = status /\ jobs'[JobOf(w)].counted = counted
      /\ \A q \in Requests : q # JobOf(w) => jobs'[q] = jobs[q]
  BY <1>1, SaveJobRowOK
<1>3. LifecycleTypeOK'
  BY <1>2 DEF LifecycleInv, LifecycleTypeOK, requestVars
<1>4. RequestsOK'
  BY <1>1, <1>2 DEF LifecycleInv, RequestsOK, requestVars
<1>5. CompletedIsIndexed'
  BY <1>2 DEF LifecycleInv, CompletedIsIndexed
<1> QED BY <1>3, <1>4, <1>5 DEF LifecycleInv, RunsOK

LEMMA StartJobStep ==
  ASSUME LifecycleInv, NEW w \in Workers, StartJob(w)
  PROVE  LifecycleInv'
<1>1. BoundsOK'
  BY BoundsKept DEF LifecycleInv, LifecycleTypeOK, StartJob, boundVars
<1>2. run' \in [Workers -> Run] /\ RunsOK'
  BY GotoPlain DEF StartJob, Positions, JobsKept
<1>3. CASE SaveJobRow(JobOf(w), "running", FALSE)
  BY <1>1, <1>2, <1>3, JobRowWritten DEF StartJob, JobStatuses
<1>4. CASE UNCHANGED jobs
  BY <1>1, <1>2, <1>4, OnlyRunMoves DEF StartJob
<1> QED BY <1>3, <1>4 DEF StartJob

LEMMA ReadRepositoryStep ==
  ASSUME LifecycleInv, NEW w \in Workers, ReadRepository(w)
  PROVE  LifecycleInv'
<1>1. BoundsOK'
  BY BoundsKept DEF LifecycleInv, LifecycleTypeOK, ReadRepository, boundVars
<1>2. /\ run[w] \in Run /\ JobOf(w) # 0 /\ repo \in RepositoryStatuses
      /\ run \in [Workers -> Run] /\ JobsKept /\ covered' = covered
  BY Working DEF ReadRepository, LifecycleInv, LifecycleTypeOK, JobsKept
<1>3. CASE Goto(w, "failJob")
  <2>1. run' \in [Workers -> Run] /\ RunsOK'
    BY <1>2, <1>3, GotoPlain DEF ReadRepository, Positions
  <2> QED BY <1>1, <2>1, OnlyRunMoves DEF ReadRepository
<1>4. CASE repo = "completed" /\ Goto(w, "skipJob")
  <2>1. covered # {}
    BY <1>4 DEF LifecycleInv, CompletedIsIndexed
  <2>2. RunOK([run[w] EXCEPT !.pc = "skipJob"], JobOf(w), covered')
    BY <1>2, <2>1 DEF RunOK, Run
  <2>3. run' \in [Workers -> Run] /\ RunsOK'
    BY <1>2, <1>4, <2>2, GotoMoves DEF Positions
  <2> QED BY <1>1, <2>3, OnlyRunMoves DEF ReadRepository
<1>5. CASE run' = [run EXCEPT ![w].stale = repo, ![w].pc = "read", ![w].goal = "pending"]
  <2> DEFINE g == [run[w] EXCEPT !.stale = repo, !.pc = "read", !.goal = "pending"]
  <2>1. /\ g \in Run /\ g.msg = run[w].msg /\ g.pc = "read" /\ g.goal = "pending"
        /\ run' = [run EXCEPT ![w] = g]
    BY <1>2, <1>5 DEF Run, Positions, RepositoryStatuses
  <2> HIDE DEF g
  <2>2. RunOK(g, msgs'[g.msg].job, covered')
    BY <1>2, <2>1 DEF RunOK, JobOf, ReadRepository
  <2> QED BY <1>1, <1>2, <2>1, <2>2, RunMoves, OnlyRunMoves DEF ReadRepository
<1>6. CASE run' = [run EXCEPT ![w].stale = repo, ![w].pc = "setup"]
  <2> DEFINE g == [run[w] EXCEPT !.stale = repo, !.pc = "setup"]
  <2>1. /\ g \in Run /\ g.msg = run[w].msg /\ g.pc = "setup"
        /\ run' = [run EXCEPT ![w] = g]
    BY <1>2, <1>6 DEF Run, Positions
  <2> HIDE DEF g
  <2>2. RunOK(g, msgs'[g.msg].job, covered')
    BY <1>2, <2>1 DEF RunOK, JobOf, ReadRepository
  <2> QED BY <1>1, <1>2, <2>1, <2>2, RunMoves, OnlyRunMoves DEF ReadRepository
<1> QED BY <1>3, <1>4, <1>5, <1>6 DEF ReadRepository

LEMMA SetupStep ==
  ASSUME LifecycleInv, NEW w \in Workers, Setup(w)
  PROVE  LifecycleInv'
<1>1. BoundsOK'
  BY BoundsKept DEF LifecycleInv, LifecycleTypeOK, Setup, boundVars
<1>2. JobOf(w) # 0 /\ JobsKept /\ covered' = covered
  BY Working DEF Setup, JobsKept
<1>3. CASE Goto(w, "clone")
  BY <1>1, <1>2, <1>3, GotoPlain, OnlyRunMoves DEF Setup, Positions
<1>4. ASSUME NEW goal \in {"cloning", "failed"}, Update(w, goal)
      PROVE  LifecycleInv'
  BY <1>1, <1>2, <1>4, UpdateMoves, OnlyRunMoves DEF Setup, RepositoryStatuses
<1> QED BY <1>3, <1>4 DEF Setup

\* Where a run goes on after a refused or failed update, its claims are true: one
\* that was to complete the repository has been indexed.
LEMMA RefusedMoves ==
  ASSUME LifecycleInv, NEW w \in Workers, run[w].pc \in {"read", "write"}, Refused(w),
         UNCHANGED <<covered, msgs>>
  PROVE  run' \in [Workers -> Run] /\ RunsOK'
<1>1. /\ RunOK(run[w], JobOf(w), covered) /\ JobOf(w) # 0 /\ run[w] \in Run
      /\ JobsKept /\ covered' = covered
  BY Working DEF JobsKept
<1>2. CASE run[w].goal \in {"cloning", "processing"}
  BY <1>1, <1>2, UpdateMoves DEF Refused, RepositoryStatuses
<1>3. CASE run[w].goal = "completed"
  <2>1. RunOK([run[w] EXCEPT !.pc = "completeJob"], JobOf(w), covered')
    BY <1>1, <1>3 DEF RunOK, Run
  <2>2. Goto(w, "completeJob")
    BY <1>3 DEF Refused
  <2> QED BY <1>1, <2>1, <2>2, GotoMoves DEF Positions
<1>4. CASE run[w].goal \notin {"cloning", "processing", "completed"}
  <2>1. Goto(w, "failJob")
    BY <1>4 DEF Refused
  <2> QED BY <1>1, <2>1, GotoPlain DEF Positions
<1> QED BY <1>2, <1>3, <1>4

\* ... and after an accepted one.
LEMMA AcceptedMoves ==
  ASSUME LifecycleInv, NEW w \in Workers, run[w].pc = "write", Accepted(w),
         UNCHANGED <<covered, msgs>>
  PROVE  run' \in [Workers -> Run] /\ RunsOK'
<1>1. /\ RunOK(run[w], JobOf(w), covered) /\ JobOf(w) # 0 /\ run[w] \in Run
      /\ JobsKept /\ covered' = covered
  BY Working DEF JobsKept
<1>2. PICK pc \in {"setup", "clone", "index", "completeJob", "failJob"} :
        /\ Goto(w, pc)
        /\ pc = "index" => run[w].goal = "processing"
        /\ pc = "completeJob" => run[w].goal = "completed"
  BY DEF Accepted
<1>3. RunOK([run[w] EXCEPT !.pc = pc], JobOf(w), covered')
  BY <1>1, <1>2 DEF RunOK, Run
<1> QED BY <1>1, <1>2, <1>3, GotoMoves DEF Positions

LEMMA CheckTransitionStep ==
  ASSUME LifecycleInv, NEW w \in Workers, CheckTransition(w)
  PROVE  LifecycleInv'
<1>1. BoundsOK'
  BY BoundsKept DEF LifecycleInv, LifecycleTypeOK, CheckTransition, boundVars
<1>2. CASE Goto(w, "write")
  <2>1. /\ RunOK(run[w], JobOf(w), covered) /\ JobOf(w) # 0 /\ run[w] \in Run
        /\ JobsKept /\ covered' = covered /\ run[w].pc = "read"
    BY Working DEF JobsKept, CheckTransition
  <2>2. RunOK([run[w] EXCEPT !.pc = "write"], JobOf(w), covered')
    BY <2>1 DEF RunOK, Run
  <2> QED BY <1>1, <1>2, <2>1, <2>2, GotoMoves, OnlyRunMoves DEF CheckTransition, Positions
<1>3. CASE Refused(w)
  BY <1>1, <1>3, RefusedMoves, OnlyRunMoves DEF CheckTransition
<1> QED BY <1>2, <1>3 DEF CheckTransition

LEMMA WriteTransitionStep ==
  ASSUME LifecycleInv, NEW w \in Workers, WriteTransition(w)
  PROVE  LifecycleInv'
<1>1. BoundsOK'
  BY BoundsKept DEF LifecycleInv, LifecycleTypeOK, WriteTransition, boundVars
<1>2. CASE UpdateRepository(run[w].goal) /\ Accepted(w)
  <2>1. run' \in [Workers -> Run] /\ RunsOK'
    BY <1>2, AcceptedMoves DEF WriteTransition
  <2>2. run[w] \in Run /\ RunOK(run[w], JobOf(w), covered)
    BY Working DEF WriteTransition
  <2>3. repo' = run[w].goal /\ run[w].goal \in RepositoryStatuses
    BY <1>2, <2>2 DEF UpdateRepository, Run
  <2>4. LifecycleTypeOK'
    BY <1>1, <2>1, <2>3 DEF WriteTransition, LifecycleInv, LifecycleTypeOK, requestVars
  <2>5. RequestsOK'
    BY DEF WriteTransition, LifecycleInv, RequestsOK, requestVars
  <2>6. CompletedIsIndexed'
    BY <2>2, <2>3 DEF WriteTransition, RunOK, LifecycleInv, CompletedIsIndexed
  <2> QED BY <2>1, <2>4, <2>5, <2>6 DEF LifecycleInv, RunsOK
<1>3. CASE Refused(w) /\ UNCHANGED repo
  BY <1>1, <1>3, RefusedMoves, OnlyRunMoves DEF WriteTransition
<1> QED BY <1>2, <1>3 DEF WriteTransition

\* The clone has the content of the request that the job belongs to.
LEMMA CloneStep ==
  ASSUME LifecycleInv, NEW w \in Workers, Clone(w)
  PROVE  LifecycleInv'
<1>1. BoundsOK'
  BY BoundsKept DEF LifecycleInv, LifecycleTypeOK, Clone, boundVars
<1>2. /\ JobOf(w) \in Requests /\ JobOf(w) # 0 /\ api[JobOf(w)] # "new"
      /\ run[w] \in Run /\ run \in [Workers -> Run]
      /\ JobsKept /\ covered' = covered
  BY Working DEF Clone, JobsKept, LifecycleInv, LifecycleTypeOK
<1>3. CASE Update(w, "failed")
  BY <1>1, <1>2, <1>3, UpdateMoves, OnlyRunMoves DEF Clone, RepositoryStatuses
<1>4. CASE ~Update(w, "failed")
  <2> DEFINE fresh == {r \in Requests : api[r] # "new"}
             pc == IF run[w].stale = "processing" THEN "index" ELSE "read"
             g == [run[w] EXCEPT !.fresh = fresh, !.pc = pc, !.goal = "processing"]
  <2>1. fresh \in SUBSET Requests /\ JobOf(w) \in fresh /\ pc \in {"index", "read"}
    BY <1>2
  <2>2. run' = [run EXCEPT ![w].fresh = fresh, ![w].pc = pc, ![w].goal = "processing"]
    BY <1>4 DEF Clone
  <2> HIDE DEF fresh, pc
  <2>3. /\ g \in Run /\ g.msg = run[w].msg /\ g.fresh = fresh /\ g.goal = "processing"
        /\ g.pc \in {"index", "read"}
    BY <1>2, <2>1 DEF Run, Positions, RepositoryStatuses
  <2>4. run' = [run EXCEPT ![w] = g]
    BY <1>2, <2>2 DEF Run
  <2> HIDE DEF g
  <2>5. RunOK(g, msgs'[g.msg].job, covered')
    BY <1>2, <2>1, <2>3 DEF RunOK, JobOf, Clone
  <2> QED BY <1>1, <1>2, <2>3, <2>4, <2>5, RunMoves, OnlyRunMoves DEF Clone
<1> QED BY <1>3, <1>4

\* Indexing covers the requests whose content was cloned, this job's among them.
LEMMA IndexStep ==
  ASSUME LifecycleInv, NEW w \in Workers, Index(w)
  PROVE  LifecycleInv'
<1>1. BoundsOK'
  BY BoundsKept DEF LifecycleInv, LifecycleTypeOK, Index, boundVars
<1>2. /\ RunOK(run[w], JobOf(w), covered) /\ JobOf(w) # 0 /\ run[w] \in Run /\ JobsKept
      /\ run[w].pc = "index"
  BY Working DEF Index, JobsKept
<1>3. CASE Update(w, "failed") /\ UNCHANGED covered
  BY <1>1, <1>2, <1>3, UpdateMoves, OnlyRunMoves DEF Index, RepositoryStatuses
<1>4. CASE Update(w, "completed") /\ covered' = covered \cup run[w].fresh
  <2>1. /\ JobOf(w) \in covered' /\ covered \subseteq covered'
        /\ covered' \in SUBSET Requests
    BY <1>2, <1>4 DEF RunOK, Run, LifecycleInv, LifecycleTypeOK
  <2>2. run' \in [Workers -> Run] /\ RunsOK'
    BY <1>2, <1>4, <2>1, UpdateMoves DEF RepositoryStatuses
  <2> QED BY <1>1, <2>1, <2>2, CoverMoves DEF Index
<1> QED BY <1>3, <1>4 DEF Index

\* A timeout moves a worker and changes no row; an engine may be done.
LEMMA TimeOutStep ==
  ASSUME LifecycleInv, NEW w \in Workers, TimeOut(w)
  PROVE  LifecycleInv'
<1>1. BoundsOK'
  BY BoundsKept DEF LifecycleInv, LifecycleTypeOK, TimeOut
<1>2. JobsKept /\ covered \subseteq covered' /\ covered' \in SUBSET Requests
  <2>1. run[w].fresh \subseteq Requests
    BY DEF LifecycleInv, LifecycleTypeOK, Run
  <2> QED BY <2>1 DEF JobsKept, TimeOut, LifecycleInv, LifecycleTypeOK
<1>3. PICK pc \in {"ack", "nak"} : Goto(w, pc)
  BY DEF TimeOut
<1>4. run' \in [Workers -> Run] /\ RunsOK'
  BY <1>2, <1>3, GotoPlain DEF TimeOut, Positions
<1> QED BY <1>1, <1>2, <1>4, CoverMoves DEF TimeOut

\* A job is completed with what its run has indexed, or with what it found indexed.
LEMMA EndJobStep ==
  ASSUME LifecycleInv, NEW w \in Workers, EndJob(w)
  PROVE  LifecycleInv'
<1>1. BoundsOK'
  BY BoundsKept DEF LifecycleInv, LifecycleTypeOK, EndJob, boundVars
<1>2. RunOK(run[w], JobOf(w), covered) /\ JobsKept /\ covered' = covered
  BY Working DEF EndJob, JobsKept
<1>3. PICK pc \in {"ack", "nak"} : Goto(w, pc)
  BY DEF EndJob
<1>4. run' \in [Workers -> Run] /\ RunsOK'
  BY <1>2, <1>3, GotoPlain DEF EndJob, Positions
<1>5. CASE UNCHANGED jobs
  BY <1>1, <1>4, <1>5, OnlyRunMoves DEF EndJob
<1>6. CASE ~UNCHANGED jobs
  <2>1. CASE run[w].pc = "completeJob"
    <3>1. SaveJobRow(JobOf(w), "completed", TRUE)
      BY <1>6, <2>1 DEF EndJob
    <3>2. JobOf(w) \in covered
      BY <1>2, <2>1 DEF RunOK
    <3> QED BY <1>1, <1>4, <2>1, <3>1, <3>2, JobRowWritten DEF EndJob, JobStatuses
  <2>2. CASE run[w].pc = "skipJob"
    <3>1. SaveJobRow(JobOf(w), "completed", FALSE)
      BY <1>6, <2>2 DEF EndJob
    <3>2. covered # {}
      BY <1>2, <2>2 DEF RunOK
    <3> QED BY <1>1, <1>4, <2>2, <3>1, <3>2, JobRowWritten DEF EndJob, JobStatuses
  <2>3. CASE run[w].pc = "failJob"
    <3>1. SaveJobRow(JobOf(w), "failed", FALSE)
      BY <1>6, <2>3 DEF EndJob
    <3> QED BY <1>1, <1>4, <2>3, <3>1, JobRowWritten DEF EndJob, JobStatuses
  <2> QED BY <2>1, <2>2, <2>3 DEF EndJob
<1> QED BY <1>5, <1>6

\* A worker without a message claims nothing.
LEMMA Released ==
  ASSUME LifecycleInv, BoundsOK', NEW w \in Workers, NEW pc \in {"idle", "down"},
         run' = [run EXCEPT ![w] = [Idle EXCEPT !.pc = pc]],
         msgs' \in [Messages -> Message],
         \A m \in Messages : msgs'[m].job = msgs[m].job,
         UNCHANGED <<repo, jobs, covered, requestVars>>
  PROVE  LifecycleInv'
<1> DEFINE g == [Idle EXCEPT !.pc = pc]
<1>1. g \in Run /\ g.pc = pc
  BY LifecycleAssumption
     DEF Idle, Run, Positions, JobStatuses, RepositoryStatuses, Messages
<1>2. run' = [run EXCEPT ![w] = g]
  OBVIOUS
<1>3. JobsKept
  BY DEF JobsKept
<1> HIDE DEF g
<1>4. RunOK(g, msgs'[g.msg].job, covered')
  BY <1>1 DEF RunOK
<1>5. run' \in [Workers -> Run] /\ RunsOK'
  BY <1>1, <1>2, <1>3, <1>4, RunMoves
<1>6. LifecycleTypeOK'
  BY <1>5 DEF LifecycleInv, LifecycleTypeOK, requestVars
<1>7. RequestsOK' /\ CompletedIsIndexed'
  BY DEF LifecycleInv, RequestsOK, CompletedIsIndexed, requestVars
<1> QED BY <1>5, <1>6, <1>7 DEF LifecycleInv, RunsOK

LEMMA SettleStep ==
  ASSUME LifecycleInv, NEW w \in Workers, Settle(w)
  PROVE  LifecycleInv'
<1>1. BoundsOK'
  BY BoundsKept DEF LifecycleInv, LifecycleTypeOK, Settle, boundVars
<1>2. msgs' \in [Messages -> Message] /\ \A m \in Messages : msgs'[m].job = msgs[m].job
  <2>1. msgs \in [Messages -> Message]
    BY DEF LifecycleInv, LifecycleTypeOK
  <2>2. CASE UNCHANGED msgs
    BY <2>1, <2>2
  <2>3. CASE msgs' = Acknowledged(run[w].msg)
    BY <2>1, <2>3 DEF Acknowledged, Message
  <2> QED BY <2>2, <2>3 DEF Settle
<1>3. run' = [run EXCEPT ![w] = [Idle EXCEPT !.pc = "idle"]]
  BY DEF Settle, Idle
<1> QED BY <1>1, <1>2, <1>3, Released DEF Settle

LEMMA CrashStep ==
  ASSUME LifecycleInv, NEW w \in Workers, Crash(w)
  PROVE  LifecycleInv'
<1>1. BoundsOK'
  BY BoundsKept DEF LifecycleInv, LifecycleTypeOK, Crash
<1> QED BY <1>1, Released DEF Crash, LifecycleInv, LifecycleTypeOK

LEMMA RestartStep ==
  ASSUME LifecycleInv, NEW w \in Workers, Restart(w)
  PROVE  LifecycleInv'
<1>1. BoundsOK'
  BY BoundsKept DEF LifecycleInv, LifecycleTypeOK, Restart
<1>2. msgs' \in [Messages -> Message] /\ \A m \in Messages : msgs'[m].job = msgs[m].job
  BY LifecycleAssumption DEF Restart, LifecycleInv, LifecycleTypeOK, Message
<1>3. run[w] \in Run /\ run \in [Workers -> Run]
  BY DEF LifecycleInv, LifecycleTypeOK
<1> DEFINE g == [run[w] EXCEPT !.pc = "idle"]
<1>4. g \in Run /\ g.pc = "idle" /\ run' = [run EXCEPT ![w] = g]
  BY <1>3 DEF Run, Positions, Restart, Goto
<1> HIDE DEF g
<1>5. RunOK(g, msgs'[g.msg].job, covered')
  BY <1>4 DEF RunOK
<1>6. JobsKept /\ covered' = covered
  BY <1>2 DEF JobsKept, Restart
<1>7. run' \in [Workers -> Run] /\ RunsOK'
  BY <1>4, <1>5, <1>6, RunMoves
<1>8. LifecycleTypeOK'
  BY <1>1, <1>2, <1>7 DEF Restart, LifecycleInv, LifecycleTypeOK, requestVars
<1>9. RequestsOK' /\ CompletedIsIndexed'
  BY <1>2 DEF Restart, LifecycleInv, RequestsOK, CompletedIsIndexed, requestVars
<1> QED BY <1>7, <1>8, <1>9 DEF LifecycleInv, RunsOK

LEMMA ExpireStep ==
  ASSUME LifecycleInv, NEW m \in Messages, Expire(m)
  PROVE  LifecycleInv'
<1>1. BoundsOK'
  BY BoundsKept DEF LifecycleInv, LifecycleTypeOK, Expire
<1>2. msgs' \in [Messages -> Message] /\ \A k \in Messages : msgs'[k].job = msgs[k].job
  BY DEF Expire, LifecycleInv, LifecycleTypeOK, Message
<1>3. RunsOK'
  BY <1>2, RunsKept DEF JobsKept, Expire
<1>4. LifecycleTypeOK'
  BY <1>1, <1>2 DEF Expire, LifecycleInv, LifecycleTypeOK, requestVars
<1>5. RequestsOK' /\ CompletedIsIndexed'
  BY <1>2 DEF Expire, LifecycleInv, RequestsOK, CompletedIsIndexed, requestVars
<1> QED BY <1>3, <1>4, <1>5 DEF LifecycleInv, RunsOK

LEMMA StutterStep ==
  ASSUME LifecycleInv, UNCHANGED vars
  PROVE  LifecycleInv'
<1>1. BoundsOK'
  BY DEF LifecycleInv, LifecycleTypeOK, BoundsOK, vars, boundVars
<1>2. run' \in [Workers -> Run] /\ RunsOK'
  BY RunsKept DEF vars, JobsKept, LifecycleInv, LifecycleTypeOK
<1> QED BY <1>1, <1>2, OnlyRunMoves DEF vars, requestVars

-----------------------------------------------------------------------------
(* The theorems.                                                           *)

LEMMA NextLifecycleInv ==
  LifecycleInv /\ [Next]_vars => LifecycleInv'
<1> SUFFICES ASSUME LifecycleInv, [Next]_vars
             PROVE  LifecycleInv'
  OBVIOUS
<1>1. CASE \E r \in Requests : FindRepository(r) \/ RequestStep(r) \/ SyncFind(r)
  BY <1>1, FindRepositoryStep, InsertRepositoryStep, ResetRepositoryStep, SaveJobStep,
     PublishJobStep, SyncFindStep DEF RequestStep
<1>2. CASE DeleteFind \/ DeleteArchive \/ SyncPublish
  BY <1>2, DeleteFindStep, DeleteArchiveStep, SyncPublishStep
<1>3. CASE \E w \in Workers : WorkerStep(w)
  BY <1>3, LoadJobStep, StartJobStep, ReadRepositoryStep, SetupStep, CheckTransitionStep,
     WriteTransitionStep, CloneStep, IndexStep, EndJobStep, SettleStep DEF WorkerStep
<1>4. CASE \E w \in Workers : TimeOut(w) \/ Crash(w) \/ Restart(w)
  BY <1>4, TimeOutStep, CrashStep, RestartStep
<1>5. CASE \E m \in Messages : Expire(m) \/ \E w \in Workers : Deliver(w, m)
  BY <1>5, DeliverStep, ExpireStep
<1>6. CASE UNCHANGED vars
  BY <1>6, StutterStep
<1> QED BY <1>1, <1>2, <1>3, <1>4, <1>5, <1>6 DEF Next

\* What every worker assumes at each point of executeJobPipeline is true, however
\* many deliveries, requests and removals interleave with it.
THEOREM LifecycleConsistent == Spec => []LifecycleInv
BY InitLifecycleInv, NextLifecycleInv, PTL DEF Spec

\* Type correctness: no message is delivered more often than MaxDeliver allows.
THEOREM LifecycleTypeCorrect == Spec => []LifecycleTypeOK
<1>1. LifecycleInv => LifecycleTypeOK
  BY DEF LifecycleInv
<1> QED BY <1>1, LifecycleConsistent, PTL

\* Neither a repository nor a job is ever completed without the indexing that
\* markRepositoryCompleted, persistJobComplete and persistJobSkip report.
THEOREM CompletedIndexed == Spec => []CompletedIsIndexed
<1>1. LifecycleInv => CompletedIsIndexed
  BY DEF LifecycleInv
<1> QED BY <1>1, LifecycleConsistent, PTL

\* No stale write of a worker, a request or a removal revives an archived
\* repository: the UPDATE in repository_repository.go does not find its row.
THEOREM ArchivedForGood == Spec => ArchivedStaysArchived
<1>1. ASSUME [Next]_vars, repo = "archived"
      PROVE  repo' = "archived"
  <2>1. CASE \E r \in Requests : FindRepository(r) \/ RequestStep(r) \/ SyncFind(r)
    BY <1>1, <2>1 DEF RequestStep, FindRepository, InsertRepository, ResetRepository,
       SaveJob, PublishJob, SyncFind, UpdateRepository, Visible
  <2>2. CASE DeleteFind \/ DeleteArchive \/ SyncPublish
    BY <1>1, <2>2 DEF DeleteFind, DeleteArchive, SyncPublish, UpdateRepository, Visible
  <2>3. CASE \E w \in Workers : WorkerStep(w) \/ TimeOut(w) \/ Crash(w) \/ Restart(w)
    BY <1>1, <2>3 DEF WorkerStep, LoadJob, StartJob, ReadRepository, Setup,
       CheckTransition, WriteTransition, Clone, Index, EndJob, Settle, TimeOut, Crash,
       Restart, UpdateRepository, Visible
  <2>4. CASE \E m \in Messages : Expire(m) \/ \E w \in Workers : Deliver(w, m)
    BY <1>1, <2>4 DEF Expire, Deliver
  <2>5. CASE UNCHANGED vars
    BY <1>1, <2>5 DEF vars
  <2> QED BY <1>1, <2>1, <2>2, <2>3, <2>4, <2>5 DEF Next
<1> QED BY <1>1, PTL DEF Spec, ArchivedStaysArchived

-----------------------------------------------------------------------------
(***************************************************************************)
(* With one worker: a job ends once, and a job that reports its chunks     *)
(* leaves a repository that says so too.                                   *)
(***************************************************************************)

OneWorker == \A v, w \in Workers : v = w

\* The actions that are steps of the worker, those that write a job's row, the
\* repository's status, or the messages.
Works(w) == WorkerStep(w) \/ TimeOut(w) \/ Crash(w) \/ Restart(w)
Pipeline(w) ==
  \/ ReadRepository(w) \/ Setup(w) \/ CheckTransition(w) \/ WriteTransition(w)
  \/ Clone(w) \/ Index(w)
Asks == \E r \in Requests : FindRepository(r) \/ RequestStep(r) \/ SyncFind(r)
Removes == DeleteFind \/ DeleteArchive
Delivers == \E w \in Workers, m \in Messages : Deliver(w, m)
Ages == \E m \in Messages : Expire(m)

-----------------------------------------------------------------------------
(* What every step does.                                                   *)

LEMMA Steps ==
  ASSUME [Next]_vars
  PROVE  \/ Asks \/ Removes \/ SyncPublish \/ Delivers \/ Ages \/ UNCHANGED vars
         \/ \E w \in Workers : Works(w)
BY DEF Next, Asks, Removes, Delivers, Ages, Works

\* A request only moves on.
LEMMA RequestsMoveOn ==
  ASSUME LifecycleInv, [Next]_vars, NEW r \in Requests
  PROVE  /\ api[r] # "new" => api'[r] # "new"
         /\ Posted(r) => Posted(r)'
<1>1. api \in [Requests -> {"new", "insert", "reset", "job", "publish", "done"}]
  BY DEF LifecycleInv, LifecycleTypeOK
<1>2. CASE Asks
  <2>1. PICK q \in Requests : FindRepository(q) \/ RequestStep(q) \/ SyncFind(q)
    BY <1>2 DEF Asks
  <2>2. CASE FindRepository(q)
    BY <1>1, <2>2 DEF FindRepository, Posted
  <2>3. CASE RequestStep(q)
    BY <1>1, <2>3 DEF RequestStep, InsertRepository, ResetRepository, SaveJob, PublishJob,
       Posted
  <2>4. CASE SyncFind(q)
    BY <2>4 DEF SyncFind, Posted
  <2> QED BY <2>1, <2>2, <2>3, <2>4
<1>3. CASE Removes \/ SyncPublish \/ Delivers \/ Ages \/ UNCHANGED vars
  BY <1>3 DEF Removes, DeleteFind, DeleteArchive, SyncPublish, Delivers, Deliver, Ages,
     Expire, vars, requestVars, Posted
<1>4. CASE \E w \in Workers : Works(w)
  BY <1>4 DEF Works, WorkerStep, LoadJob, StartJob, ReadRepository, Setup, CheckTransition,
     WriteTransition, Clone, Index, EndJob, Settle, TimeOut, Crash, Restart, requestVars,
     Posted
<1> QED BY <1>2, <1>3, <1>4, Steps

\* Faults and timeouts are not forgotten.
LEMMA TroublesStay ==
  ASSUME LifecycleInv, [Next]_vars, Untroubled'
  PROVE  Untroubled
<1>1. faults \in Nat /\ timeouts \in Nat
  BY DEF LifecycleInv, LifecycleTypeOK, BoundsOK
<1>2. \/ UNCHANGED <<faults, timeouts>>
      \/ faults' = faults + 1
      \/ timeouts' = timeouts + 1
  <2>1. CASE Asks \/ Removes \/ SyncPublish \/ Delivers \/ Ages \/ UNCHANGED vars
    BY <2>1 DEF Ages, Expire, Asks, FindRepository, RequestStep, InsertRepository, ResetRepository,
       SaveJob, PublishJob, SyncFind, Removes, DeleteFind, DeleteArchive, SyncPublish,
       Delivers, Deliver, vars, boundVars, Fault
  <2>2. CASE \E w \in Workers : Works(w)
    <3> PICK w \in Workers : Works(w)
      BY <2>2
    <3>1. CASE LoadJob(w) \/ StartJob(w) \/ ReadRepository(w) \/ Setup(w) \/ Clone(w) \/ Index(w)
      BY <3>1 DEF LoadJob, StartJob, ReadRepository, Setup, Clone, Index, Fault, Error
    <3>2. CASE CheckTransition(w) \/ WriteTransition(w) \/ EndJob(w) \/ Settle(w)
      BY <3>2 DEF CheckTransition, WriteTransition, EndJob, Settle, Fault
    <3>3. CASE TimeOut(w) \/ Crash(w) \/ Restart(w)
      BY <3>3 DEF TimeOut, Crash, Restart, boundVars
    <3> QED BY <3>1, <3>2, <3>3 DEF Works, WorkerStep
  <2> QED BY <2>1, <2>2, Steps
<1> QED BY <1>1, <1>2 DEF Untroubled

LEMMA AloneBefore ==
  ASSUME LifecycleInv, [Next]_vars, NEW r \in Requests, Alone(r)'
  PROVE  Alone(r)
BY RequestsMoveOn, TroublesStay DEF Alone

\* The messages: one is published with a job that is posted, or jobs stay.
LEMMA MessagesStep ==
  ASSUME LifecycleInv, PostedOK, [Next]_vars
  PROVE  /\ JobsKept
         /\ \A m \in Messages :
              \/ msgs'[m].job = msgs[m].job
              \/ \E r \in Requests : msgs'[m].job = r /\ Posted(r)'
<1>0. msgs \in [Messages -> Message] /\ run \in [Workers -> Run]
  BY DEF LifecycleInv, LifecycleTypeOK
<1>1. CASE Asks
  <2>1. PICK q \in Requests : FindRepository(q) \/ RequestStep(q) \/ SyncFind(q)
    BY <1>1 DEF Asks
  <2>2. CASE PublishJob(q)
    <3>1. CASE UNCHANGED msgs
      BY <3>1 DEF JobsKept
    <3>2. CASE PublishIndexingJob(q)
      <4>1. Posted(q)'
        BY <2>2 DEF PublishJob, Posted, LifecycleInv, LifecycleTypeOK
      <4> QED BY <3>2, <4>1, PublishOK
    <3> QED BY <2>2, <3>1, <3>2 DEF PublishJob
  <2>3. CASE ~PublishJob(q)
    BY <2>1, <2>3 DEF FindRepository, RequestStep, InsertRepository, ResetRepository,
       SaveJob, SyncFind, JobsKept
  <2> QED BY <2>2, <2>3
<1>2. CASE SyncPublish
  <2>1. CASE UNCHANGED msgs
    BY <2>1 DEF JobsKept
  <2>2. CASE PublishIndexingJob(sync)
    <3>1. sync \in Requests
      BY <1>2, LifecycleAssumption
         DEF SyncPublish, LifecycleInv, LifecycleTypeOK, Requests
    <3>2. Posted(sync) /\ api' = api
      BY <1>2 DEF SyncPublish, PostedOK
    <3>3. \A m \in Messages : msgs'[m].job \in {msgs[m].job, sync}
      BY <2>2, <3>1, PublishOK
    <3> QED BY <2>2, <3>1, <3>2, <3>3, PublishOK DEF Posted
  <2> QED BY <1>2, <2>1, <2>2 DEF SyncPublish
<1>3. CASE \A m \in Messages : msgs'[m].job = msgs[m].job
  BY <1>3 DEF JobsKept
<1>4. CASE Removes \/ UNCHANGED vars
  BY <1>3, <1>4 DEF Removes, DeleteFind, DeleteArchive, vars
<1>5. CASE Delivers \/ Ages
  <2>1. CASE Delivers
    BY <1>0, <1>3, <2>1 DEF Delivers, Deliver, Message
  <2>2. CASE Ages
    BY <1>0, <1>3, <2>2 DEF Ages, Expire, Message
  <2> QED BY <1>5, <2>1, <2>2
<1>6. CASE \E w \in Workers : Works(w)
  <2> PICK w \in Workers : Works(w)
    BY <1>6
  <2>1. CASE Settle(w)
    BY <1>0, <1>3, <2>1 DEF Settle, Acknowledged, Message
  <2>2. CASE Restart(w)
    BY <1>0, <1>3, <2>2 DEF Restart, Message
  <2>3. CASE ~Settle(w) /\ ~Restart(w)
    BY <1>3, <2>3 DEF Works, WorkerStep, LoadJob, StartJob, ReadRepository, Setup,
       CheckTransition, WriteTransition, Clone, Index, EndJob, TimeOut, Crash
  <2> QED BY <2>1, <2>2, <2>3
<1> QED BY <1>1, <1>2, <1>4, <1>5, <1>6, Steps

\* ... so a job is posted before a message, the sync or its row tells of it.
LEMMA PostedStep ==
  ASSUME LifecycleInv, PostedOK, [Next]_vars
  PROVE  PostedOK'
<1>1. \A m \in Messages : msgs'[m].job # 0 => api'[msgs'[m].job] \in {"publish", "done"}
  <2> SUFFICES ASSUME NEW m \in Messages, msgs'[m].job # 0
               PROVE  api'[msgs'[m].job] \in {"publish", "done"}
    OBVIOUS
  <2>1. CASE msgs'[m].job = msgs[m].job
    <3>1. msgs[m].job \in Requests /\ Posted(msgs[m].job)
      BY <2>1 DEF LifecycleInv, LifecycleTypeOK, Message, PostedOK
    <3> QED BY <2>1, <3>1, RequestsMoveOn DEF Posted
  <2>2. CASE \E r \in Requests : msgs'[m].job = r /\ Posted(r)'
    BY <2>2 DEF Posted
  <2> QED BY <2>1, <2>2, MessagesStep
<1>2. \A r \in Requests : jobs'[r] = jobs[r] \/ Posted(r)'
  <2>1. CASE Asks
    <3>1. PICK q \in Requests : FindRepository(q) \/ RequestStep(q) \/ SyncFind(q)
      BY <2>1 DEF Asks
    <3>2. CASE SaveJob(q)
      BY <3>2 DEF SaveJob, SaveJobRow, Posted, LifecycleInv, LifecycleTypeOK
    <3>3. CASE ~SaveJob(q)
      BY <3>1, <3>3 DEF FindRepository, RequestStep, InsertRepository, ResetRepository,
         PublishJob, SyncFind
    <3> QED BY <3>2, <3>3
  <2>2. CASE Removes \/ SyncPublish \/ Delivers \/ Ages \/ UNCHANGED vars
    BY <2>2 DEF Ages, Expire, Removes, DeleteFind, DeleteArchive, SyncPublish, Delivers, Deliver, vars
  <2>3. CASE \E w \in Workers : Works(w)
    <3> PICK w \in Workers : Works(w)
      BY <2>3
    <3>1. CASE StartJob(w) \/ EndJob(w)
      <4>1. JobOf(w) \in Requests /\ JobOf(w) # 0 /\ run[w] \in Run
        BY <3>1, Working DEF StartJob, EndJob
      <4>2. Posted(JobOf(w))
        BY <4>1 DEF PostedOK, JobOf, Run
      <4>3. Posted(JobOf(w)) /\ UNCHANGED api
        BY <3>1, <4>2 DEF StartJob, EndJob, requestVars
      <4>4. jobs \in [Requests -> JobRow]
        BY DEF LifecycleInv, LifecycleTypeOK
      <4>5. \A r \in Requests : r # JobOf(w) => jobs'[r] = jobs[r]
        BY <3>1, <4>4 DEF StartJob, EndJob, SaveJobRow
      <4> QED BY <4>3, <4>5 DEF Posted
    <3>2. CASE ~StartJob(w) /\ ~EndJob(w)
      BY <3>2 DEF Works, WorkerStep, LoadJob, ReadRepository, Setup, CheckTransition,
         WriteTransition, Clone, Index, Settle, TimeOut, Crash, Restart
    <3> QED BY <3>1, <3>2
  <2> QED BY <2>1, <2>2, <2>3, Steps
<1>3. sync' # 0 => api'[sync'] \in {"publish", "done"}
  <2>1. CASE UNCHANGED sync
    <3>1. sync # 0 => sync \in Requests /\ Posted(sync)
      BY LifecycleAssumption DEF LifecycleInv, LifecycleTypeOK, Requests, PostedOK
    <3> QED BY <2>1, <3>1, RequestsMoveOn DEF Posted
  <2>2. CASE \E r \in Requests : SyncFind(r)
    <3> PICK r \in Requests : SyncFind(r)
      BY <2>2
    <3>1. jobs[r] # NoJobRow
      BY DEF SyncFind, NoJobRow
    <3> QED BY <3>1 DEF SyncFind, PostedOK, Posted
  <2>3. CASE SyncPublish
    BY <2>3 DEF SyncPublish
  <2>4. CASE Removes \/ Delivers \/ Ages \/ UNCHANGED vars
    BY <2>1, <2>4 DEF Ages, Expire, Removes, DeleteFind, DeleteArchive, Delivers, Deliver, vars,
       requestVars
  <2>5. CASE Asks
    BY <2>1, <2>2, <2>5 DEF Asks, FindRepository, RequestStep, InsertRepository,
       ResetRepository, SaveJob, PublishJob
  <2>6. CASE \E w \in Workers : Works(w)
    BY <2>1, <2>6 DEF Works, WorkerStep, LoadJob, StartJob, ReadRepository, Setup,
       CheckTransition, WriteTransition, Clone, Index, EndJob, Settle, TimeOut, Crash,
       Restart, requestVars
  <2> QED BY <2>3, <2>4, <2>5, <2>6, Steps
<1>4. \A r \in Requests : jobs'[r] # NoJobRow => Posted(r)'
  BY <1>2, RequestsMoveOn DEF PostedOK
<1> QED BY <1>1, <1>3, <1>4 DEF PostedOK, Posted

-----------------------------------------------------------------------------
(* A job ends once.                                                        *)

\* Steps that leave the worker where it is write no job's end.
LEMMA OpenKept ==
  ASSUME LifecycleInv, PostedOK, OpenOK, [Next]_vars, UNCHANGED run,
         \A r \in Requests : jobs'[r] = jobs[r] \/ jobs'[r].status = "pending"
  PROVE  OpenOK'
<1> SUFFICES ASSUME NEW w \in Workers,
                    run[w].pc \notin {"down", "idle", "ack", "nak"},
                    run[w].pc = "startJob" \/ run[w].ent = "running"
             PROVE  jobs'[JobOf(w)'].status \notin {"completed", "failed"}
  BY DEF OpenOK, HoldsOpenJob, Ended
<1>1. JobOf(w) # 0 /\ JobOf(w) \in Requests /\ run[w] \in Run
  BY Working
<1>2. JobOf(w)' = JobOf(w)
  BY <1>1, MessagesStep DEF JobsKept, JobOf, Run
<1>3. jobs[JobOf(w)].status \notin {"completed", "failed"}
  BY DEF OpenOK, HoldsOpenJob, Ended
<1> QED BY <1>1, <1>2, <1>3

\* What the worker holds after a step of its own; it is the only one.
LEMMA OpenMoves ==
  ASSUME OneWorker, LifecycleInv, OpenOK, NEW w \in Workers, NEW g,
         run' = [run EXCEPT ![w] = g],
         \/ g.pc \in {"down", "idle", "ack", "nak"}
         \/ g.pc # "startJob" /\ g.ent # "running"
         \/ jobs'[msgs'[g.msg].job].status \notin {"completed", "failed"}
  PROVE  OpenOK'
<1>1. run'[w] = g
  BY DEF LifecycleInv, LifecycleTypeOK
<1>2. \A v \in Workers : v = w
  BY DEF OneWorker
<1> QED BY <1>1, <1>2 DEF OpenOK, HoldsOpenJob, Ended, JobOf

\* The steps between the job's start and its end leave the job and its message.
LEMMA Pipelines ==
  ASSUME LifecycleInv, NEW w \in Workers, Pipeline(w)
  PROVE  /\ run[w].pc \notin {"down", "idle", "ack", "nak"} /\ UNCHANGED <<msgs, jobs>>
         /\ run'[w].pc # "startJob" /\ run'[w].ent = run[w].ent /\ run'[w].msg = run[w].msg
         /\ run' = [run EXCEPT ![w] = run'[w]]
<1>0. run \in [Workers -> Run]
  BY DEF LifecycleInv, LifecycleTypeOK
<1>1. CASE Setup(w) \/ CheckTransition(w) \/ WriteTransition(w) \/ Index(w)
  <2>1. \/ \E goal \in RepositoryStatuses : Update(w, goal)
        \/ \E pc \in {"setup", "clone", "index", "write", "completeJob", "failJob"} :
             Goto(w, pc)
    BY <1>1 DEF Setup, CheckTransition, WriteTransition, Index, Accepted, Refused,
       RepositoryStatuses
  <2> QED BY <1>0, <1>1, <2>1 DEF Setup, CheckTransition, WriteTransition, Index,
          Goto, Update, Run
<1>2. CASE ReadRepository(w)
  BY <1>0, <1>2 DEF ReadRepository, Goto, Run
<1>3. CASE Clone(w)
  <2>1. CASE Update(w, "failed")
    BY <1>0, <1>3, <2>1 DEF Clone, Update, Run
  <2>2. CASE ~Update(w, "failed")
    <3> DEFINE fresh == {r \in Requests : api[r] # "new"}
               pc == IF run[w].stale = "processing" THEN "index" ELSE "read"
    <3>1. run' = [run EXCEPT ![w].fresh = fresh, ![w].pc = pc, ![w].goal = "processing"]
      BY <1>3, <2>2 DEF Clone
    <3>2. pc # "startJob"
      OBVIOUS
    <3> HIDE DEF fresh, pc
    <3>3. run'[w] = [run[w] EXCEPT !.fresh = fresh, !.pc = pc, !.goal = "processing"]
      BY <1>0, <3>1 DEF Run
    <3>4. run' = [run EXCEPT ![w] = run'[w]]
      BY <1>0, <3>1, <3>3
    <3>5. run[w].pc = "clone" /\ UNCHANGED <<msgs, jobs>> /\ run[w] \in Run
      BY <1>0, <1>3 DEF Clone
    <3> QED BY <3>2, <3>3, <3>4, <3>5 DEF Run
  <2> QED BY <2>1, <2>2
<1> QED BY <1>1, <1>2, <1>3 DEF Pipeline

LEMMA OpenStep ==
  ASSUME OneWorker, LifecycleInv, PostedOK, OpenOK, [Next]_vars
  PROVE  OpenOK'
<1>1. CASE Asks
  <2>1. PICK q \in Requests : FindRepository(q) \/ RequestStep(q) \/ SyncFind(q)
    BY <1>1 DEF Asks
  <2>2. /\ UNCHANGED run
        /\ \A r \in Requests : jobs'[r] = jobs[r] \/ jobs'[r].status = "pending"
    BY <2>1 DEF FindRepository, RequestStep, InsertRepository, ResetRepository, SaveJob,
       SaveJobRow, PublishJob, SyncFind, LifecycleInv, LifecycleTypeOK
  <2> QED BY <2>2, OpenKept
<1>2. CASE Removes \/ SyncPublish \/ Ages \/ UNCHANGED vars
  BY <1>2, OpenKept DEF Ages, Expire, Removes, DeleteFind, DeleteArchive, SyncPublish, vars
<1>3. CASE Delivers
  <2> PICK w \in Workers, m \in Messages : Deliver(w, m)
    BY <1>3 DEF Delivers
  <2> DEFINE g == [Idle EXCEPT !.pc = "loadJob", !.msg = m]
  <2>1. run' = [run EXCEPT ![w] = g] /\ g.pc = "loadJob" /\ g.ent = "none"
    BY DEF Deliver, Idle
  <2> HIDE DEF g
  <2> QED BY <2>1, OpenMoves
<1>4. CASE \E w \in Workers : Works(w)
  <2> PICK w \in Workers : Works(w)
    BY <1>4
  <2>1. run \in [Workers -> Run] /\ jobs \in [Requests -> JobRow]
    BY DEF LifecycleInv, LifecycleTypeOK
  <2>2. CASE LoadJob(w)
    <3>1. /\ JobOf(w) \in Requests /\ run[w].msg = run'[w].msg /\ UNCHANGED <<msgs, jobs>>
          /\ run' = [run EXCEPT ![w] = run'[w]]
      BY <2>1, <2>2, Working DEF LoadJob, Goto, Run
    <3>2. CASE jobs[JobOf(w)].status \in {"completed", "failed"}
      <4>1. run'[w].pc = "readRepo" /\ run'[w].ent \in {run[w].ent, jobs[JobOf(w)].status}
        BY <2>1, <2>2, <3>2 DEF LoadJob, Goto, Run
      <4>2. CASE run[w].ent = "running"
        BY <2>2, <3>2, <4>2 DEF LoadJob, OpenOK, HoldsOpenJob, Ended
      <4>3. CASE run[w].ent # "running"
        BY <3>1, <3>2, <4>1, <4>3, OpenMoves
      <4> QED BY <4>2, <4>3
    <3>3. CASE jobs[JobOf(w)].status \notin {"completed", "failed"}
      BY <3>1, <3>3, OpenMoves DEF JobOf
    <3> QED BY <3>2, <3>3
  <2>3. CASE StartJob(w)
    <3>1. /\ JobOf(w) \in Requests /\ run[w].msg = run'[w].msg /\ UNCHANGED msgs
          /\ run' = [run EXCEPT ![w] = run'[w]]
      BY <2>1, <2>3, Working DEF StartJob, Goto, Run
    <3>2. jobs'[JobOf(w)].status \notin {"completed", "failed"}
      BY <2>1, <2>3, <3>1
         DEF StartJob, SaveJobRow, OpenOK, HoldsOpenJob, Ended
    <3> QED BY <3>1, <3>2, OpenMoves DEF JobOf
  <2>4. CASE EndJob(w) \/ Settle(w) \/ TimeOut(w) \/ Crash(w) \/ Restart(w)
    <3>1. /\ run'[w].pc \in {"down", "idle", "ack", "nak"}
          /\ run' = [run EXCEPT ![w] = run'[w]]
      BY <2>1, <2>4 DEF EndJob, Settle, TimeOut, Crash, Restart, Goto, Idle, Run
    <3> QED BY <3>1, OpenMoves
  <2>5. CASE Pipeline(w)
    <3>1. /\ run[w].pc \notin {"down", "idle", "ack", "nak"} /\ UNCHANGED <<msgs, jobs>>
          /\ run'[w].pc # "startJob" /\ run'[w].ent = run[w].ent /\ run'[w].msg = run[w].msg
          /\ run' = [run EXCEPT ![w] = run'[w]]
      BY <2>5, Pipelines DEF Pipeline
    <3>2. CASE run[w].ent = "running"
      BY <3>1, <3>2, OpenMoves DEF OpenOK, HoldsOpenJob, Ended, JobOf
    <3>3. CASE run[w].ent # "running"
      BY <3>1, <3>3, OpenMoves
    <3> QED BY <3>2, <3>3
  <2> QED BY <2>2, <2>3, <2>4, <2>5 DEF Works, WorkerStep, Pipeline
<1> QED BY <1>1, <1>2, <1>3, <1>4, Steps

\* Only a job whose end has not been written is written.
LEMMA EndedStep ==
  ASSUME LifecycleInv, PostedOK, OpenOK, [Next]_vars, NEW r \in Requests, Ended(r)
  PROVE  jobs'[r] = jobs[r]
<1>1. jobs \in [Requests -> JobRow] /\ jobs[r] # NoJobRow
  BY DEF LifecycleInv, LifecycleTypeOK, Ended, NoJobRow
<1>2. CASE Asks
  BY <1>1, <1>2 DEF Asks, FindRepository, RequestStep, InsertRepository, ResetRepository,
     SaveJob, SaveJobRow, PublishJob, SyncFind, PostedOK, Posted
<1>3. CASE Removes \/ SyncPublish \/ Delivers \/ Ages \/ UNCHANGED vars
  BY <1>3 DEF Ages, Expire, Removes, DeleteFind, DeleteArchive, SyncPublish, Delivers, Deliver, vars
<1>4. CASE \E w \in Workers : Works(w)
  <2> PICK w \in Workers : Works(w)
    BY <1>4
  <2>1. CASE StartJob(w) \/ EndJob(w)
    BY <1>1, <2>1 DEF StartJob, EndJob, SaveJobRow, OpenOK, HoldsOpenJob, Ended
  <2>2. CASE ~StartJob(w) /\ ~EndJob(w)
    BY <2>2 DEF Works, WorkerStep, LoadJob, ReadRepository, Setup, CheckTransition,
       WriteTransition, Clone, Index, Settle, TimeOut, Crash, Restart
  <2> QED BY <2>1, <2>2
<1> QED BY <1>2, <1>3, <1>4, Steps

-----------------------------------------------------------------------------
(* A job agrees with the repository.                                       *)

\* A worker elsewhere has no belief about the repository.
LEMMA PlainSeen ==
  ASSUME NEW g, NEW status,
         g.pc \notin {"setup", "clone", "index", "completeJob", "read", "write"}
  PROVE  StatusSeen(g, status)
BY DEF StatusSeen

\* A worker with a message keeps its job, which is posted.
LEMMA JobStays ==
  ASSUME LifecycleInv, PostedOK, [Next]_vars, NEW w \in Workers,
         run[w].pc \notin {"down", "idle"}, run'[w].msg = run[w].msg
  PROVE  /\ JobOf(w) \in Requests /\ JobOf(w)' = JobOf(w) /\ Posted(JobOf(w))
<1>1. JobOf(w) # 0 /\ JobOf(w) \in Requests /\ run[w] \in Run
  BY Working
<1> QED BY <1>1, MessagesStep DEF JobsKept, JobOf, Run, PostedOK

\* Steps of others: they leave the status, or archive, or are another request's.
LEMMA SeenKept ==
  ASSUME LifecycleInv, PostedOK, SeenOK, [Next]_vars, UNCHANGED run,
         \/ repo' \in {repo, "archived"}
         \/ \E q \in Requests : ~Posted(q) /\ api'[q] # "new",
         \A r \in Requests : jobs'[r] = jobs[r] \/ ~jobs'[r].counted
  PROVE  SeenOK'
<1>1. ASSUME NEW r \in Requests, Posted(r), Alone(r)'
      PROVE  Alone(r) /\ repo' \in {repo, "archived"}
  BY <1>1, AloneBefore DEF Alone
<1>2. JobAgreesWithRepository'
  <2> SUFFICES ASSUME NEW r \in Requests, jobs'[r].counted, Alone(r)'
               PROVE  repo' \in {"completed", "archived"}
    BY DEF JobAgreesWithRepository, Alone, Untroubled
  <2>1. jobs[r].counted /\ Posted(r)
    BY DEF PostedOK, NoJobRow
  <2>2. Alone(r) /\ repo' \in {repo, "archived"}
    BY <1>1, <2>1
  <2>3. repo \in {"completed", "archived"}
    BY <2>1, <2>2 DEF SeenOK, JobAgreesWithRepository, Alone, Untroubled
  <2> QED BY <2>2, <2>3
<1>3. ASSUME NEW w \in Workers, Alone(JobOf(w))'
      PROVE  StatusSeen(run[w], repo)'
  <2>1. CASE run[w].pc \in {"down", "idle"}
    BY <2>1 DEF StatusSeen
  <2>2. CASE run[w].pc \notin {"down", "idle"}
    <3>1. JobOf(w) \in Requests /\ JobOf(w)' = JobOf(w) /\ Posted(JobOf(w))
      BY <2>2, JobStays
    <3>2. Alone(JobOf(w))' <=>
            Untroubled' /\ \A q \in Requests : q # JobOf(w) => api'[q] = "new"
      BY <3>1 DEF Alone
    <3>3. Alone(JobOf(w)) /\ repo' \in {repo, "archived"}
      BY <1>1, <1>3, <3>1, <3>2 DEF Alone
    <3>4. StatusSeen(run[w], repo)
      BY <3>3 DEF SeenOK
    <3> QED BY <3>3, <3>4 DEF StatusSeen
  <2> QED BY <2>1, <2>2
<1> QED BY <1>2, <1>3 DEF SeenOK

\* A worker's steps: only the one that has indexed lets its job count chunks, and
\* it has seen the repository completed.
LEMMA AgreesMoves ==
  ASSUME LifecycleInv, PostedOK, SeenOK, [Next]_vars, NEW w \in Workers,
         \/ repo' = repo
         \/ run[w].pc = "write" /\ Visible /\ JobOf(w)' = JobOf(w),
         \A r \in Requests :
           \/ jobs'[r] = jobs[r] \/ ~jobs'[r].counted
           \/ r = JobOf(w) /\ run[w].pc = "completeJob" /\ repo' = repo
  PROVE  JobAgreesWithRepository'
<1> SUFFICES ASSUME NEW r \in Requests, jobs'[r].counted, Alone(r)'
             PROVE  repo' \in {"completed", "archived"}
  BY DEF JobAgreesWithRepository, Alone, Untroubled
<1>1. Alone(r)
  BY AloneBefore
<1>2. CASE jobs'[r] = jobs[r]
  <2>1. repo \in {"completed", "archived"}
    BY <1>1, <1>2 DEF SeenOK, JobAgreesWithRepository, Alone, Untroubled
  <2>2. CASE run[w].pc = "write" /\ Visible
    <3>1. JobOf(w) \in Requests /\ api[JobOf(w)] # "new"
      BY <2>2, Working
    <3>2. StatusSeen(run[w], repo)
      BY <1>1, <3>1 DEF Alone, SeenOK
    <3> QED BY <2>1, <2>2, <3>2 DEF StatusSeen, Visible
  <2> QED BY <2>1, <2>2
<1>3. CASE r = JobOf(w) /\ run[w].pc = "completeJob" /\ repo' = repo
  <2>1. StatusSeen(run[w], repo)
    BY <1>1, <1>3 DEF SeenOK
  <2> QED BY <1>3, <2>1 DEF StatusSeen
<1> QED BY <1>2, <1>3

\* It is enough to look at the worker that moves, in the runs nothing troubled.
LEMMA SeenMoves ==
  ASSUME OneWorker, LifecycleInv, PostedOK, SeenOK, [Next]_vars, NEW w \in Workers,
         run[w].pc \notin {"down", "idle"}, run'[w].msg = run[w].msg,
         JobAgreesWithRepository',
         Untroubled' /\ StatusSeen(run[w], repo) => StatusSeen(run'[w], repo')
  PROVE  SeenOK'
<1>1. JobOf(w) \in Requests /\ JobOf(w)' = JobOf(w)
  BY JobStays
<1>2. ASSUME Alone(JobOf(w))'
      PROVE  StatusSeen(run'[w], repo')
  <2>1. Untroubled' /\ \A q \in Requests : q # JobOf(w) => api'[q] = "new"
    BY <1>1, <1>2 DEF Alone
  <2>2. Alone(JobOf(w))
    BY <1>1, <2>1, RequestsMoveOn, TroublesStay DEF Alone
  <2> QED BY <2>1, <2>2 DEF SeenOK
<1>3. \A v \in Workers : v = w
  BY DEF OneWorker
<1> QED BY <1>2, <1>3 DEF SeenOK

\* A worker that gives up its message, or has none, believes nothing.
LEMMA SeenReleased ==
  ASSUME OneWorker, NEW w \in Workers, JobAgreesWithRepository',
         run'[w].pc \notin {"setup", "clone", "index", "completeJob", "read", "write"}
  PROVE  SeenOK'
BY PlainSeen DEF SeenOK, OneWorker

\* A fault is trouble.
LEMMA FaultTroubles ==
  ASSUME LifecycleInv, Fault
  PROVE  ~Untroubled'
BY DEF LifecycleInv, LifecycleTypeOK, BoundsOK, Fault, Untroubled

\* What the worker believes after each of its steps that leaves it a belief.
LEMMA ReadRepositorySeen ==
  ASSUME LifecycleInv, NEW w \in Workers, ReadRepository(w), Untroubled'
  PROVE  StatusSeen(run'[w], repo')
<1>1. run \in [Workers -> Run] /\ repo' = repo /\ ~Fault
  BY FaultTroubles DEF ReadRepository, LifecycleInv, LifecycleTypeOK
<1>2. CASE Goto(w, "failJob") \/ Goto(w, "skipJob")
  BY <1>1, <1>2, PlainSeen DEF Goto, Run
<1>3. CASE /\ repo = "failed"
           /\ run' = [run EXCEPT ![w].stale = repo, ![w].pc = "read", ![w].goal = "pending"]
  BY <1>1, <1>3 DEF StatusSeen, Run
<1>4. CASE /\ repo \in {"pending", "cloning", "processing"}
           /\ run' = [run EXCEPT ![w].stale = repo, ![w].pc = "setup"]
  BY <1>1, <1>4 DEF StatusSeen, Run
<1> QED BY <1>1, <1>2, <1>3, <1>4 DEF ReadRepository

LEMMA SetupSeen ==
  ASSUME LifecycleInv, NEW w \in Workers, Setup(w), StatusSeen(run[w], repo)
  PROVE  StatusSeen(run'[w], repo')
<1>1. run \in [Workers -> Run] /\ repo' = repo /\ run[w].pc = "setup"
  BY DEF Setup, LifecycleInv, LifecycleTypeOK
<1>2. CASE run[w].stale \in {"cloning", "processing"} /\ Goto(w, "clone")
  BY <1>1, <1>2 DEF StatusSeen, Goto, Run
<1>3. CASE run[w].stale \notin {"cloning", "processing"} /\ Update(w, "cloning")
  BY <1>1, <1>3 DEF StatusSeen, Update, Run
<1>4. CASE Update(w, "failed")
  BY <1>1, <1>4 DEF StatusSeen, Update, Run
<1> QED BY <1>2, <1>3, <1>4 DEF Setup

LEMMA CloneSeen ==
  ASSUME LifecycleInv, NEW w \in Workers, Clone(w), StatusSeen(run[w], repo)
  PROVE  StatusSeen(run'[w], repo')
<1>1. run \in [Workers -> Run] /\ repo' = repo /\ run[w].pc = "clone"
  BY DEF Clone, LifecycleInv, LifecycleTypeOK
<1>2. CASE Update(w, "failed")
  BY <1>1, <1>2 DEF StatusSeen, Update, Run
<1>3. CASE ~Update(w, "failed")
  <2> DEFINE fresh == {r \in Requests : api[r] # "new"}
             pc == IF run[w].stale = "processing" THEN "index" ELSE "read"
  <2>1. run' = [run EXCEPT ![w].fresh = fresh, ![w].pc = pc, ![w].goal = "processing"]
    BY <1>3 DEF Clone
  <2> HIDE DEF fresh
  <2>2. run'[w] = [run[w] EXCEPT !.fresh = fresh, !.pc = pc, !.goal = "processing"]
    BY <1>1, <2>1 DEF Run
  <2> QED BY <1>1, <2>2 DEF StatusSeen, Run
<1> QED BY <1>2, <1>3

LEMMA IndexSeen ==
  ASSUME LifecycleInv, NEW w \in Workers, Index(w), StatusSeen(run[w], repo)
  PROVE  StatusSeen(run'[w], repo')
<1>1. run \in [Workers -> Run] /\ repo' = repo /\ run[w].pc = "index"
  BY DEF Index, LifecycleInv, LifecycleTypeOK
<1>2. PICK goal \in {"completed", "failed"} : Update(w, goal)
  BY DEF Index
<1> QED BY <1>1, <1>2 DEF StatusSeen, Update, Run

LEMMA CheckTransitionSeen ==
  ASSUME LifecycleInv, NEW w \in Workers, CheckTransition(w), StatusSeen(run[w], repo),
         Untroubled'
  PROVE  StatusSeen(run'[w], repo')
<1>1. run \in [Workers -> Run] /\ repo' = repo /\ run[w].pc = "read" /\ ~Fault
  BY FaultTroubles DEF CheckTransition, LifecycleInv, LifecycleTypeOK
<1>2. CASE Goto(w, "write")
  BY <1>1, <1>2 DEF StatusSeen, Goto, Run
<1>3. CASE ~(Visible /\ run[w].goal \in Transitions[repo]) /\ Refused(w)
  <2>1. repo = "archived"
    BY <1>1, <1>3 DEF StatusSeen, Visible, Transitions, RepositoryStatuses
  <2> QED BY <1>1, <2>1 DEF StatusSeen
<1> QED BY <1>1, <1>2, <1>3 DEF CheckTransition

LEMMA WriteTransitionSeen ==
  ASSUME LifecycleInv, NEW w \in Workers, WriteTransition(w), StatusSeen(run[w], repo),
         Untroubled'
  PROVE  StatusSeen(run'[w], repo')
<1>1. run \in [Workers -> Run] /\ run[w].pc = "write" /\ ~Fault
  BY FaultTroubles DEF WriteTransition, LifecycleInv, LifecycleTypeOK
<1>2. CASE UpdateRepository(run[w].goal) /\ Accepted(w)
  <2>1. Visible /\ repo' = run[w].goal
    BY <1>2 DEF UpdateRepository
  <2>2. \/ run[w].goal = "pending" /\ run[w].stale = "failed" /\ Goto(w, "setup")
        \/ /\ run[w].goal = "cloning" /\ run[w].stale \in {"pending", "failed"}
           /\ Goto(w, "clone")
        \/ run[w].goal = "processing" /\ Goto(w, "index")
        \/ run[w].goal = "completed" /\ Goto(w, "completeJob")
        \/ run[w].goal = "failed" /\ Goto(w, "failJob")
    BY <1>1, <1>2, <2>1 DEF StatusSeen, Visible, Accepted
  <2> QED BY <1>1, <2>1, <2>2 DEF StatusSeen, Goto, Run
<1>3. CASE ~Visible /\ Refused(w) /\ UNCHANGED repo
  <2>1. repo = "archived"
    BY <1>1, <1>3 DEF StatusSeen, Visible
  <2> QED BY <1>3, <2>1 DEF StatusSeen
<1> QED BY <1>1, <1>2, <1>3 DEF WriteTransition

LEMMA SeenStep ==
  ASSUME OneWorker, LifecycleInv, PostedOK, SeenOK, [Next]_vars
  PROVE  SeenOK'
<1>0. run \in [Workers -> Run] /\ jobs \in [Requests -> JobRow]
  BY DEF LifecycleInv, LifecycleTypeOK
<1>1. CASE Asks
  <2>1. PICK q \in Requests : FindRepository(q) \/ RequestStep(q) \/ SyncFind(q)
    BY <1>1 DEF Asks
  <2>2. UNCHANGED run /\ \A r \in Requests : jobs'[r] = jobs[r] \/ ~jobs'[r].counted
    BY <1>0, <2>1 DEF FindRepository, RequestStep, InsertRepository, ResetRepository,
       SaveJob, SaveJobRow, PublishJob, SyncFind
  <2>3. CASE InsertRepository(q) \/ ResetRepository(q)
    <3>1. ~Posted(q) /\ api'[q] # "new"
      BY <2>3, RequestsMoveOn DEF InsertRepository, ResetRepository, Posted
    <3> QED BY <2>2, <3>1, SeenKept
  <2>4. CASE ~InsertRepository(q) /\ ~ResetRepository(q)
    <3>1. repo' = repo
      BY <2>1, <2>4 DEF FindRepository, RequestStep, SaveJob, PublishJob, SyncFind
    <3> QED BY <2>2, <3>1, SeenKept
  <2> QED BY <2>3, <2>4
<1>2. CASE Removes \/ SyncPublish \/ Ages \/ UNCHANGED vars
  <2>1. UNCHANGED <<run, jobs>> /\ repo' \in {repo, "archived"}
    BY <1>2 DEF Ages, Expire, Removes, DeleteFind, DeleteArchive, UpdateRepository, SyncPublish, vars
  <2> QED BY <2>1, SeenKept
<1>3. CASE Delivers
  <2> PICK w \in Workers, m \in Messages : Deliver(w, m)
    BY <1>3 DEF Delivers
  <2>1. run'[w].pc = "loadJob" /\ UNCHANGED <<repo, jobs>>
    BY <1>0 DEF Deliver, Idle
  <2>2. JobAgreesWithRepository'
    BY <2>1, AgreesMoves
  <2> QED BY <2>1, <2>2, SeenReleased
<1>4. CASE \E w \in Workers : Works(w)
  <2> PICK w \in Workers : Works(w)
    BY <1>4
  <2>1. CASE Pipeline(w)
    <3>1. run[w].pc \notin {"down", "idle"} /\ UNCHANGED jobs /\ run'[w].msg = run[w].msg
      BY <2>1, Pipelines
    <3>2. repo' = repo \/ (run[w].pc = "write" /\ Visible)
      BY <2>1 DEF Pipeline, ReadRepository, Setup, CheckTransition, WriteTransition,
         UpdateRepository, Clone, Index
    <3>3. JobAgreesWithRepository'
      BY <3>1, <3>2, JobStays, AgreesMoves
    <3>4. Untroubled' /\ StatusSeen(run[w], repo) => StatusSeen(run'[w], repo')
      BY <2>1, ReadRepositorySeen, SetupSeen, CheckTransitionSeen, WriteTransitionSeen,
         CloneSeen, IndexSeen DEF Pipeline
    <3> QED BY <3>1, <3>3, <3>4, SeenMoves
  <2>2. CASE LoadJob(w) \/ StartJob(w)
    <3>1. run'[w].pc \in {"startJob", "readRepo"} /\ UNCHANGED repo
      BY <1>0, <2>2 DEF LoadJob, StartJob, Goto, Run
    <3>2. \A r \in Requests : jobs'[r] = jobs[r] \/ ~jobs'[r].counted
      BY <1>0, <2>2 DEF LoadJob, StartJob, SaveJobRow
    <3>3. JobAgreesWithRepository'
      BY <3>1, <3>2, AgreesMoves
    <3> QED BY <3>1, <3>3, SeenReleased
  <2>3. CASE EndJob(w) \/ Settle(w) \/ TimeOut(w) \/ Crash(w) \/ Restart(w)
    <3>1. run'[w].pc \in {"down", "idle", "ack", "nak"} /\ UNCHANGED repo
      BY <1>0, <2>3 DEF EndJob, Settle, TimeOut, Crash, Restart, Goto, Idle, Run
    <3>2. \A r \in Requests :
            \/ jobs'[r] = jobs[r] \/ ~jobs'[r].counted
            \/ r = JobOf(w) /\ run[w].pc = "completeJob" /\ repo' = repo
      <4>1. CASE EndJob(w)
        <5>1. UNCHANGED jobs \/ SaveJobRow(JobOf(w), "completed", FALSE)
              \/ SaveJobRow(JobOf(w), "failed", FALSE) \/ run[w].pc = "completeJob"
          BY <4>1 DEF EndJob
        <5>2. \A r \in Requests : jobs'[r] = jobs[r] \/ r = JobOf(w)
          BY <1>0, <4>1 DEF EndJob, SaveJobRow
        <5> QED BY <1>0, <3>1, <5>1, <5>2 DEF SaveJobRow
      <4>2. CASE ~EndJob(w)
        BY <2>3, <4>2 DEF Settle, TimeOut, Crash, Restart
      <4> QED BY <4>1, <4>2
    <3>3. JobAgreesWithRepository'
      BY <3>1, <3>2, AgreesMoves
    <3> QED BY <3>1, <3>3, SeenReleased
  <2> QED BY <2>1, <2>2, <2>3 DEF Works, WorkerStep, Pipeline
<1> QED BY <1>1, <1>2, <1>3, <1>4, Steps

-----------------------------------------------------------------------------
(* The theorems.                                                           *)

LEMMA InitOneWorkerInv == Init => OneWorkerInv
<1> SUFFICES ASSUME Init
             PROVE  OneWorkerInv
  OBVIOUS
<1>1. PostedOK
  BY DEF Init, PostedOK, NoMessage
<1>2. OpenOK
  BY DEF Init, OpenOK, HoldsOpenJob, Idle
<1>3. SeenOK
  BY DEF Init, SeenOK, JobAgreesWithRepository, NoJobRow, StatusSeen, Idle
<1> QED BY <1>1, <1>2, <1>3 DEF OneWorkerInv

LEMMA NextOneWorkerInv ==
  ASSUME OneWorker, LifecycleInv, OneWorkerInv, [Next]_vars
  PROVE  OneWorkerInv'
BY PostedStep, OpenStep, SeenStep DEF OneWorkerInv

\* What one worker believes of its job and of the repository is true: nobody else
\* changes them between its reads and its writes but a removal.
THEOREM OneWorkerConsistent ==
  ASSUME OneWorker
  PROVE  Spec => []OneWorkerInv
<1>1. LifecycleInv /\ OneWorkerInv /\ [Next]_vars => OneWorkerInv'
  BY NextOneWorkerInv
<1> QED BY <1>1, InitOneWorkerInv, LifecycleConsistent, PTL DEF Spec

\* persistJobComplete reports chunks only after markRepositoryCompleted, so the
\* repository is completed too, or archived since.
THEOREM JobAgrees ==
  ASSUME OneWorker
  PROVE  Spec => []JobAgreesWithRepository
<1>1. OneWorkerInv => JobAgreesWithRepository
  BY DEF OneWorkerInv, SeenOK
<1> QED BY <1>1, OneWorkerConsistent, PTL

\* No redelivery, crash, removal or message published again makes the worker write
\* the row of a job that has ended: persistJobStart leaves it as it is.
THEOREM EndsOnce ==
  ASSUME OneWorker
  PROVE  Spec => JobEndsOnce
<1>1. LifecycleInv /\ OneWorkerInv /\ [Next]_vars
        => [\A r \in Requests : Ended(r) => jobs'[r] = jobs[r]]_vars
  BY EndedStep DEF OneWorkerInv
<1>2. Spec => []LifecycleInv /\ []OneWorkerInv
  BY LifecycleConsistent, OneWorkerConsistent
<1> QED BY <1>1, <1>2, PTL DEF Spec, JobEndsOnce

-----------------------------------------------------------------------------
(* The refinement of DeliveryPromise.                                      *)

\* A message on the stream, and how often it has been delivered.
StateOf(m) == IF msgs[m].job = 0 THEN "unpublished"
              ELSE CASE msgs[m].gone = "no"      -> "stored"
                     [] msgs[m].gone = "acked"   -> "removed"
                     [] msgs[m].gone = "expired" -> "expired"
CountOf(m) == IF Stored(m) THEN MaxDeliver - msgs[m].left ELSE 0

HoldsNow(w, m) == run[w].pc \notin {"down", "idle"} /\ run[w].msg = m
ReadyNow(w, m) == run[w].pc = "ack" /\ run[w].msg = m

\* A worker that moves while the others stay.
OnlyWorker(w) == \A v \in Workers \ {w} : run'[v] = run[v]

LEMMA HeldBy ==
  /\ \A m \in Messages : m \in InHand <=> \E w \in Workers : HoldsNow(w, m)
  /\ \A m \in Messages : m \in Processed <=> \E w \in Workers : ReadyNow(w, m)
  /\ InHand \subseteq Messages /\ Processed \subseteq Messages
BY DEF InHand, Processed, HoldsNow, ReadyNow

LEMMA HeldByThen ==
  /\ \A m \in Messages : m \in InHand' <=> \E w \in Workers : HoldsNow(w, m)'
  /\ \A m \in Messages : m \in Processed' <=> \E w \in Workers : ReadyNow(w, m)'
  /\ InHand' \subseteq Messages /\ Processed' \subseteq Messages
BY DEF InHand, Processed, HoldsNow, ReadyNow

LEMMA Dropped ==
  ASSUME UNCHANGED msgs, InHand' \subseteq InHand, Processed' \subseteq Processed
  PROVE  Delivery!Next
BY DEF Delivery!Next, Delivery!Drop, Delivery!Drops, Stored

\* A run that goes on keeps its message; where it goes to its Ack it has ended well.
LEMMA GoesOn ==
  ASSUME LifecycleInv, NEW w \in Workers, OnlyWorker(w), UNCHANGED msgs,
         run[w].pc \notin {"down", "idle", "ack"}, run'[w].pc \notin {"down", "idle"},
         run'[w].msg = run[w].msg
  PROVE  Delivery!Next
<1> DEFINE k == run[w].msg
<1>1. k \in Messages
  BY DEF LifecycleInv, LifecycleTypeOK, Run
<1>2. \A v \in Workers, m \in Messages : HoldsNow(v, m)' <=> HoldsNow(v, m)
  BY DEF OnlyWorker, HoldsNow
<1>3. InHand' = InHand
  BY <1>2, HeldBy, HeldByThen
<1>4. \A v \in Workers, m \in Messages :
        ReadyNow(v, m)' <=> ReadyNow(v, m) \/ (v = w /\ m = k /\ run'[w].pc = "ack")
  BY DEF OnlyWorker, ReadyNow
<1>5. CASE run'[w].pc = "ack"
  <2> HIDE DEF k
  <2>1. Processed' = Processed \cup {k}
    BY <1>1, <1>4, <1>5, HeldBy, HeldByThen
  <2>2. k \in InHand
    BY <1>1, HeldBy DEF HoldsNow, k
  <2>3. Delivery!Succeed({k})
    BY <1>3, <2>1, <2>2 DEF Delivery!Succeed, Stored
  <2> QED BY <1>1, <2>3 DEF Delivery!Next
<1>6. CASE run'[w].pc # "ack"
  <2>1. Processed' = Processed
    BY <1>4, <1>6, HeldBy, HeldByThen
  <2> QED BY <1>3, <2>1, Dropped
<1> QED BY <1>5, <1>6

\* Requests and the sync move no worker.
LEMMA PublishDelivers ==
  ASSUME LifecycleInv, NEW r \in Requests, PublishIndexingJob(r), UNCHANGED run
  PROVE  Delivery!Next
<1>1. PICK m \in Messages :
        /\ msgs[m].job = 0
        /\ msgs' = [msgs EXCEPT ![m] = [job |-> r, left |-> MaxDeliver, gone |-> "no"]]
  BY DEF PublishIndexingJob
<1>2. msgs \in [Messages -> Message] /\ r # 0 /\ MaxDeliver \in Nat
  BY LifecycleAssumption DEF LifecycleInv, LifecycleTypeOK, Requests
<1>3. InHand' = InHand /\ Processed' = Processed
  BY DEF InHand, Processed
<1>4. StateOf(m) = "unpublished" /\ StateOf(m)' = "stored" /\ CountOf(m) = 0 /\ CountOf(m)' = 0
  BY <1>1, <1>2 DEF StateOf, CountOf, Stored
<1>5. \A k \in Messages \ {m} : StateOf(k)' = StateOf(k) /\ CountOf(k)' = CountOf(k)
  <2> TAKE k \in Messages \ {m}
  <2>1. msgs'[k] = msgs[k]
    BY <1>1, <1>2
  <2> QED BY <2>1 DEF StateOf, CountOf, Stored
<1>6. Delivery!Publish(m)
  <2>1. [k \in Messages |-> StateOf(k)'] = [[k \in Messages |-> StateOf(k)] EXCEPT ![m] = "stored"]
    BY <1>4, <1>5
  <2>2. [k \in Messages |-> CountOf(k)'] = [k \in Messages |-> CountOf(k)]
    BY <1>4, <1>5
  <2> QED BY <1>3, <1>4, <2>1, <2>2 DEF Delivery!Publish, StateOf, CountOf
<1> QED BY <1>6 DEF Delivery!Next

LEMMA DeliverDelivers ==
  ASSUME LifecycleInv, NEW w \in Workers, NEW m \in Messages, Deliver(w, m)
  PROVE  Delivery!Next
<1>1. /\ msgs \in [Messages -> Message] /\ run \in [Workers -> Run]
      /\ msgs[m].left \in 1..MaxDeliver /\ MaxDeliver \in Nat
  BY LifecycleAssumption DEF LifecycleInv, LifecycleTypeOK, Deliver, Stored, Message
<1>2. StateOf(m) = "stored" /\ CountOf(m) < MaxDeliver /\ CountOf(m)' = CountOf(m) + 1
  BY <1>1 DEF Deliver, StateOf, CountOf, Stored, Message
<1>3. \A k \in Messages : StateOf(k)' = StateOf(k) /\ (k # m => CountOf(k)' = CountOf(k))
  BY <1>1 DEF Deliver, StateOf, CountOf, Stored, Message
<1>4. OnlyWorker(w) /\ run'[w].pc = "loadJob" /\ run'[w].msg = m /\ run[w].pc = "idle"
  BY <1>1 DEF Deliver, OnlyWorker, Idle
<1>5. \A v \in Workers, k \in Messages :
        /\ HoldsNow(v, k)' <=> HoldsNow(v, k) \/ (v = w /\ k = m)
        /\ ReadyNow(v, k)' <=> ReadyNow(v, k)
  BY <1>4 DEF OnlyWorker, HoldsNow, ReadyNow
<1>6. InHand' = InHand \cup {m} /\ Processed' = Processed
  BY <1>5, HeldBy, HeldByThen
<1>7. Delivery!Deliver({m})
  <2>1. [k \in Messages |-> StateOf(k)'] = [k \in Messages |-> StateOf(k)]
    BY <1>3
  <2>2. [k \in Messages |-> CountOf(k)']
          = [k \in Messages |-> IF k \in {m} THEN CountOf(k) + 1 ELSE CountOf(k)]
    BY <1>2, <1>3
  <2> QED BY <1>2, <1>6, <2>1, <2>2 DEF Delivery!Deliver, StateOf, CountOf
<1> QED BY <1>7 DEF Delivery!Next

\* What an Ack removes is in the hands of the worker that sends it, its run ended well.
LEMMA SettleDelivers ==
  ASSUME LifecycleInv, NEW w \in Workers, Settle(w)
  PROVE  Delivery!Next
<1>0. run[w].msg \in Messages
  BY DEF LifecycleInv, LifecycleTypeOK, Run
<1> PICK m \in Messages : m = run[w].msg
  BY <1>0
<1>1. /\ msgs \in [Messages -> Message] /\ run \in [Workers -> Run] /\ msgs[m].job # 0
  BY Working DEF LifecycleInv, LifecycleTypeOK, Settle, JobOf
<1>2. OnlyWorker(w) /\ run'[w].pc = "idle"
  BY <1>1 DEF Settle, OnlyWorker, Idle
<1>3. \A v \in Workers, k \in Messages :
        (HoldsNow(v, k)' => HoldsNow(v, k)) /\ (ReadyNow(v, k)' => ReadyNow(v, k))
  BY <1>2 DEF OnlyWorker, HoldsNow, ReadyNow
<1>4. InHand' \subseteq InHand /\ Processed' \subseteq Processed
  BY <1>3, HeldBy, HeldByThen
<1>5. CASE UNCHANGED msgs
  BY <1>4, <1>5, Dropped
<1>6. CASE run[w].pc = "ack" /\ msgs' = Acknowledged(m) /\ msgs[m].gone # "no"
  <2>1. msgs' = msgs
    BY <1>1, <1>6 DEF Acknowledged, Message
  <2> QED BY <1>4, <2>1, Dropped
<1>7. CASE run[w].pc = "ack" /\ msgs' = Acknowledged(m) /\ msgs[m].gone = "no"
  <2>1. m \in Processed
    BY <1>1, <1>7, HeldBy DEF ReadyNow
  <2>2. \A k \in Messages \ {m} : StateOf(k)' = StateOf(k) /\ CountOf(k)' = CountOf(k)
    <3> TAKE k \in Messages \ {m}
    <3>1. msgs'[k] = msgs[k]
      BY <1>1, <1>7 DEF Acknowledged
    <3> QED BY <3>1 DEF StateOf, CountOf, Stored
  <2>3. StateOf(m) = "stored" /\ StateOf(m)' = "removed" /\ CountOf(m)' = 0
    BY <1>1, <1>7 DEF StateOf, CountOf, Stored, Acknowledged, Message
  <2>4. /\ [k \in Messages |-> StateOf(k)']
             = [[k \in Messages |-> StateOf(k)] EXCEPT ![m] = "removed"]
        /\ [k \in Messages |-> CountOf(k)'] = [[k \in Messages |-> CountOf(k)] EXCEPT ![m] = 0]
    BY <2>2, <2>3
  <2>5. Delivery!Remove(m)
    BY <1>1, <1>4, <2>1, <2>3, <2>4 DEF Delivery!Remove, Delivery!Drops, StateOf, CountOf
  <2> QED BY <1>1, <2>5 DEF Delivery!Next
<1> QED BY <1>5, <1>6, <1>7 DEF Settle

\* A message that is too old goes from under whoever holds it.
LEMMA ExpireDelivers ==
  ASSUME LifecycleInv, NEW m \in Messages, Expire(m)
  PROVE  Delivery!Next
<1>1. msgs \in [Messages -> Message] /\ Stored(m) /\ msgs' = [msgs EXCEPT ![m].gone = "expired"]
  BY DEF LifecycleInv, LifecycleTypeOK, Expire
<1>2. InHand' = InHand /\ Processed' = Processed
  BY DEF Expire, InHand, Processed
<1>3. \A k \in Messages \ {m} : StateOf(k)' = StateOf(k) /\ CountOf(k)' = CountOf(k)
  <2> TAKE k \in Messages \ {m}
  <2>1. msgs'[k] = msgs[k]
    BY <1>1
  <2> QED BY <2>1 DEF StateOf, CountOf, Stored
<1>4. StateOf(m) = "stored" /\ StateOf(m)' = "expired" /\ CountOf(m)' = 0
  BY <1>1 DEF StateOf, CountOf, Stored, Message
<1>5. /\ [k \in Messages |-> StateOf(k)']
           = [[k \in Messages |-> StateOf(k)] EXCEPT ![m] = "expired"]
      /\ [k \in Messages |-> CountOf(k)'] = [[k \in Messages |-> CountOf(k)] EXCEPT ![m] = 0]
  BY <1>3, <1>4
<1>6. Delivery!Expire(m)
  BY <1>2, <1>4, <1>5 DEF Delivery!Expire, StateOf, CountOf
<1> QED BY <1>6 DEF Delivery!Next

LEMMA CrashDelivers ==
  ASSUME LifecycleInv, NEW w \in Workers, Crash(w)
  PROVE  Delivery!Next
<1>1. run \in [Workers -> Run]
  BY DEF LifecycleInv, LifecycleTypeOK
<1>2. OnlyWorker(w) /\ run'[w].pc = "down"
  BY <1>1 DEF Crash, OnlyWorker, Idle
<1>3. \A v \in Workers, k \in Messages :
        (HoldsNow(v, k)' => HoldsNow(v, k)) /\ (ReadyNow(v, k)' => ReadyNow(v, k))
  BY <1>2 DEF OnlyWorker, HoldsNow, ReadyNow
<1>4. InHand' \subseteq InHand /\ Processed' \subseteq Processed
  BY <1>3, HeldBy, HeldByThen
<1> QED BY <1>4, Dropped DEF Crash

LEMMA RestartDelivers ==
  ASSUME LifecycleInv, NEW w \in Workers, Restart(w)
  PROVE  Delivery!Next
<1>1. /\ msgs \in [Messages -> Message] /\ run \in [Workers -> Run] /\ MaxDeliver \in Nat
  BY LifecycleAssumption DEF LifecycleInv, LifecycleTypeOK
<1>2. OnlyWorker(w) /\ run'[w].pc = "idle" /\ run[w].pc = "down"
  BY <1>1 DEF Restart, Goto, OnlyWorker, Run
<1>3. \A v \in Workers, k \in Messages :
        (HoldsNow(v, k)' <=> HoldsNow(v, k)) /\ (ReadyNow(v, k)' <=> ReadyNow(v, k))
  BY <1>2 DEF OnlyWorker, HoldsNow, ReadyNow
<1>4. InHand' = InHand /\ Processed' = Processed
  BY <1>3, HeldBy, HeldByThen
<1>5. \A m \in Messages : StateOf(m)' = StateOf(m) /\ CountOf(m)' = 0
  <2> TAKE m \in Messages
  <2>1. CASE Stored(m)
    <3>1. msgs'[m] = [msgs[m] EXCEPT !.left = MaxDeliver]
      BY <2>1 DEF Restart
    <3> QED BY <1>1, <2>1, <3>1 DEF StateOf, CountOf, Stored, Message
  <2>2. CASE ~Stored(m)
    <3>1. msgs'[m] = msgs[m]
      BY <2>2 DEF Restart
    <3> QED BY <2>2, <3>1 DEF StateOf, CountOf, Stored
  <2> QED BY <2>1, <2>2
<1>6. Delivery!Renew
  <2>1. /\ [m \in Messages |-> StateOf(m)'] = [m \in Messages |-> StateOf(m)]
        /\ [m \in Messages |-> CountOf(m)'] = [m \in Messages |-> 0]
    BY <1>5
  <2> QED BY <1>4, <2>1 DEF Delivery!Renew, StateOf, CountOf
<1> QED BY <1>6 DEF Delivery!Next

\* What a run does before its Ack or Nak.
LEMMA RunDelivers ==
  ASSUME LifecycleInv, NEW w \in Workers,
         \/ LoadJob(w) \/ StartJob(w) \/ ReadRepository(w) \/ Setup(w) \/ CheckTransition(w)
         \/ WriteTransition(w) \/ Clone(w) \/ Index(w) \/ EndJob(w) \/ TimeOut(w)
  PROVE  Delivery!Next
<1>1. run \in [Workers -> Run] /\ run[w] \in Run
  BY DEF LifecycleInv, LifecycleTypeOK
<1>2. UNCHANGED msgs /\ run[w].pc \notin {"down", "idle", "ack"}
  BY DEF LoadJob, StartJob, ReadRepository, Setup, CheckTransition, WriteTransition, Clone,
         Index, EndJob, TimeOut
<1> DEFINE Moves == /\ OnlyWorker(w) /\ run'[w].pc \notin {"down", "idle"}
                    /\ run'[w].msg = run[w].msg
<1>3. ASSUME NEW pc \in Positions \ {"down", "idle"}, Goto(w, pc) PROVE Moves
  BY <1>1, <1>3 DEF Goto, OnlyWorker, Run
<1>4. ASSUME NEW goal, Update(w, goal) PROVE Moves
  BY <1>1, <1>4 DEF Update, OnlyWorker, Run
<1>5. ASSUME Refused(w) PROVE Moves
  BY <1>3, <1>4, <1>5 DEF Refused, Positions
<1>6. ASSUME Accepted(w) PROVE Moves
  BY <1>3, <1>6 DEF Accepted, Positions
<1>7. Moves
  <2>1. CASE LoadJob(w)
    BY <1>1, <1>3, <2>1 DEF LoadJob, OnlyWorker, Run, Positions
  <2>2. CASE StartJob(w)
    BY <1>3, <2>2 DEF StartJob, Positions
  <2>3. CASE ReadRepository(w)
    BY <1>1, <1>3, <2>3 DEF ReadRepository, OnlyWorker, Run, Positions
  <2>4. CASE Setup(w)
    BY <1>3, <1>4, <2>4 DEF Setup, Positions
  <2>5. CASE CheckTransition(w) \/ WriteTransition(w)
    BY <1>3, <1>5, <1>6, <2>5 DEF CheckTransition, WriteTransition, Positions
  <2>6. CASE Clone(w)
    <3>1. run'[w].msg = run[w].msg /\ run' = [run EXCEPT ![w] = run'[w]]
      BY <2>6, Pipelines DEF Pipeline
    <3>2. OnlyWorker(w)
      BY <1>1, <3>1 DEF OnlyWorker
    <3> DEFINE fresh == {r \in Requests : api[r] # "new"}
               pc == IF run[w].stale = "processing" THEN "index" ELSE "read"
    <3>3. \/ Update(w, "failed")
          \/ run' = [run EXCEPT ![w].fresh = fresh, ![w].pc = pc, ![w].goal = "processing"]
      BY <2>6 DEF Clone
    <3>4. pc \in {"read", "index"}
      OBVIOUS
    <3> HIDE DEF fresh, pc
    <3>5. run'[w].pc \in {"read", pc}
      BY <1>1, <3>3 DEF Update, Run
    <3> QED BY <3>1, <3>2, <3>4, <3>5
  <2>7. CASE Index(w)
    BY <1>4, <2>7 DEF Index
  <2>8. CASE EndJob(w) \/ TimeOut(w)
    BY <1>3, <2>8 DEF EndJob, TimeOut, Positions
  <2> QED BY <2>1, <2>2, <2>3, <2>4, <2>5, <2>6, <2>7, <2>8
<1> QED BY <1>2, <1>7, GoesOn

\* The requests, the removal and the sync, but for what they publish.
LEMMA OthersDeliver ==
  ASSUME LifecycleInv,
         \/ \E r \in Requests : FindRepository(r) \/ RequestStep(r) \/ SyncFind(r)
         \/ DeleteFind \/ DeleteArchive \/ SyncPublish
  PROVE  Delivery!Next
<1>1. UNCHANGED run
  BY DEF FindRepository, RequestStep, InsertRepository, ResetRepository, SaveJob, PublishJob,
         SyncFind, DeleteFind, DeleteArchive, SyncPublish
<1>2. CASE \E r \in Requests : PublishIndexingJob(r)
  BY <1>1, <1>2, PublishDelivers
<1>3. CASE UNCHANGED msgs
  BY <1>1, <1>3, Dropped DEF InHand, Processed
<1>4. CASE SyncPublish
  <2>1. sync \in Requests
    BY <1>4, LifecycleAssumption DEF SyncPublish, LifecycleInv, LifecycleTypeOK, Requests
  <2> QED BY <1>2, <1>3, <1>4, <2>1 DEF SyncPublish
<1> QED BY <1>2, <1>3, <1>4 DEF FindRepository, RequestStep, InsertRepository,
         ResetRepository, SaveJob, PublishJob, SyncFind, DeleteFind, DeleteArchive

LEMMA InitDelivers == Init => Delivery!Init
<1> SUFFICES ASSUME Init PROVE Delivery!Init
  OBVIOUS
<1>1. InHand = {} /\ Processed = {}
  BY DEF Init, InHand, Processed, Idle
<1>2. \A m \in Messages : msgs[m].job = 0
  BY DEF Init, NoMessage
<1> QED BY <1>1, <1>2 DEF Delivery!Init, Stored

LEMMA StepDelivers ==
  ASSUME LifecycleInv, [Next]_vars
  PROVE  [Delivery!Next]_(Delivery!vars)
<1>1. CASE \/ \E r \in Requests : FindRepository(r) \/ RequestStep(r) \/ SyncFind(r)
           \/ DeleteFind \/ DeleteArchive \/ SyncPublish
  BY <1>1, OthersDeliver
<1>2. CASE \E w \in Workers : WorkerStep(w) \/ TimeOut(w) \/ Crash(w) \/ Restart(w)
  BY <1>2, RunDelivers, SettleDelivers, CrashDelivers, RestartDelivers DEF WorkerStep
<1>3. CASE \E m \in Messages : Expire(m) \/ \E w \in Workers : Deliver(w, m)
  BY <1>3, DeliverDelivers, ExpireDelivers
<1>4. CASE UNCHANGED vars
  BY <1>4 DEF vars, InHand, Processed, Stored, Delivery!vars
<1> QED BY <1>1, <1>2, <1>3, <1>4 DEF Next

\* The messages that RepositoryLifecycle gives its workers, any number of them, come and
\* go as the promise says: processMessage acknowledges only a run that has ended well, and
\* what it has not acknowledged stays until the stream's MaxAge drops it, whatever fails,
\* times out or crashes.
THEOREM DeliveryAgrees == Spec => KeepsDelivery
<1>1. LifecycleInv /\ [Next]_vars => [Delivery!Next]_(Delivery!vars)
  BY StepDelivers
<1> QED BY <1>1, InitDelivers, LifecycleConsistent, PTL DEF Spec, KeepsDelivery, Delivery!Spec
=============================================================================
