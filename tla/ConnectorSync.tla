----------------------------- MODULE ConnectorSync -----------------------------
(***************************************************************************)
(* An API process: it reconciles the connectors table with its             *)
(* configuration, then synchronises every active connector in the          *)
(* background while it serves POST /connectors/{id}/sync.                  *)
(*   reconciler  connector_reconciler.go, before anything else             *)
(*   lister      cmd/api.go SyncAllConnectors, pages of active connectors  *)
(*   sync        connector_service.go SyncConnector: one goroutine for a   *)
(*               connector the lister dispatches, one for a request        *)
(*   publisher   nats_message_publisher.go: each of the two connector      *)
(*               services makes its own, with a circuit breaker            *)
(* An action is one database statement or one call; rows are written whole *)
(* from the copy that was read.                                            *)
(***************************************************************************)
EXTENDS Naturals, Sequences, FiniteSets, SequencesExt

CONSTANTS
  Connectors,
  Repositories,  \* what the provider lists for each connector
  PageLimit,     \* dto.MaxLimitValue
  MaxConcurrent, \* syncConnectorConcurrency, of the lister's syncs
  MaxFailures,   \* of updateCircuitBreaker: failures that open the breaker
  MaxVersions,   \* bound: contents a connector can have in the configuration
  Optional,      \* bound: connectors that can be missing there
  Mistyped,      \* bound: connectors whose entry can have an invalid type there
  MaxRequests,   \* bound: requests served at a time
  MaxStarts,     \* bound: starts of the process
  MaxFaults      \* bound: calls that fail

ASSUME SyncAssumption ==
  /\ Repositories # {}
  /\ {PageLimit, MaxConcurrent, MaxFailures} \subseteq Nat \ {0}
  /\ {MaxVersions, MaxRequests, MaxStarts, MaxFaults} \subseteq Nat

Sources == {"startup", "request"}
Statuses == {"none", "pending", "active", "inactive", "syncing", "error"}

\* What the configuration has of a connector: nothing (0), one of the contents it can
\* have, or an entry whose type NewConnectorType refuses.
Invalid == MaxVersions + 1
Versions(c) ==
  (1..MaxVersions) \cup {v \in {0, Invalid} : c \in IF v = 0 THEN Optional ELSE Mistyped}

VARIABLES
  config,    \* the configuration file: a version of each connector
  row,       \* connectors table: status ("none": no row) and version of the rest
  created,   \* the connectors in the order their rows were made
  repos,     \* repositories table
  jobs,      \* indexing_jobs of each repository: how many, and is the newest pending
  stream,    \* repositories with a message on the stream
  phase,     \* the process: down, reconciling, connecting, serving
  todo,      \* connectors it has not looked at yet
  lister,    \* SyncAllConnectors
  publisher, \* the publisher of each source
  sync,      \* the syncs of each source and connector
  starts, faults

tables == <<row, created, repos, jobs, stream>>
process == <<phase, todo, lister, publisher, sync>>
vars == <<config, tables, process, starts, faults>>

NoRow == [status |-> "none", version |-> 0]
NoPublisher == [kind |-> "none", failures |-> 0, open |-> FALSE, cooled |-> FALSE]
AnyRepository == CHOOSE r \in Repositories : TRUE
NoSync == [pc |-> "idle", copy |-> NoRow, todo |-> {}, repo |-> AnyRepository]
NoLister == [pc |-> "idle", offset |-> 0, queue |-> <<>>, more |-> FALSE]

Init ==
  /\ config \in [Connectors -> 0..Invalid] /\ \A c \in Connectors : config[c] \in Versions(c)
  /\ row = [c \in Connectors |-> NoRow] /\ created = <<>>
  /\ repos = {} /\ jobs = [r \in Repositories |-> [made |-> 0, pending |-> FALSE]]
  /\ stream = {}
  /\ phase = "down" /\ todo = {} /\ lister = NoLister
  /\ publisher = [k \in Sources |-> NoPublisher]
  /\ sync = [k \in Sources |-> [c \in Connectors |-> NoSync]]
  /\ starts = 0 /\ faults = 0

Least(a, b) == IF a < b THEN a ELSE b

Fault == faults < MaxFaults /\ faults' = faults + 1

-----------------------------------------------------------------------------
(* The process starts and reconciles.                                      *)

\* The configuration is edited; a running process has read it already.
EditConfig(c) ==
  /\ phase = "down" /\ starts < MaxStarts
  /\ \E v \in Versions(c) \ {config[c]} : config' = [config EXCEPT ![c] = v]
  /\ UNCHANGED <<tables, process, starts, faults>>

\* Mutant: the lister starts first, on what the last process left.
Start_SyncsFirst ==
  /\ phase = "down" /\ starts < MaxStarts
  /\ starts' = starts + 1
  /\ phase' = "reconciling" /\ todo' = Connectors /\ lister' = [NoLister EXCEPT !.pc = "page"]
  /\ UNCHANGED <<config, tables, publisher, sync, faults>>

\* Reconcile reads all rows, which nobody else writes until it ends, and is skipped
\* altogether if that fails.
Start ==
  /\ phase = "down" /\ starts < MaxStarts
  /\ starts' = starts + 1
  /\ \/ /\ phase' = "reconciling" /\ todo' = Connectors
        /\ UNCHANGED faults
     \/ Fault /\ phase' = "connecting" /\ UNCHANGED todo
  /\ UNCHANGED <<config, tables, lister, publisher, sync>>

\* Mutant: a connector that was syncing when the last process ended is left so.
Reconciled_KeepSyncing(old, version) ==
  IF version = Invalid THEN old
  ELSE
  CASE version = 0 -> [old EXCEPT !.status = "inactive"]
    [] version # 0 /\ old.status = "none" -> [status |-> "pending", version |-> version]
    [] OTHER -> [status |-> IF old.status = "inactive" THEN "active" ELSE old.status,
                 version |-> version]

\* Mutant: a removed connector is deactivated through the state machine, which
\* refuses that to one that was left syncing.
Reconciled_Deactivates(old, version) ==
  IF version = Invalid THEN old
  ELSE
  CASE version = 0 -> [old EXCEPT !.status = IF @ = "syncing" THEN @ ELSE "inactive"]
    [] version # 0 /\ old.status = "none" -> [status |-> "pending", version |-> version]
    [] OTHER ->
         [status |-> IF old.status \in {"syncing", "inactive"} THEN "active" ELSE old.status,
          version |-> version]

\* What upsertConnector, which skips an entry of an invalid type, or the loop over removed
\* connectors makes of a row.
Reconciled(old, version) ==
  IF version = Invalid THEN old
  ELSE
  CASE version = 0 -> [old EXCEPT !.status = "inactive"]
    [] version # 0 /\ old.status = "none" -> [status |-> "pending", version |-> version]
    [] OTHER ->
         [status |-> IF old.status \in {"syncing", "inactive"} THEN "active" ELSE old.status,
          version |-> version]

\* The next connector: configured ones first, then those with a row only.
Reconcile(c) ==
  /\ phase = "reconciling" /\ c \in todo
  /\ config[c] # 0 \/ \A d \in todo : config[d] = 0
  /\ todo' = todo \ {c}
  /\ LET new == Reconciled(row[c], config[c])
         same == new = row[c] \/ (config[c] = 0 /\ row[c].status = "none")
     IN \/ /\ same
           /\ UNCHANGED <<row, created, faults>>
        \/ /\ ~same
           /\ row' = [row EXCEPT ![c] = new]
           /\ created' = IF row[c].status = "none" THEN Append(created, c) ELSE created
           /\ UNCHANGED faults
        \/ ~same /\ Fault /\ UNCHANGED <<row, created>>
  /\ UNCHANGED <<config, repos, jobs, stream, phase, lister, publisher, sync, starts>>

ReconcileEnds ==
  /\ phase = "reconciling" /\ todo = {}
  /\ phase' = "connecting"
  /\ UNCHANGED <<config, tables, todo, lister, publisher, sync, starts, faults>>

\* createMessagePublisher, for the server's service and for the lister's: a mock
\* stands in for NATS where it cannot be reached.
Connect ==
  /\ phase = "connecting" /\ phase' = "serving"
  /\ \E mocked \in SUBSET Sources :
       /\ publisher' = [k \in Sources |->
            [NoPublisher EXCEPT !.kind = IF k \in mocked THEN "mock" ELSE "nats"]]
       /\ IF mocked = {} THEN UNCHANGED faults ELSE Fault
  /\ lister' = [NoLister EXCEPT !.pc = "page"]
  /\ UNCHANGED <<config, tables, todo, sync, starts>>

\* The process ends.  A signal cancels the context of every call that is left, so
\* that nothing more is written, as if it had crashed.
Stop ==
  /\ phase # "down" /\ phase' = "down"
  /\ lister' = NoLister /\ todo' = {}
  /\ publisher' = [k \in Sources |-> NoPublisher]
  /\ sync' = [k \in Sources |-> [c \in Connectors |-> NoSync]]
  /\ UNCHANGED <<config, tables, starts, faults>>

-----------------------------------------------------------------------------
(* SyncAllConnectors and the requests.                                     *)

Running(k) == {c \in Connectors : sync[k][c].pc # "idle"}

\* FindAll with status "active", newest rows first.
Active == SelectSeq(Reverse(created), LAMBDA c : row[c].status = "active")

ListPage ==
  /\ lister.pc = "page"
  /\ \/ LET from == lister.offset
            page == SubSeq(Active, from + 1, Least(from + PageLimit, Len(Active)))
        IN /\ lister' = [lister EXCEPT !.pc = "dispatch", !.queue = page,
                                       !.more = from + Len(page) < Len(Active)]
           /\ UNCHANGED faults
     \/ Fault /\ lister' = [lister EXCEPT !.pc = "idle"]
  /\ UNCHANGED <<config, tables, phase, todo, publisher, sync, starts>>

\* A connector that comes up on a second page while its sync still runs waits here; the
\* code starts another goroutine for it, as a request does.
Dispatch ==
  /\ lister.pc = "dispatch" /\ lister.queue # <<>>
  /\ Cardinality(Running("startup")) < MaxConcurrent
  /\ LET c == Head(lister.queue)
     IN /\ sync["startup"][c].pc = "idle"
        /\ sync' = [sync EXCEPT !["startup"][c].pc = "find"]
  /\ lister' = [lister EXCEPT !.queue = Tail(@)]
  /\ UNCHANGED <<config, tables, phase, todo, publisher, starts, faults>>

NextPage ==
  /\ lister.pc = "dispatch" /\ lister.queue = <<>>
  /\ lister' = IF lister.more
               THEN [lister EXCEPT !.pc = "page", !.offset = @ + PageLimit]
               ELSE [lister EXCEPT !.pc = "idle"]
  /\ UNCHANGED <<config, tables, phase, todo, publisher, sync, starts, faults>>

Request(c) ==
  /\ phase = "serving" /\ c \in {created[i] : i \in 1..Len(created)}
  /\ sync["request"][c].pc = "idle"
  /\ Cardinality(Running("request")) < MaxRequests
  /\ sync' = [sync EXCEPT !["request"][c].pc = "find"]
  /\ UNCHANGED <<config, tables, phase, todo, lister, publisher, starts, faults>>

-----------------------------------------------------------------------------
(* NATSMessagePublisher.                                                   *)

\* updateCircuitBreaker(false): the time since the last failure is looked at right
\* after it was set.  A success does not come here.
Failed(p) ==
  LET n == Least(p.failures + 1, MaxFailures)
      q == [p EXCEPT !.failures = n, !.cooled = FALSE, !.open = @ \/ n = MaxFailures]
  IN IF q.open /\ q.cooled THEN [q EXCEPT !.open = FALSE, !.failures = 0] ELSE q

\* More than circuitOpenDuration since the last failure.
TimePasses(k) ==
  /\ publisher[k].open /\ ~publisher[k].cooled
  /\ publisher' = [publisher EXCEPT ![k].cooled = TRUE]
  /\ UNCHANGED <<config, tables, phase, todo, lister, sync, starts, faults>>

\* PublishIndexingJob: whether the acknowledgement of PublishAsync comes, nobody
\* looks, so a message can be lost though the call succeeds.
PublishIndexingJob(k, r) ==
  LET p == publisher[k] IN
  \/ /\ p.kind = "mock"
     /\ UNCHANGED <<stream, publisher, faults>>
  \/ /\ p.kind = "nats" /\ p.open
     /\ publisher' = [publisher EXCEPT ![k] = Failed(p)]
     /\ UNCHANGED <<stream, faults>>
  \/ /\ p.kind = "nats" /\ ~p.open
     /\ stream' = stream \cup {r}
     /\ UNCHANGED <<publisher, faults>>
  \/ /\ p.kind = "nats" /\ ~p.open /\ Fault
     /\ publisher' = [publisher EXCEPT ![k] = Failed(p)] \/ UNCHANGED publisher
     /\ UNCHANGED stream

-----------------------------------------------------------------------------
(* SyncConnector.  A repository that fails is skipped.                     *)

At(k, c, pc) == sync[k][c].pc = pc
Goto(k, c, pc) == sync' = [sync EXCEPT ![k][c].pc = pc]
End(k, c) == sync' = [sync EXCEPT ![k][c] = NoSync]

others == <<config, created, phase, todo, lister, starts>>

\* Only a pending connector, made active first, or an active one may begin to sync.
FindConnector(k, c) ==
  /\ At(k, c, "find")
  /\ \/ /\ row[c].status \in {"pending", "active"}
        /\ sync' = [sync EXCEPT ![k][c] =
             [NoSync EXCEPT !.pc = "start", !.copy = [row[c] EXCEPT !.status = "syncing"]]]
        /\ UNCHANGED faults
     \/ row[c].status \notin {"pending", "active"} /\ End(k, c) /\ UNCHANGED faults
     \/ Fault /\ End(k, c)
  /\ UNCHANGED <<others, row, repos, jobs, stream, publisher>>

\* Update of the whole row, which then says what the copy says.
WriteRow(k, c, status) == row' = [row EXCEPT ![c] = [sync[k][c].copy EXCEPT !.status = status]]

MarkSyncStarted(k, c) ==
  /\ At(k, c, "start")
  /\ \/ WriteRow(k, c, "syncing") /\ Goto(k, c, "list") /\ UNCHANGED faults
     \/ Fault /\ End(k, c) /\ UNCHANGED row
  /\ UNCHANGED <<others, repos, jobs, stream, publisher>>

ListRepositories(k, c) ==
  /\ At(k, c, "list")
  /\ \/ /\ sync' = [sync EXCEPT ![k][c].pc = "next", ![k][c].todo = Repositories]
        /\ UNCHANGED faults
     \/ Fault /\ Goto(k, c, "failed")
  /\ UNCHANGED <<others, row, repos, jobs, stream, publisher>>

\* MarkSyncCompleted, or MarkSyncFailed, and Update.
MarkSyncEnded(k, c) ==
  /\ At(k, c, "failed") \/ (At(k, c, "next") /\ sync[k][c].todo = {})
  /\ End(k, c)
  /\ \/ WriteRow(k, c, IF At(k, c, "failed") THEN "error" ELSE "active") /\ UNCHANGED faults
     \/ Fault /\ UNCHANGED row
  /\ UNCHANGED <<others, repos, jobs, stream, publisher>>

\* syncRepo is done with its repository.
Skip(k, c, r) ==
  sync' = [sync EXCEPT ![k][c].pc = "next", ![k][c].todo = @ \ {r},
                       ![k][c].repo = AnyRepository]

\* ExistsByNormalizedURL, of the next repository of the listing.
CheckExists(k, c) ==
  /\ At(k, c, "next")
  /\ \E r \in sync[k][c].todo :
       \/ /\ sync' = [sync EXCEPT ![k][c].pc = IF r \in repos THEN "exists" ELSE "save",
                                   ![k][c].repo = r]
          /\ UNCHANGED faults
       \/ Fault /\ Skip(k, c, r)
  /\ UNCHANGED <<others, row, repos, jobs, stream, publisher>>

\* Mutant: a repository that exists is left alone.
FindPendingJob_Never(k, c) ==
  /\ At(k, c, "exists")
  /\ Skip(k, c, sync[k][c].repo)
  /\ UNCHANGED <<others, row, repos, jobs, stream, publisher, faults>>

\* republishPendingJob, its two queries.
FindPendingJob(k, c) ==
  /\ At(k, c, "exists")
  /\ LET r == sync[k][c].repo IN
     \/ jobs[r].pending /\ Goto(k, c, "publish") /\ UNCHANGED faults
     \/ ~jobs[r].pending /\ Skip(k, c, r) /\ UNCHANGED faults
     \/ Fault /\ Skip(k, c, r)
  /\ UNCHANGED <<others, row, repos, jobs, stream, publisher>>

\* Mutant: no unique index, so a concurrent sync's row is no obstacle.
SaveRepository_Upsert(k, c) ==
  /\ At(k, c, "save")
  /\ repos' = repos \cup {sync[k][c].repo} /\ Goto(k, c, "job")
  /\ UNCHANGED <<others, row, jobs, stream, publisher, faults>>

\* normalized_url is UNIQUE.
SaveRepository(k, c) ==
  /\ At(k, c, "save")
  /\ LET r == sync[k][c].repo IN
     \/ r \notin repos /\ repos' = repos \cup {r} /\ Goto(k, c, "job") /\ UNCHANGED faults
     \/ r \in repos /\ Skip(k, c, r) /\ UNCHANGED <<repos, faults>>
     \/ Fault /\ Skip(k, c, r) /\ UNCHANGED repos
  /\ UNCHANGED <<others, row, jobs, stream, publisher>>

\* Mutant: a job that could not be saved is published all the same.
SaveJob_Ignored(k, c) ==
  /\ At(k, c, "job")
  /\ LET r == sync[k][c].repo IN
     \/ /\ jobs' = [jobs EXCEPT ![r] = [made |-> @.made + 1, pending |-> TRUE]]
        /\ UNCHANGED faults
     \/ Fault /\ UNCHANGED jobs
  /\ Goto(k, c, "publish")
  /\ UNCHANGED <<others, row, repos, stream, publisher>>

SaveJob(k, c) ==
  /\ At(k, c, "job")
  /\ LET r == sync[k][c].repo IN
     \/ /\ jobs' = [jobs EXCEPT ![r] = [made |-> @.made + 1, pending |-> TRUE]]
        /\ Goto(k, c, "publish") /\ UNCHANGED faults
     \/ Fault /\ Skip(k, c, r) /\ UNCHANGED jobs
  /\ UNCHANGED <<others, row, repos, stream, publisher>>

PublishJob(k, c) ==
  /\ At(k, c, "publish")
  /\ PublishIndexingJob(k, sync[k][c].repo)
  /\ Skip(k, c, sync[k][c].repo)
  /\ UNCHANGED <<others, row, repos, jobs>>

SyncStep(k, c) ==
  \/ FindConnector(k, c) \/ MarkSyncStarted(k, c) \/ ListRepositories(k, c)
  \/ CheckExists(k, c) \/ FindPendingJob(k, c) \/ SaveRepository(k, c)
  \/ SaveJob(k, c) \/ PublishJob(k, c) \/ MarkSyncEnded(k, c)

-----------------------------------------------------------------------------
(* The stream and the workers.                                             *)

\* A worker takes the message; its job is no longer pending.
TakeJob(r) ==
  /\ r \in stream
  /\ stream' = stream \ {r} /\ jobs' = [jobs EXCEPT ![r].pending = FALSE]
  /\ UNCHANGED <<config, row, created, repos, process, starts, faults>>

\* MaxAge of the stream: a message nobody took is dropped after a day.
Expire(r) ==
  /\ r \in stream /\ stream' = stream \ {r}
  /\ UNCHANGED <<config, row, created, repos, jobs, process, starts, faults>>

Next ==
  \/ Start \/ ReconcileEnds \/ Connect \/ Stop \/ ListPage \/ Dispatch \/ NextPage
  \/ \E c \in Connectors :
       \/ EditConfig(c) \/ Reconcile(c) \/ Request(c)
       \/ \E k \in Sources : SyncStep(k, c)
  \/ \E k \in Sources : TimePasses(k)
  \/ \E r \in Repositories : TakeJob(r) \/ Expire(r)

Spec == Init /\ [][Next]_vars

\* Calls return (syncs have a timeout, the database and NATS answer or fail).
Fairness ==
  \A k \in Sources :
    /\ WF_vars(TimePasses(k))
    /\ \A c \in Connectors : WF_vars(SyncStep(k, c))

FairSpec == Spec /\ Fairness

-----------------------------------------------------------------------------
Row == [status : Statuses, version : 0..MaxVersions]
Publisher == [kind : {"none", "mock", "nats"}, failures : 0..MaxFailures,
              open : BOOLEAN, cooled : BOOLEAN]
Sync == [pc : {"idle", "find", "start", "list", "failed", "next", "exists", "save",
               "job", "publish"},
         copy : Row, todo : SUBSET Repositories, repo : Repositories]

\* Types, and: a sync is at work only in a process that serves, and writes only rows
\* that are there.
SyncTypeOK ==
  /\ config \in [Connectors -> 0..Invalid] /\ \A c \in Connectors : config[c] \in Versions(c)
  /\ row \in [Connectors -> Row]
  /\ repos \subseteq Repositories /\ stream \subseteq Repositories
  /\ jobs \in [Repositories -> [made : Nat, pending : BOOLEAN]]
  /\ phase \in {"down", "reconciling", "connecting", "serving"}
  /\ todo \subseteq Connectors
  /\ publisher \in [Sources -> Publisher]
  /\ sync \in [Sources -> [Connectors -> Sync]]
  /\ starts \in 0..MaxStarts /\ faults \in 0..MaxFaults
  /\ \A k \in Sources, c \in Connectors :
       /\ sync[k][c].pc # "idle" => phase = "serving"
       /\ sync[k][c].pc \notin {"idle", "find"} => row[c].status # "none"

\* A worker that takes a message finds the repository and its job.
MessageHasJob == \A r \in stream : r \in repos /\ jobs[r].made > 0

\* However the syncs of overlapping connectors interleave, a repository they
\* discover gets one job, not one from each.
OneJobPerRepository == \A r \in Repositories : jobs[r].made <= 1

\* The row of connector c is as the configuration has it.
Configured(c) ==
  IF config[c] = 0 THEN row[c].status \in {"none", "inactive"}
  ELSE row[c].version = config[c] /\ row[c].status \notin {"none", "inactive"}

\* "Config is the single source of truth": while the process serves, and syncs write
\* back rows they read earlier, each row has what the configuration says, unless that
\* is an entry of an invalid type, whose row stays as it was.
ConfigWins ==
  phase = "serving" /\ faults = 0 =>
    \A c \in Connectors : config[c] # Invalid => Configured(c)

\* A connector says it is syncing only while a sync of it runs: what a process that
\* ended left behind is repaired before the next one serves, if the configuration has
\* a valid entry for it or none.
SyncingHasSync ==
  phase = "serving" /\ faults = 0 =>
    \A c \in Connectors : row[c].status = "syncing" /\ config[c] # Invalid =>
      \E k \in Sources : sync[k][c].pc \notin {"idle", "find", "start"}

Orphaned(r) == jobs[r].pending /\ r \notin stream
PublisherWorks(k) == publisher[k].kind = "nats" /\ ~publisher[k].open

\* A job whose message was never sent, or was lost or dropped, is published again if
\* some connector that lists its repository goes on being synced through a working
\* publisher.
OrphanIsPublished ==
  []<>(\E k \in Sources, c \in Connectors : PublisherWorks(k) /\ sync[k][c].pc = "next") =>
    \A r \in Repositories : Orphaned(r) ~> ~Orphaned(r)

\* The breaker does not stay open for ever in a process that goes on publishing.
BreakerCloses ==
  \A k \in Sources :
    []<>(\E c \in Connectors : sync[k][c].pc = "publish") =>
      (publisher[k].open ~> ~publisher[k].open)

-----------------------------------------------------------------------------
(* The inductive invariant behind the theorems.                            *)

\* What reconciling makes of a row, if no call fails.
Repaired(c) ==
  config[c] # Invalid => row[c].status # "syncing" /\ Configured(c)

RepairsOK ==
  faults = 0 =>
    /\ phase = "reconciling" => \A c \in Connectors \ todo : Repaired(c)
    /\ phase = "connecting" => \A c \in Connectors : Repaired(c)

\* Of a sync s of connector c: which tables have the repository it is working on, and
\* that its copy of the row has the configuration's contents.
SyncOK(s, c) ==
  /\ s.pc \in {"exists", "job", "publish"} => s.repo \in repos
  /\ s.pc = "job" => jobs[s.repo].made = 0
  /\ s.pc = "publish" => jobs[s.repo].made > 0
  /\ faults = 0 /\ s.pc \notin {"idle", "find"} =>
       config[c] # 0 /\ (config[c] # Invalid => s.copy.version = config[c])

\* The row in the repositories table decides which of two syncs makes the job.
JobMakersDiffer ==
  \A k, l \in Sources, c, d \in Connectors :
    sync[k][c].pc = "job" /\ sync[l][d].pc = "job" /\ sync[k][c].repo = sync[l][d].repo =>
      k = l /\ c = d

JobsOK ==
  \A r \in Repositories :
    /\ r \notin repos => jobs[r].made = 0
    /\ jobs[r].pending => jobs[r].made > 0

\* Only a process that serves lists connectors.
ListerOK == DOMAIN lister = DOMAIN NoLister /\ (lister.pc # "idle" => phase = "serving")

SyncInv ==
  /\ SyncTypeOK /\ MessageHasJob /\ OneJobPerRepository /\ ConfigWins /\ SyncingHasSync
  /\ RepairsOK /\ JobMakersDiffer /\ JobsOK /\ ListerOK
  /\ \A k \in Sources, c \in Connectors : SyncOK(sync[k][c], c)
=============================================================================
