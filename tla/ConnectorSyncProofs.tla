-------------------------- MODULE ConnectorSyncProofs --------------------------
(***************************************************************************)
(* Proofs about the connectors' reconciling and synchronising, for every   *)
(* number of connectors, repositories, requests, starts and failures.      *)
(***************************************************************************)
EXTENDS ConnectorSync, TLAPS

JobRows == [made : Nat, pending : BOOLEAN]

-----------------------------------------------------------------------------
(* Lemmas.                                                                 *)

LEMMA Bounds ==
  /\ MaxVersions \in Nat /\ MaxStarts \in Nat /\ MaxFaults \in Nat
  /\ AnyRepository \in Repositories /\ MaxFailures \in Nat \ {0}
BY SyncAssumption DEF AnyRepository

LEMMA InvalidIs == Invalid \in Nat /\ Invalid # 0
BY Bounds DEF Invalid

LEMMA Fresh ==
  /\ NoRow \in Row /\ NoPublisher \in Publisher /\ NoSync \in Sync
  /\ NoSync.pc = "idle" /\ NoRow.status = "none"
<1>1. 0 \in 0..MaxVersions /\ 0 \in 0..MaxFailures
  BY Bounds
<1>2. NoRow \in Row /\ NoRow.status = "none"
  BY <1>1 DEF NoRow, Row, Statuses
<1>3. NoPublisher \in Publisher
  BY <1>1 DEF NoPublisher, Publisher
<1>4. NoSync \in Sync /\ NoSync.pc = "idle"
  BY <1>2, Bounds DEF NoSync, Sync
<1> QED BY <1>2, <1>3, <1>4

\* A failure is counted, and a step that counts none has met none.
LEMMA FaultsKept ==
  ASSUME faults \in 0..MaxFaults, Fault \/ UNCHANGED faults
  PROVE  faults' \in 0..MaxFaults /\ (faults' = 0 => faults = 0 /\ UNCHANGED faults)
BY Bounds DEF Fault

LEMMA FailedTyped ==
  ASSUME NEW p \in Publisher PROVE Failed(p) \in Publisher
<1> DEFINE n == Least(p.failures + 1, MaxFailures)
           q == [p EXCEPT !.failures = n, !.cooled = FALSE, !.open = @ \/ n = MaxFailures]
<1>1. n \in 0..MaxFailures /\ 0 \in 0..MaxFailures
  BY Bounds DEF Publisher, Least
<1>2. q \in Publisher
  BY <1>1 DEF Publisher
<1> HIDE DEF n
<1>3. [q EXCEPT !.open = FALSE, !.failures = 0] \in Publisher
  BY <1>1, <1>2 DEF Publisher
<1> HIDE DEF q
<1> QED BY <1>2, <1>3 DEF Failed, n, q

\* A sync that becomes s, and what it may write: only its own connector's row, with the
\* configuration's contents; a job only for a repository no other sync makes one for.
SyncMove(k, c, s) ==
  /\ sync' = [sync EXCEPT ![k][c] = s] /\ sync[k][c].pc # "idle"
  /\ UNCHANGED others /\ (Fault \/ UNCHANGED faults)
  /\ publisher' \in [Sources -> Publisher] /\ stream' \subseteq Repositories
  /\ repos \subseteq repos' /\ repos' \subseteq Repositories
  /\ jobs' \in [Repositories -> JobRows]
  /\ \A r \in Repositories : jobs'[r].made >= jobs[r].made
  /\ row' \in [Connectors -> Row]
  /\ \A d \in Connectors : row[d].status # "none" => row'[d].status # "none"
  /\ s.pc \notin {"idle", "find"} => row'[c].status # "none"
  /\ MessageHasJob' /\ OneJobPerRepository' /\ JobsOK'
  /\ \A l \in Sources, d \in Connectors :
       sync[l][d].pc = "job" /\ (l # k \/ d # c) =>
         /\ jobs'[sync[l][d].repo].made = 0
         /\ s.pc = "job" => sync[l][d].repo # s.repo
  /\ faults' = 0 =>
       /\ \A d \in Connectors \ {c} : row'[d] = row[d]
       /\ \/ /\ row'[c] = row[c]
             /\ \/ s.pc \notin {"idle", "find", "start"}
                \/ sync[k][c].pc \in {"find", "start"}
          \/ /\ config[c] # 0 /\ (config[c] # Invalid => row'[c].version = config[c])
             /\ row'[c].status \notin {"none", "inactive"}
             /\ row'[c].status = "syncing" => s.pc \notin {"idle", "find", "start"}

LEMMA SyncMoves ==
  ASSUME SyncInv, NEW k \in Sources, NEW c \in Connectors, NEW s \in Sync,
         SyncMove(k, c, s), SyncOK(s, c)'
  PROVE  SyncInv'
<1> USE DEF SyncMove
<1>1. /\ SyncTypeOK /\ sync \in [Sources -> [Connectors -> Sync]] /\ phase = "serving"
      /\ ListerOK /\ phase' = phase /\ config' = config
  BY DEF SyncInv, SyncTypeOK, others
<1>2. faults' \in 0..MaxFaults /\ (faults' = 0 => faults = 0)
  BY <1>1, FaultsKept DEF SyncTypeOK
<1>3. /\ sync' \in [Sources -> [Connectors -> Sync]] /\ sync'[k][c] = s
      /\ \A l \in Sources, d \in Connectors : (l # k \/ d # c) => sync'[l][d] = sync[l][d]
  BY <1>1
<1>4. SyncTypeOK'
  <2>1. ASSUME NEW l \in Sources, NEW d \in Connectors
        PROVE  sync'[l][d].pc \notin {"idle", "find"} => row'[d].status # "none"
    BY <1>1, <1>3 DEF SyncTypeOK
  <2> QED BY <1>1, <1>2, <1>3, <2>1 DEF SyncTypeOK, others, JobRows
<1>5. ASSUME NEW l \in Sources, NEW d \in Connectors
      PROVE  SyncOK(sync[l][d], d)' \/ (l = k /\ d = c)
  <2>1. SyncOK(sync[l][d], d) /\ sync[l][d].repo \in Repositories
    BY <1>1 DEF SyncInv, Sync
  <2>2. jobs[sync[l][d].repo].made \in Nat /\ jobs'[sync[l][d].repo].made \in Nat
    BY <1>1, <2>1 DEF SyncTypeOK, JobRows
  <2> SUFFICES ASSUME l # k \/ d # c PROVE SyncOK(sync[l][d], d)'
    OBVIOUS
  <2>3. sync'[l][d] = sync[l][d]
    BY <1>3
  <2> QED BY <1>1, <1>2, <2>1, <2>2, <2>3 DEF SyncOK
<1>6. \A l \in Sources, d \in Connectors : SyncOK(sync[l][d], d)'
  BY <1>3, <1>5 DEF SyncOK
<1>7. JobMakersDiffer'
  BY <1>3 DEF SyncInv, JobMakersDiffer
<1>8. ConfigWins'
  BY <1>1, <1>2 DEF SyncInv, ConfigWins, Configured
<1>9. SyncingHasSync'
  <2> SUFFICES ASSUME faults' = 0, NEW d \in Connectors, row'[d].status = "syncing",
                      config'[d] # Invalid
               PROVE  \E l \in Sources : sync'[l][d].pc \notin {"idle", "find", "start"}
    BY DEF SyncingHasSync
  <2>1. CASE row'[d] = row[d]
    <3>1. PICK l \in Sources : sync[l][d].pc \notin {"idle", "find", "start"}
      BY <1>1, <1>2, <2>1 DEF SyncInv, SyncingHasSync
    <3> QED BY <1>3, <2>1, <3>1
  <2>2. CASE d = c /\ row'[c].status = "syncing" /\ s.pc \notin {"idle", "find", "start"}
    BY <1>3, <2>2
  <2> QED BY <2>1, <2>2
<1>10. RepairsOK' /\ ListerOK'
  BY <1>1 DEF RepairsOK, ListerOK, others
<1> QED BY <1>4, <1>6, <1>7, <1>8, <1>9, <1>10 DEF SyncInv

\* A sync that writes nothing.
LEMMA NothingSaved ==
  ASSUME SyncInv, NEW k \in Sources, NEW c \in Connectors, NEW s \in Sync,
         sync' = [sync EXCEPT ![k][c] = s], sync[k][c].pc # "idle",
         UNCHANGED <<others, row, repos, jobs, stream, publisher>>, Fault \/ UNCHANGED faults,
         s.pc \notin {"idle", "find"} => row[c].status # "none",
         SyncOK(s, c)', s.pc # "job",
         faults' = 0 => s.pc \notin {"idle", "find", "start"} \/ sync[k][c].pc \in {"find", "start"}
  PROVE  SyncInv'
<1>1. /\ SyncTypeOK /\ MessageHasJob /\ OneJobPerRepository /\ JobsOK
      /\ \A l \in Sources, d \in Connectors : SyncOK(sync[l][d], d)
  BY DEF SyncInv
<1>2. /\ publisher' \in [Sources -> Publisher] /\ stream' \subseteq Repositories
      /\ repos \subseteq repos' /\ repos' \subseteq Repositories
      /\ jobs' \in [Repositories -> JobRows] /\ row' \in [Connectors -> Row]
      /\ \A r \in Repositories : jobs'[r].made >= jobs[r].made
  BY <1>1 DEF SyncTypeOK, JobRows
<1>3. MessageHasJob' /\ OneJobPerRepository' /\ JobsOK'
  BY <1>1 DEF MessageHasJob, OneJobPerRepository, JobsOK
<1>4. \A l \in Sources, d \in Connectors :
        sync[l][d].pc = "job" => jobs'[sync[l][d].repo].made = 0
  BY <1>1 DEF SyncOK
<1>5. SyncMove(k, c, s)
  BY <1>1, <1>2, <1>3, <1>4 DEF SyncMove
<1> QED BY <1>5, SyncMoves

\* What is known of a sync at work.
LEMMA AtWork ==
  ASSUME SyncInv, NEW k \in Sources, NEW c \in Connectors, sync[k][c].pc # "idle"
  PROVE  /\ sync \in [Sources -> [Connectors -> Sync]] /\ sync[k][c] \in Sync
         /\ SyncOK(sync[k][c], c) /\ row \in [Connectors -> Row] /\ phase = "serving"
         /\ faults \in Nat
BY Bounds DEF SyncInv, SyncTypeOK

-----------------------------------------------------------------------------
(* Steps of a sync.                                                        *)

LEMMA FindConnectorStep ==
  ASSUME SyncInv, NEW k \in Sources, NEW c \in Connectors, FindConnector(k, c)
  PROVE  SyncInv'
<1>1. /\ sync[k][c].pc = "find" /\ sync \in [Sources -> [Connectors -> Sync]]
      /\ row[c] \in Row /\ phase = "serving"
  BY AtWork DEF FindConnector, At
<1>2. CASE /\ row[c].status \in {"pending", "active"}
           /\ sync' = [sync EXCEPT ![k][c] =
                [NoSync EXCEPT !.pc = "start", !.copy = [row[c] EXCEPT !.status = "syncing"]]]
           /\ UNCHANGED faults
  <2>1. \E s \in Sync : /\ sync' = [sync EXCEPT ![k][c] = s] /\ s.pc = "start"
                         /\ s.copy.version = row[c].version
    <3> DEFINE copy == [row[c] EXCEPT !.status = "syncing"]
               s == [NoSync EXCEPT !.pc = "start", !.copy = copy]
    <3>1. copy \in Row /\ copy.version = row[c].version
      BY <1>1 DEF Row, Statuses
    <3>2. sync' = [sync EXCEPT ![k][c] = s]
      BY <1>2
    <3> HIDE DEF copy
    <3>3. s \in Sync /\ s.pc = "start" /\ s.copy = copy
      BY <3>1, Fresh DEF Sync
    <3> HIDE DEF s
    <3> QED BY <3>1, <3>2, <3>3
  <2> PICK s \in Sync : /\ sync' = [sync EXCEPT ![k][c] = s] /\ s.pc = "start"
                        /\ s.copy.version = row[c].version
    BY <2>1
  <2>2. row[c].status # "none" /\ (faults = 0 => config[c] # 0 /\ (config[c] # Invalid => row[c].version = config[c]))
    BY <1>1, <1>2, InvalidIs DEF SyncInv, ConfigWins, Configured
  <2>3. SyncOK(s, c)'
    BY <1>2, <2>2 DEF SyncOK, FindConnector, others
  <2> QED BY <1>1, <1>2, <2>2, <2>3, NothingSaved DEF FindConnector
<1>3. CASE End(k, c)
  <2>1. SyncOK(NoSync, c)'
    BY Fresh DEF SyncOK
  <2> QED BY <1>1, <1>3, <2>1, Fresh, NothingSaved DEF FindConnector, End
<1> QED BY <1>2, <1>3 DEF FindConnector

LEMMA ListRepositoriesStep ==
  ASSUME SyncInv, NEW k \in Sources, NEW c \in Connectors, ListRepositories(k, c)
  PROVE  SyncInv'
<1>1. /\ sync[k][c].pc = "list" /\ sync \in [Sources -> [Connectors -> Sync]]
      /\ sync[k][c] \in Sync /\ SyncOK(sync[k][c], c) /\ faults \in Nat
  BY AtWork DEF ListRepositories, At
<1>2. row[c].status # "none" /\ (faults' = 0 => faults = 0) /\ (Fault \/ UNCHANGED faults)
  BY <1>1, FaultsKept DEF SyncInv, SyncTypeOK, ListRepositories
<1>3. \E s \in Sync : /\ sync' = [sync EXCEPT ![k][c] = s]
                      /\ s.pc \in {"next", "failed"} /\ s.copy = sync[k][c].copy
  <2>1. CASE sync' = [sync EXCEPT ![k][c].pc = "next", ![k][c].todo = Repositories]
    <3> DEFINE s == [sync[k][c] EXCEPT !.pc = "next", !.todo = Repositories]
    <3>1. s \in Sync /\ s.pc = "next" /\ s.copy = sync[k][c].copy
      BY <1>1 DEF Sync
    <3>2. sync' = [sync EXCEPT ![k][c] = s]
      BY <1>1, <2>1
    <3> QED BY <3>1, <3>2
  <2>2. CASE Goto(k, c, "failed")
    <3> DEFINE s == [sync[k][c] EXCEPT !.pc = "failed"]
    <3>1. s \in Sync /\ s.pc = "failed" /\ s.copy = sync[k][c].copy
      BY <1>1 DEF Sync
    <3>2. sync' = [sync EXCEPT ![k][c] = s]
      BY <1>1, <2>2 DEF Goto
    <3> QED BY <3>1, <3>2
  <2> QED BY <2>1, <2>2 DEF ListRepositories
<1> PICK s \in Sync : /\ sync' = [sync EXCEPT ![k][c] = s]
                      /\ s.pc \in {"next", "failed"} /\ s.copy = sync[k][c].copy
  BY <1>3
<1>4. SyncOK(s, c)'
  BY <1>1, <1>2 DEF SyncOK, ListRepositories, others
<1> QED BY <1>1, <1>2, <1>4, NothingSaved DEF ListRepositories

\* Skipping a repository, in the steps that may.
LEMMA SkipTyped ==
  ASSUME SyncInv, NEW k \in Sources, NEW c \in Connectors, NEW r, Skip(k, c, r),
         sync[k][c].pc # "idle"
  PROVE  \E s \in Sync : /\ sync' = [sync EXCEPT ![k][c] = s]
                         /\ s.pc = "next" /\ s.copy = sync[k][c].copy
<1> DEFINE s == [sync[k][c] EXCEPT !.pc = "next", !.todo = @ \ {r}, !.repo = AnyRepository]
<1>1. sync[k][c] \in Sync /\ sync \in [Sources -> [Connectors -> Sync]]
  BY AtWork
<1>2. s \in Sync /\ s.pc = "next" /\ s.copy = sync[k][c].copy
  BY <1>1, Bounds DEF Sync
<1>3. sync' = [sync EXCEPT ![k][c] = s]
  BY <1>1 DEF Skip
<1> QED BY <1>2, <1>3

LEMMA SkipSavesNothing ==
  ASSUME SyncInv, NEW k \in Sources, NEW c \in Connectors, NEW r, Skip(k, c, r),
         sync[k][c].pc \notin {"idle", "find"},
         UNCHANGED <<others, row, repos, jobs, stream, publisher>>, Fault \/ UNCHANGED faults
  PROVE  SyncInv'
<1>1. /\ SyncOK(sync[k][c], c) /\ row[c].status # "none" /\ (faults' = 0 => faults = 0)
  BY AtWork, FaultsKept DEF SyncInv, SyncTypeOK
<1> PICK s \in Sync : /\ sync' = [sync EXCEPT ![k][c] = s]
                      /\ s.pc = "next" /\ s.copy = sync[k][c].copy
  BY SkipTyped
<1>2. SyncOK(s, c)'
  BY <1>1 DEF SyncOK, others
<1> QED BY <1>1, <1>2, NothingSaved

\* Moving on to pc without touching anything else of the sync.
LEMMA GotoTyped ==
  ASSUME SyncInv, NEW k \in Sources, NEW c \in Connectors, sync[k][c].pc # "idle",
         NEW pc \in {"list", "failed", "exists", "save", "job", "publish"}, Goto(k, c, pc)
  PROVE  \E s \in Sync : /\ sync' = [sync EXCEPT ![k][c] = s] /\ s.pc = pc
                         /\ s.copy = sync[k][c].copy /\ s.repo = sync[k][c].repo
<1> DEFINE s == [sync[k][c] EXCEPT !.pc = pc]
<1>1. sync[k][c] \in Sync /\ sync \in [Sources -> [Connectors -> Sync]]
  BY AtWork
<1>2. s \in Sync /\ s.pc = pc /\ s.copy = sync[k][c].copy /\ s.repo = sync[k][c].repo
  BY <1>1 DEF Sync
<1>3. sync' = [sync EXCEPT ![k][c] = s]
  BY <1>1 DEF Goto
<1> QED BY <1>2, <1>3

LEMMA CheckExistsStep ==
  ASSUME SyncInv, NEW k \in Sources, NEW c \in Connectors, CheckExists(k, c)
  PROVE  SyncInv'
<1>1. /\ sync[k][c].pc = "next" /\ sync \in [Sources -> [Connectors -> Sync]]
      /\ sync[k][c] \in Sync /\ SyncOK(sync[k][c], c)
  BY AtWork DEF CheckExists, At
<1>2. row[c].status # "none"
  BY <1>1 DEF SyncInv, SyncTypeOK
<1> PICK r \in sync[k][c].todo :
       \/ /\ sync' = [sync EXCEPT ![k][c].pc = IF r \in repos THEN "exists" ELSE "save",
                                   ![k][c].repo = r]
          /\ UNCHANGED faults
       \/ Fault /\ Skip(k, c, r)
  BY DEF CheckExists
<1>3. CASE Fault /\ Skip(k, c, r)
  BY <1>1, <1>3, SkipSavesNothing DEF CheckExists
<1>4. CASE /\ sync' = [sync EXCEPT ![k][c].pc = IF r \in repos THEN "exists" ELSE "save",
                                    ![k][c].repo = r]
           /\ UNCHANGED faults
  <2>1. \E s \in Sync : /\ sync' = [sync EXCEPT ![k][c] = s] /\ s.repo = r
                         /\ s.pc \in {"exists", "save"} /\ (s.pc = "exists" => r \in repos)
                         /\ s.copy = sync[k][c].copy
    <3> DEFINE pc == IF r \in repos THEN "exists" ELSE "save"
               s == [sync[k][c] EXCEPT !.pc = pc, !.repo = r]
    <3>1. pc \in {"exists", "save"} /\ (pc = "exists" => r \in repos) /\ r \in Repositories
      BY <1>1 DEF Sync
    <3>2. sync' = [sync EXCEPT ![k][c] = s]
      BY <1>1, <1>4
    <3> HIDE DEF pc
    <3>3. s \in Sync /\ s.pc = pc /\ s.copy = sync[k][c].copy /\ s.repo = r
      BY <1>1, <3>1 DEF Sync
    <3> HIDE DEF s
    <3> QED BY <3>1, <3>2, <3>3
  <2> PICK s \in Sync : /\ sync' = [sync EXCEPT ![k][c] = s] /\ s.repo = r
                        /\ s.pc \in {"exists", "save"} /\ (s.pc = "exists" => r \in repos)
                        /\ s.copy = sync[k][c].copy
    BY <2>1
  <2>2. SyncOK(s, c)'
    BY <1>1, <1>4 DEF SyncOK, CheckExists, others
  <2> QED BY <1>1, <1>2, <1>4, <2>2, NothingSaved DEF CheckExists
<1> QED BY <1>3, <1>4

LEMMA FindPendingJobStep ==
  ASSUME SyncInv, NEW k \in Sources, NEW c \in Connectors, FindPendingJob(k, c)
  PROVE  SyncInv'
<1> DEFINE r == sync[k][c].repo
<1>1. /\ sync[k][c].pc = "exists" /\ SyncOK(sync[k][c], c) /\ r \in Repositories
  BY AtWork DEF FindPendingJob, At, Sync
<1>2. CASE jobs[r].pending /\ Goto(k, c, "publish") /\ UNCHANGED faults
  <2>1. row[c].status # "none" /\ jobs[r].made > 0
    BY <1>1, <1>2 DEF SyncInv, SyncTypeOK, JobsOK
  <2> PICK s \in Sync : /\ sync' = [sync EXCEPT ![k][c] = s] /\ s.pc = "publish"
                        /\ s.copy = sync[k][c].copy /\ s.repo = sync[k][c].repo
    BY <1>1, <1>2, GotoTyped
  <2>2. SyncOK(s, c)'
    BY <1>1, <1>2, <2>1 DEF SyncOK, FindPendingJob, others
  <2> QED BY <1>1, <1>2, <2>1, <2>2, NothingSaved DEF FindPendingJob
<1>3. CASE Skip(k, c, r)
  BY <1>1, <1>3, SkipSavesNothing DEF FindPendingJob
<1> QED BY <1>2, <1>3 DEF FindPendingJob

\* A step that changes neither repositories nor jobs, nor what is on the stream.
LEMMA TablesKept ==
  ASSUME SyncInv, UNCHANGED <<repos, jobs, stream, publisher>>
  PROVE  /\ publisher' \in [Sources -> Publisher] /\ stream' \subseteq Repositories
         /\ repos \subseteq repos' /\ repos' \subseteq Repositories
         /\ jobs' \in [Repositories -> JobRows]
         /\ \A r \in Repositories : jobs'[r].made >= jobs[r].made
         /\ MessageHasJob' /\ OneJobPerRepository' /\ JobsOK'
         /\ \A l \in Sources, d \in Connectors :
              sync[l][d].pc = "job" => jobs'[sync[l][d].repo].made = 0
<1>1. /\ SyncTypeOK /\ MessageHasJob /\ OneJobPerRepository /\ JobsOK
      /\ \A l \in Sources, d \in Connectors : SyncOK(sync[l][d], d)
  BY DEF SyncInv
<1> QED BY <1>1 DEF SyncTypeOK, JobRows, MessageHasJob, OneJobPerRepository, JobsOK, SyncOK

LEMMA WriteRowTyped ==
  ASSUME SyncInv, NEW k \in Sources, NEW c \in Connectors, sync[k][c].pc # "idle",
         NEW status \in Statuses \ {"none"}, WriteRow(k, c, status)
  PROVE  /\ row' \in [Connectors -> Row]
         /\ \A d \in Connectors \ {c} : row'[d] = row[d]
         /\ row'[c].status = status /\ row'[c].version = sync[k][c].copy.version
<1> DEFINE new == [sync[k][c].copy EXCEPT !.status = status]
<1>1. sync[k][c].copy \in Row /\ row \in [Connectors -> Row]
  BY AtWork DEF Sync
<1>2. new \in Row /\ new.status = status /\ new.version = sync[k][c].copy.version
  BY <1>1 DEF Row
<1>3. row' = [row EXCEPT ![c] = new]
  BY DEF WriteRow
<1> HIDE DEF new
<1> QED BY <1>1, <1>2, <1>3

LEMMA MarkSyncStartedStep ==
  ASSUME SyncInv, NEW k \in Sources, NEW c \in Connectors, MarkSyncStarted(k, c)
  PROVE  SyncInv'
<1>1. sync[k][c].pc = "start" /\ SyncOK(sync[k][c], c)
  BY AtWork DEF MarkSyncStarted, At
<1>2. CASE WriteRow(k, c, "syncing") /\ Goto(k, c, "list") /\ UNCHANGED faults
  <2>1. /\ row' \in [Connectors -> Row] /\ \A d \in Connectors \ {c} : row'[d] = row[d]
        /\ row'[c].status = "syncing" /\ row'[c].version = sync[k][c].copy.version
    BY <1>1, <1>2, WriteRowTyped DEF Statuses
  <2> PICK s \in Sync : /\ sync' = [sync EXCEPT ![k][c] = s] /\ s.pc = "list"
                        /\ s.copy = sync[k][c].copy /\ s.repo = sync[k][c].repo
    BY <1>1, <1>2, GotoTyped
  <2>2. SyncOK(s, c)'
    BY <1>1, <1>2 DEF SyncOK, MarkSyncStarted, others
  <2>3. UNCHANGED <<others, repos, jobs, stream, publisher>>
    BY DEF MarkSyncStarted
  <2>4. \A d \in Connectors : row[d].status # "none" => row'[d].status # "none"
    BY <2>1
  <2>5. faults = 0 =>
        config[c] # 0 /\ (config[c] # Invalid => sync[k][c].copy.version = config[c])
    BY <1>1 DEF SyncOK
  <2>6. SyncMove(k, c, s)
    BY <1>1, <1>2, <2>1, <2>3, <2>4, <2>5, TablesKept DEF SyncMove
  <2> QED BY <2>2, <2>6, SyncMoves
<1>3. CASE Fault /\ End(k, c) /\ UNCHANGED row
  <2>1. SyncOK(NoSync, c)'
    BY Fresh DEF SyncOK
  <2> QED BY <1>1, <1>3, <2>1, Fresh, NothingSaved DEF MarkSyncStarted, End
<1> QED BY <1>2, <1>3 DEF MarkSyncStarted

LEMMA MarkSyncEndedStep ==
  ASSUME SyncInv, NEW k \in Sources, NEW c \in Connectors, MarkSyncEnded(k, c)
  PROVE  SyncInv'
<1>1. /\ sync[k][c].pc \in {"failed", "next"} /\ SyncOK(sync[k][c], c)
      /\ sync' = [sync EXCEPT ![k][c] = NoSync] /\ faults \in Nat
  BY AtWork DEF MarkSyncEnded, At, End
<1>2. SyncOK(NoSync, c)'
  BY Fresh DEF SyncOK
<1>3. UNCHANGED <<others, repos, jobs, stream, publisher>>
  BY DEF MarkSyncEnded
<1>4. CASE /\ WriteRow(k, c, IF At(k, c, "failed") THEN "error" ELSE "active")
           /\ UNCHANGED faults
  <2>1. PICK status \in {"error", "active"} : WriteRow(k, c, status)
    BY <1>4
  <2>2. /\ row' \in [Connectors -> Row] /\ \A d \in Connectors \ {c} : row'[d] = row[d]
        /\ row'[c].status = status /\ row'[c].version = sync[k][c].copy.version
    BY <1>1, <2>1, WriteRowTyped DEF Statuses
  <2>3. \A d \in Connectors : row[d].status # "none" => row'[d].status # "none"
    BY <2>2
  <2>4. faults = 0 =>
        config[c] # 0 /\ (config[c] # Invalid => sync[k][c].copy.version = config[c])
    BY <1>1 DEF SyncOK
  <2>5. SyncMove(k, c, NoSync)
    BY <1>1, <1>3, <1>4, <2>2, <2>3, <2>4, TablesKept, Fresh DEF SyncMove
  <2> QED BY <1>2, <2>5, SyncMoves, Fresh
<1>5. CASE Fault /\ UNCHANGED row
  <2>1. faults' # 0
    BY <1>1, <1>5 DEF Fault
  <2>2. row \in [Connectors -> Row]
    BY DEF SyncInv, SyncTypeOK
  <2>3. SyncMove(k, c, NoSync)
    BY <1>1, <1>3, <1>5, <2>1, <2>2, TablesKept, Fresh DEF SyncMove
  <2> QED BY <1>2, <2>3, SyncMoves, Fresh
<1> QED BY <1>4, <1>5 DEF MarkSyncEnded

\* The unique index lets one sync only insert the repository, and that one has not made
\* a job for it yet; nor has anybody else.
LEMMA SaveRepositoryStep ==
  ASSUME SyncInv, NEW k \in Sources, NEW c \in Connectors, SaveRepository(k, c)
  PROVE  SyncInv'
<1> DEFINE r == sync[k][c].repo
<1>1. /\ sync[k][c].pc = "save" /\ SyncOK(sync[k][c], c) /\ r \in Repositories
      /\ row[c].status # "none" /\ row \in [Connectors -> Row]
  BY AtWork DEF SaveRepository, At, Sync, SyncInv, SyncTypeOK
<1>2. CASE r \notin repos /\ repos' = repos \cup {r} /\ Goto(k, c, "job") /\ UNCHANGED faults
  <2>1. /\ SyncTypeOK /\ MessageHasJob /\ OneJobPerRepository /\ JobsOK
        /\ \A l \in Sources, d \in Connectors : SyncOK(sync[l][d], d)
    BY DEF SyncInv
  <2>2. UNCHANGED <<others, row, jobs, stream, publisher>>
    BY DEF SaveRepository
  <2>3. jobs[r].made = 0
    BY <1>1, <1>2, <2>1 DEF JobsOK
  <2> PICK s \in Sync : /\ sync' = [sync EXCEPT ![k][c] = s] /\ s.pc = "job"
                        /\ s.copy = sync[k][c].copy /\ s.repo = sync[k][c].repo
    BY <1>1, <1>2, GotoTyped
  <2>4. SyncOK(s, c)'
    BY <1>1, <1>2, <2>2, <2>3 DEF SyncOK, others
  <2>5. ASSUME NEW l \in Sources, NEW d \in Connectors, sync[l][d].pc = "job"
        PROVE  jobs'[sync[l][d].repo].made = 0 /\ sync[l][d].repo # s.repo
    BY <1>2, <2>1, <2>2, <2>5 DEF SyncOK
  <2>6. /\ publisher' \in [Sources -> Publisher] /\ stream' \subseteq Repositories
        /\ repos \subseteq repos' /\ repos' \subseteq Repositories
        /\ jobs' \in [Repositories -> JobRows]
        /\ \A q \in Repositories : jobs'[q].made >= jobs[q].made
    BY <1>1, <1>2, <2>1, <2>2 DEF SyncTypeOK, JobRows
  <2>7. MessageHasJob' /\ OneJobPerRepository' /\ JobsOK'
    BY <1>2, <2>1, <2>2 DEF MessageHasJob, OneJobPerRepository, JobsOK
  <2>8. SyncMove(k, c, s)
    BY <1>1, <1>2, <2>2, <2>5, <2>6, <2>7 DEF SyncMove
  <2> QED BY <2>4, <2>8, SyncMoves
<1>3. CASE Skip(k, c, r) /\ UNCHANGED repos
  BY <1>1, <1>3, SkipSavesNothing DEF SaveRepository
<1> QED BY <1>2, <1>3 DEF SaveRepository

LEMMA SaveJobStep ==
  ASSUME SyncInv, NEW k \in Sources, NEW c \in Connectors, SaveJob(k, c)
  PROVE  SyncInv'
<1> DEFINE r == sync[k][c].repo
<1>1. /\ sync[k][c].pc = "job" /\ SyncOK(sync[k][c], c) /\ r \in Repositories
      /\ row[c].status # "none" /\ row \in [Connectors -> Row]
  BY AtWork DEF SaveJob, At, Sync, SyncInv, SyncTypeOK
<1>2. CASE /\ jobs' = [jobs EXCEPT ![r] = [made |-> @.made + 1, pending |-> TRUE]]
           /\ Goto(k, c, "publish") /\ UNCHANGED faults
  <2>1. /\ SyncTypeOK /\ MessageHasJob /\ OneJobPerRepository /\ JobsOK /\ JobMakersDiffer
        /\ \A l \in Sources, d \in Connectors :
             SyncOK(sync[l][d], d) /\ sync[l][d].repo \in Repositories
    BY DEF SyncInv, SyncTypeOK, Sync
  <2>2. UNCHANGED <<others, row, repos, stream, publisher>>
    BY DEF SaveJob
  <2>3. /\ jobs[r].made = 0 /\ r \in repos
        /\ \A q \in Repositories : jobs[q].made \in Nat
    BY <1>1, <2>1 DEF SyncOK, SyncTypeOK
  <2>4. /\ jobs' \in [Repositories -> JobRows] /\ jobs'[r].made = 1
        /\ \A q \in Repositories \ {r} : jobs'[q] = jobs[q]
    BY <1>1, <1>2, <2>1, <2>3 DEF SyncTypeOK, JobRows
  <2> PICK s \in Sync : /\ sync' = [sync EXCEPT ![k][c] = s] /\ s.pc = "publish"
                        /\ s.copy = sync[k][c].copy /\ s.repo = sync[k][c].repo
    BY <1>1, <1>2, GotoTyped
  <2>5. SyncOK(s, c)'
    BY <1>1, <1>2, <2>2, <2>3, <2>4 DEF SyncOK, others
  <2>6. ASSUME NEW l \in Sources, NEW d \in Connectors, sync[l][d].pc = "job", l # k \/ d # c
        PROVE  jobs'[sync[l][d].repo].made = 0
    <3>1. sync[l][d].repo # r
      BY <1>1, <2>1, <2>6 DEF JobMakersDiffer
    <3> QED BY <2>1, <2>4, <2>6, <3>1 DEF SyncOK
  <2>7. \A q \in Repositories : jobs'[q].made >= jobs[q].made
    BY <2>3, <2>4
  <2>8. ASSUME NEW q \in Repositories
        PROVE  /\ q \in stream => q \in repos /\ jobs'[q].made > 0
               /\ jobs'[q].made <= 1
               /\ q \notin repos => jobs'[q].made = 0
               /\ jobs'[q].pending => jobs'[q].made > 0
    <3>1. CASE q = r
      BY <2>3, <2>4, <3>1
    <3>2. CASE q # r
      <4>1. jobs'[q] = jobs[q]
        BY <2>4, <3>2
      <4> QED BY <2>1, <4>1 DEF MessageHasJob, OneJobPerRepository, JobsOK
    <3> QED BY <3>1, <3>2
  <2>11. MessageHasJob' /\ OneJobPerRepository' /\ JobsOK'
    BY <2>1, <2>2, <2>8 DEF MessageHasJob, OneJobPerRepository, JobsOK, SyncTypeOK
  <2>9. /\ publisher' \in [Sources -> Publisher] /\ stream' \subseteq Repositories
        /\ repos \subseteq repos' /\ repos' \subseteq Repositories
    BY <2>1, <2>2 DEF SyncTypeOK
  <2>10. SyncMove(k, c, s)
    BY <1>1, <1>2, <2>2, <2>4, <2>6, <2>7, <2>9, <2>11 DEF SyncMove
  <2> QED BY <2>5, <2>10, SyncMoves
<1>3. CASE Skip(k, c, r) /\ UNCHANGED jobs
  BY <1>1, <1>3, SkipSavesNothing DEF SaveJob
<1> QED BY <1>2, <1>3 DEF SaveJob

LEMMA PublishJobStep ==
  ASSUME SyncInv, NEW k \in Sources, NEW c \in Connectors, PublishJob(k, c)
  PROVE  SyncInv'
<1> DEFINE r == sync[k][c].repo
<1>1. /\ sync[k][c].pc = "publish" /\ SyncOK(sync[k][c], c) /\ r \in Repositories
      /\ row[c].status # "none" /\ row \in [Connectors -> Row]
  BY AtWork DEF PublishJob, At, Sync, SyncInv, SyncTypeOK
<1>2. /\ SyncTypeOK /\ MessageHasJob /\ OneJobPerRepository /\ JobsOK
      /\ \A l \in Sources, d \in Connectors : SyncOK(sync[l][d], d)
  BY DEF SyncInv
<1>3. UNCHANGED <<others, row, repos, jobs>> /\ (Fault \/ UNCHANGED faults)
  BY DEF PublishJob, PublishIndexingJob
<1>4. publisher' \in [Sources -> Publisher]
  <2>1. publisher \in [Sources -> Publisher] /\ Failed(publisher[k]) \in Publisher
    BY <1>2, FailedTyped DEF SyncTypeOK
  <2> QED BY <2>1 DEF PublishJob, PublishIndexingJob
<1>5. stream' \subseteq stream \cup {r}
  BY DEF PublishJob, PublishIndexingJob
<1>6. MessageHasJob' /\ OneJobPerRepository' /\ JobsOK' /\ stream' \subseteq Repositories
  BY <1>1, <1>2, <1>3, <1>5 DEF MessageHasJob, OneJobPerRepository, JobsOK, SyncOK, SyncTypeOK
<1> PICK s \in Sync : /\ sync' = [sync EXCEPT ![k][c] = s]
                      /\ s.pc = "next" /\ s.copy = sync[k][c].copy
  BY <1>1, SkipTyped DEF PublishJob
<1>7. faults' = 0 => faults = 0
  BY <1>2, <1>3, FaultsKept DEF SyncTypeOK
<1>8. SyncOK(s, c)'
  BY <1>1, <1>3, <1>7 DEF SyncOK, others
<1>9. /\ repos \subseteq repos' /\ repos' \subseteq Repositories
      /\ jobs' \in [Repositories -> JobRows]
      /\ \A q \in Repositories : jobs'[q].made >= jobs[q].made
  BY <1>2, <1>3 DEF SyncTypeOK, JobRows
<1>10. \A l \in Sources, d \in Connectors :
         sync[l][d].pc = "job" => jobs'[sync[l][d].repo].made = 0
  BY <1>2, <1>3 DEF SyncOK
<1>11. SyncMove(k, c, s)
  BY <1>1, <1>3, <1>4, <1>6, <1>9, <1>10 DEF SyncMove
<1> QED BY <1>8, <1>11, SyncMoves

-----------------------------------------------------------------------------
(* Steps of the process and of its surroundings.                           *)

\* Nothing is said of repositories and jobs but what the tables and the stream show.
LEMMA JobsStay ==
  ASSUME SyncInv, UNCHANGED <<repos, jobs, stream>>
  PROVE  MessageHasJob' /\ OneJobPerRepository' /\ JobsOK'
BY DEF SyncInv, MessageHasJob, OneJobPerRepository, JobsOK

\* No sync is at work in a process that does not serve yet.
LEMMA Asleep ==
  ASSUME SyncInv, phase # "serving", UNCHANGED sync
  PROVE  /\ \A k \in Sources, c \in Connectors :
              sync[k][c].pc = "idle" /\ sync'[k][c].pc = "idle"
         /\ JobMakersDiffer' /\ \A k \in Sources, c \in Connectors : SyncOK(sync[k][c], c)'
<1>1. \A k \in Sources, c \in Connectors : sync[k][c].pc = "idle" /\ sync'[k][c].pc = "idle"
  BY DEF SyncInv, SyncTypeOK
<1> QED BY <1>1 DEF JobMakersDiffer, SyncOK

LEMMA EditConfigStep ==
  ASSUME SyncInv, NEW c \in Connectors, EditConfig(c) PROVE SyncInv'
<1>1. SyncTypeOK /\ ListerOK
  BY DEF SyncInv
<1>2. /\ phase = "down"
      /\ UNCHANGED <<row, created, repos, jobs, stream, phase, todo, lister, publisher,
                     sync, starts, faults>>
  BY DEF EditConfig, tables, process
<1>3. config' \in [Connectors -> 0..Invalid] /\ \A d \in Connectors : config'[d] \in Versions(d)
  <2>1. PICK v \in Versions(c) : config' = [config EXCEPT ![c] = v]
    BY DEF EditConfig
  <2>2. v \in 0..Invalid
    BY <2>1, Bounds DEF Versions, Invalid
  <2> QED BY <1>1, <2>1, <2>2 DEF SyncTypeOK
<1>4. SyncTypeOK'
  BY <1>1, <1>2, <1>3 DEF SyncTypeOK
<1>5. ConfigWins' /\ SyncingHasSync' /\ RepairsOK' /\ ListerOK'
  BY <1>1, <1>2 DEF ConfigWins, SyncingHasSync, RepairsOK, ListerOK, Configured
<1> QED BY <1>2, <1>4, <1>5, JobsStay, Asleep DEF SyncInv

LEMMA StartStep ==
  ASSUME SyncInv, Start PROVE SyncInv'
<1>1. SyncTypeOK /\ ListerOK /\ faults \in Nat
  BY Bounds DEF SyncInv, SyncTypeOK
<1>2. /\ phase = "down" /\ phase' \in {"reconciling", "connecting"}
      /\ UNCHANGED <<config, row, created, repos, jobs, stream, lister, publisher, sync>>
  BY DEF Start, tables
<1>3. todo' \subseteq Connectors /\ faults' \in 0..MaxFaults /\ starts' \in 0..MaxStarts
  BY <1>1, FaultsKept, Bounds DEF Start, SyncTypeOK
<1>4. SyncTypeOK'
  BY <1>1, <1>2, <1>3, Asleep DEF SyncTypeOK
<1>5. ConfigWins' /\ SyncingHasSync' /\ ListerOK'
  BY <1>1, <1>2 DEF ConfigWins, SyncingHasSync, ListerOK, Configured
<1>6. RepairsOK'
  BY <1>1, <1>2 DEF RepairsOK, Start, Fault
<1> QED BY <1>2, <1>4, <1>5, <1>6, JobsStay, Asleep DEF SyncInv

\* What reconciling makes of a row.
LEMMA ReconciledRepairs ==
  ASSUME NEW old \in Row, NEW version \in 0..Invalid
  PROVE  LET new == Reconciled(old, version)
         IN /\ new \in Row
            /\ version # Invalid =>
                 /\ new.status \notin {"none", "syncing"}
                 /\ IF version = 0 THEN new.status = "inactive"
                    ELSE new.version = version /\ new.status # "inactive"
<1>1. CASE version = Invalid
  <2>1. Reconciled(old, version) = old
    BY <1>1, InvalidIs DEF Reconciled
  <2> QED BY <1>1, <2>1
<1>2. CASE version # Invalid
  <2>1. version \in 0..MaxVersions
    BY <1>2, Bounds DEF Invalid
  <2> QED BY <1>2, <2>1 DEF Reconciled, Row, Statuses
<1> QED BY <1>1, <1>2

LEMMA ReconcileStep ==
  ASSUME SyncInv, NEW c \in Connectors, Reconcile(c) PROVE SyncInv'
<1> DEFINE new == Reconciled(row[c], config[c])
<1>1. /\ SyncTypeOK /\ ListerOK /\ RepairsOK /\ faults \in Nat
      /\ row[c] \in Row /\ config[c] \in 0..Invalid
  BY Bounds DEF SyncInv, SyncTypeOK
<1>2. /\ phase = "reconciling" /\ todo' = todo \ {c}
      /\ UNCHANGED <<config, repos, jobs, stream, phase, lister, publisher, sync, starts>>
  BY DEF Reconcile
<1>3. /\ new \in Row
      /\ config[c] # Invalid =>
           /\ new.status \notin {"none", "syncing"}
           /\ IF config[c] = 0 THEN new.status = "inactive"
              ELSE new.version = config[c] /\ new.status # "inactive"
  BY <1>1, ReconciledRepairs
<1> HIDE DEF new
<1>4. /\ row' = row \/ row' = [row EXCEPT ![c] = new]
      /\ Fault \/ UNCHANGED faults
      /\ \/ row' = [row EXCEPT ![c] = new]
         \/ new = row[c] /\ row' = row
         \/ config[c] = 0 /\ row[c].status = "none" /\ row' = row
         \/ Fault
  BY DEF Reconcile, new
<1>5. row' \in [Connectors -> Row] /\ faults' \in 0..MaxFaults /\ (faults' = 0 => faults = 0)
  BY <1>1, <1>3, <1>4, FaultsKept DEF SyncTypeOK
<1>6. SyncTypeOK'
  BY <1>1, <1>2, <1>5, Asleep DEF SyncTypeOK
<1>7. ConfigWins' /\ SyncingHasSync' /\ ListerOK'
  BY <1>1, <1>2 DEF ConfigWins, SyncingHasSync, ListerOK, Configured
<1>8. RepairsOK'
  <2> SUFFICES ASSUME faults' = 0, NEW d \in Connectors \ todo' PROVE Repaired(d)'
    BY <1>2 DEF RepairsOK
  <2>1. ~Fault /\ faults = 0
    BY <1>1, <1>5 DEF Fault
  <2>2. CASE d = c
    <3>1. CASE row' = [row EXCEPT ![c] = new]
      BY <1>1, <1>2, <1>3, <2>2, <3>1 DEF Repaired, Configured, SyncTypeOK
    <3>2. CASE new = row[c] /\ row' = row
      BY <1>2, <1>3, <2>2, <3>2 DEF Repaired, Configured
    <3>3. CASE config[c] = 0 /\ row[c].status = "none" /\ row' = row
      BY <1>2, <2>2, <3>3 DEF Repaired, Configured
    <3> QED BY <1>4, <2>1, <3>1, <3>2, <3>3
  <2>3. CASE d # c
    <3>1. Repaired(d)
      BY <1>1, <1>2, <2>1, <2>3 DEF RepairsOK
    <3>2. row'[d] = row[d]
      BY <1>1, <1>4, <2>3 DEF SyncTypeOK
    <3> QED BY <1>2, <3>1, <3>2 DEF Repaired, Configured
  <2> QED BY <2>2, <2>3
<1> QED BY <1>2, <1>6, <1>7, <1>8, JobsStay, Asleep DEF SyncInv

LEMMA ReconcileEndsStep ==
  ASSUME SyncInv, ReconcileEnds PROVE SyncInv'
<1>1. SyncTypeOK /\ ListerOK /\ RepairsOK
  BY DEF SyncInv
<1>2. /\ phase = "reconciling" /\ phase' = "connecting" /\ todo = {}
      /\ UNCHANGED <<config, row, created, repos, jobs, stream, todo, lister, publisher,
                     sync, starts, faults>>
  BY DEF ReconcileEnds, tables
<1>3. SyncTypeOK'
  BY <1>1, <1>2, Asleep DEF SyncTypeOK
<1>4. ConfigWins' /\ SyncingHasSync' /\ ListerOK' /\ RepairsOK'
  BY <1>1, <1>2 DEF ConfigWins, SyncingHasSync, ListerOK, RepairsOK, Repaired, Configured
<1> QED BY <1>2, <1>3, <1>4, JobsStay, Asleep DEF SyncInv

LEMMA ConnectStep ==
  ASSUME SyncInv, Connect PROVE SyncInv'
<1>1. SyncTypeOK /\ ListerOK /\ RepairsOK /\ faults \in Nat
  BY Bounds DEF SyncInv, SyncTypeOK
<1>2. /\ phase = "connecting" /\ phase' = "serving" /\ (Fault \/ UNCHANGED faults)
      /\ UNCHANGED <<config, row, created, repos, jobs, stream, todo, sync, starts>>
      /\ lister' = [NoLister EXCEPT !.pc = "page"]
  BY DEF Connect, tables
<1>3. publisher' \in [Sources -> Publisher]
  <2>1. [NoPublisher EXCEPT !.kind = "mock"] \in Publisher
        /\ [NoPublisher EXCEPT !.kind = "nats"] \in Publisher
    BY Fresh DEF Publisher
  <2>2. PICK mocked \in SUBSET Sources :
          publisher' = [k \in Sources |->
            [NoPublisher EXCEPT !.kind = IF k \in mocked THEN "mock" ELSE "nats"]]
    BY DEF Connect
  <2>3. \A k \in Sources : publisher'[k] \in Publisher
    BY <2>1, <2>2
  <2> QED BY <2>2, <2>3
<1>4. faults' \in 0..MaxFaults /\ (faults' = 0 => faults = 0)
  BY <1>1, <1>2, FaultsKept DEF SyncTypeOK
<1>5. SyncTypeOK'
  BY <1>1, <1>2, <1>3, <1>4, Asleep DEF SyncTypeOK
<1>6. ConfigWins' /\ SyncingHasSync'
  BY <1>1, <1>2, <1>4 DEF ConfigWins, SyncingHasSync, RepairsOK, Repaired, Configured
<1>7. RepairsOK' /\ ListerOK'
  BY <1>2 DEF RepairsOK, ListerOK, NoLister
<1> QED BY <1>2, <1>5, <1>6, <1>7, JobsStay, Asleep DEF SyncInv

LEMMA StopStep ==
  ASSUME SyncInv, Stop PROVE SyncInv'
<1>1. SyncTypeOK
  BY DEF SyncInv
<1>2. /\ phase' = "down" /\ todo' = {} /\ lister' = NoLister
      /\ UNCHANGED <<config, row, created, repos, jobs, stream, starts, faults>>
  BY DEF Stop, tables
<1>3. /\ publisher' \in [Sources -> Publisher] /\ sync' \in [Sources -> [Connectors -> Sync]]
      /\ \A k \in Sources, c \in Connectors : sync'[k][c].pc = "idle"
  BY Fresh DEF Stop
<1>4. SyncTypeOK'
  BY <1>1, <1>2, <1>3 DEF SyncTypeOK
<1>5. JobMakersDiffer' /\ \A k \in Sources, c \in Connectors : SyncOK(sync[k][c], c)'
  BY <1>3 DEF JobMakersDiffer, SyncOK
<1>6. ConfigWins' /\ SyncingHasSync' /\ RepairsOK' /\ ListerOK'
  BY <1>2 DEF ConfigWins, SyncingHasSync, RepairsOK, ListerOK, NoLister, Configured
<1> QED BY <1>2, <1>4, <1>5, <1>6, JobsStay DEF SyncInv

\* A step of the lister that begins no sync, or of a publisher.
LEMMA SyncsStay ==
  ASSUME SyncInv, UNCHANGED <<config, tables, phase, todo, sync, starts>>,
         Fault \/ UNCHANGED faults, publisher' \in [Sources -> Publisher], ListerOK'
  PROVE  SyncInv'
<1>1. /\ SyncTypeOK /\ ConfigWins /\ SyncingHasSync /\ RepairsOK /\ JobMakersDiffer
      /\ \A k \in Sources, c \in Connectors : SyncOK(sync[k][c], c)
  BY DEF SyncInv
<1>2. UNCHANGED <<config, row, created, repos, jobs, stream, phase, todo, sync, starts>>
  BY DEF tables
<1>3. faults' \in 0..MaxFaults /\ (faults' = 0 => faults = 0)
  BY <1>1, FaultsKept DEF SyncTypeOK
<1>4. SyncTypeOK'
  BY <1>1, <1>2, <1>3 DEF SyncTypeOK
<1>5. ConfigWins' /\ SyncingHasSync'
  BY <1>1, <1>2, <1>3 DEF ConfigWins, SyncingHasSync, Configured
<1>6. RepairsOK' /\ JobMakersDiffer'
  BY <1>1, <1>2, <1>3 DEF RepairsOK, Repaired, JobMakersDiffer, Configured
<1>7. \A k \in Sources, c \in Connectors : SyncOK(sync[k][c], c)'
  BY <1>1, <1>2, <1>3 DEF SyncOK
<1> QED BY <1>2, <1>4, <1>5, <1>6, <1>7, JobsStay DEF SyncInv

LEMMA ListerStep ==
  ASSUME SyncInv, ListPage \/ NextPage PROVE SyncInv'
<1>1. /\ DOMAIN lister = DOMAIN NoLister /\ phase = "serving"
      /\ publisher \in [Sources -> Publisher]
  BY DEF SyncInv, ListerOK, ListPage, NextPage, SyncTypeOK
<1>2. /\ UNCHANGED <<config, tables, phase, todo, sync, starts, publisher>>
      /\ Fault \/ UNCHANGED faults
  BY DEF ListPage, NextPage
<1>3. DOMAIN lister' = DOMAIN lister
  BY DEF ListPage, NextPage
<1>4. ListerOK'
  BY <1>1, <1>2, <1>3 DEF ListerOK
<1> QED BY <1>1, <1>2, <1>4, SyncsStay

LEMMA TimePassesStep ==
  ASSUME SyncInv, NEW k \in Sources, TimePasses(k) PROVE SyncInv'
<1>1. publisher \in [Sources -> Publisher] /\ publisher[k] \in Publisher /\ ListerOK
  BY DEF SyncInv, SyncTypeOK
<1>2. [publisher[k] EXCEPT !.cooled = TRUE] \in Publisher
  BY <1>1 DEF Publisher
<1>3. publisher' \in [Sources -> Publisher]
  BY <1>1, <1>2 DEF TimePasses
<1>4. UNCHANGED <<config, tables, phase, todo, sync, starts, lister, faults>>
  BY DEF TimePasses
<1>5. ListerOK'
  BY <1>1, <1>4 DEF ListerOK
<1> QED BY <1>3, <1>4, <1>5, SyncsStay

\* A sync is begun, by the lister or for a request.
LEMMA SyncBegins ==
  ASSUME SyncInv, NEW k \in Sources, NEW c \in Connectors, sync[k][c].pc = "idle",
         sync' = [sync EXCEPT ![k][c].pc = "find"], phase = "serving", ListerOK',
         UNCHANGED <<config, tables, phase, todo, publisher, starts, faults>>
  PROVE  SyncInv'
<1>1. /\ SyncTypeOK /\ ConfigWins /\ SyncingHasSync /\ RepairsOK /\ JobMakersDiffer
      /\ \A l \in Sources, d \in Connectors : SyncOK(sync[l][d], d)
  BY DEF SyncInv
<1>2. UNCHANGED <<config, row, created, repos, jobs, stream, phase, todo, publisher, starts,
                  faults>>
  BY DEF tables
<1>3. /\ sync' \in [Sources -> [Connectors -> Sync]] /\ sync'[k][c].pc = "find"
      /\ \A l \in Sources, d \in Connectors : (l # k \/ d # c) => sync'[l][d] = sync[l][d]
  <2>1. sync \in [Sources -> [Connectors -> Sync]]
    BY <1>1 DEF SyncTypeOK
  <2>2. [sync[k][c] EXCEPT !.pc = "find"] \in Sync
        /\ [sync[k][c] EXCEPT !.pc = "find"].pc = "find"
    <3>1. sync[k][c] \in Sync
      BY <2>1
    <3> QED BY <3>1 DEF Sync
  <2> DEFINE s == [sync[k][c] EXCEPT !.pc = "find"]
  <2>3. sync' = [sync EXCEPT ![k] = [sync[k] EXCEPT ![c] = s]]
    BY <2>1
  <2>4. sync[k] \in [Connectors -> Sync] /\ s \in Sync /\ s.pc = "find"
    BY <2>1, <2>2
  <2> HIDE DEF s
  <2>5. [sync[k] EXCEPT ![c] = s] \in [Connectors -> Sync]
    BY <2>4
  <2>6. sync' \in [Sources -> [Connectors -> Sync]]
    BY <2>1, <2>3, <2>5
  <2>7. sync'[k] = [sync[k] EXCEPT ![c] = s] /\ \A l \in Sources \ {k} : sync'[l] = sync[l]
    BY <2>1, <2>3
  <2>8. sync'[k][c] = s /\ \A d \in Connectors \ {c} : sync'[k][d] = sync[k][d]
    BY <2>4, <2>7
  <2> QED BY <2>4, <2>6, <2>7, <2>8
<1>4. SyncTypeOK'
  <2>1. ASSUME NEW l \in Sources, NEW d \in Connectors
        PROVE  sync'[l][d].pc \notin {"idle", "find"} => row'[d].status # "none"
    BY <1>1, <1>2, <1>3 DEF SyncTypeOK
  <2> QED BY <1>1, <1>2, <1>3, <2>1 DEF SyncTypeOK
<1>5. ConfigWins'
  BY <1>1, <1>2 DEF ConfigWins, Configured
<1>6. SyncingHasSync'
  <2> SUFFICES ASSUME faults' = 0, NEW d \in Connectors, row'[d].status = "syncing",
                      config'[d] # Invalid
               PROVE  \E l \in Sources : sync'[l][d].pc \notin {"idle", "find", "start"}
    BY DEF SyncingHasSync
  <2>1. PICK l \in Sources : sync[l][d].pc \notin {"idle", "find", "start"}
    BY <1>1, <1>2 DEF SyncingHasSync
  <2> QED BY <1>3, <2>1
<1>7. RepairsOK' /\ JobMakersDiffer'
  BY <1>1, <1>2, <1>3 DEF RepairsOK, JobMakersDiffer
<1>8. ASSUME NEW l \in Sources, NEW d \in Connectors PROVE SyncOK(sync[l][d], d)'
  <2>1. CASE l = k /\ d = c
    BY <1>3, <2>1 DEF SyncOK
  <2>2. CASE l # k \/ d # c
    <3>1. SyncOK(sync[l][d], d) /\ sync'[l][d] = sync[l][d]
      BY <1>1, <1>3, <2>2
    <3> QED BY <1>2, <3>1 DEF SyncOK
  <2> QED BY <2>1, <2>2
<1> QED BY <1>2, <1>4, <1>5, <1>6, <1>7, <1>8, JobsStay DEF SyncInv

LEMMA DispatchStep ==
  ASSUME SyncInv, Dispatch PROVE SyncInv'
<1> DEFINE c == Head(lister.queue)
<1>1. /\ DOMAIN lister = DOMAIN NoLister /\ phase = "serving"
      /\ publisher \in [Sources -> Publisher] /\ sync \in [Sources -> [Connectors -> Sync]]
  BY DEF SyncInv, ListerOK, Dispatch, SyncTypeOK
<1>2. /\ UNCHANGED <<config, tables, phase, todo, publisher, starts, faults>>
      /\ sync["startup"][c].pc = "idle" /\ sync' = [sync EXCEPT !["startup"][c].pc = "find"]
      /\ DOMAIN lister' = DOMAIN lister
  BY DEF Dispatch
<1>3. ListerOK' /\ "startup" \in Sources
  BY <1>1, <1>2 DEF ListerOK, Sources
<1> HIDE DEF c
<1>4. CASE c \in Connectors
  BY <1>1, <1>2, <1>3, <1>4, SyncBegins
<1>5. CASE c \notin Connectors
  <2>1. sync["startup"] \in [Connectors -> Sync]
    BY <1>1, <1>3
  <2>2. [sync["startup"] EXCEPT ![c] = [@ EXCEPT !.pc = "find"]] = sync["startup"]
    BY <1>5, <2>1
  <2>3. sync' = sync
    BY <1>1, <1>2, <2>2
  <2> QED BY <1>1, <1>2, <1>3, <2>3, SyncsStay
<1> QED BY <1>4, <1>5

LEMMA RequestStep ==
  ASSUME SyncInv, NEW c \in Connectors, Request(c) PROVE SyncInv'
<1>1. ListerOK' /\ "request" \in Sources
  BY DEF SyncInv, ListerOK, Request, Sources
<1> QED BY <1>1, SyncBegins DEF Request

LEMMA StreamStep ==
  ASSUME SyncInv, NEW r \in Repositories, TakeJob(r) \/ Expire(r) PROVE SyncInv'
<1>1. /\ SyncTypeOK /\ MessageHasJob /\ OneJobPerRepository /\ JobsOK /\ ListerOK
      /\ JobMakersDiffer /\ ConfigWins /\ SyncingHasSync /\ RepairsOK
      /\ \A k \in Sources, c \in Connectors :
           SyncOK(sync[k][c], c) /\ sync[k][c].repo \in Repositories
  BY DEF SyncInv, SyncTypeOK, Sync
<1>2. UNCHANGED <<config, row, created, repos, phase, todo, lister, publisher, sync,
                  starts, faults>>
  BY DEF TakeJob, Expire, process
<1>3. /\ stream' \subseteq stream /\ jobs' \in [Repositories -> JobRows]
      /\ \A q \in Repositories :
           jobs'[q].made = jobs[q].made /\ (jobs'[q].pending => jobs[q].pending)
  <2>1. jobs \in [Repositories -> JobRows] /\ jobs[r] \in JobRows
    BY <1>1 DEF SyncTypeOK, JobRows
  <2>2. [jobs[r] EXCEPT !.pending = FALSE] \in JobRows
        /\ [jobs[r] EXCEPT !.pending = FALSE].made = jobs[r].made
        /\ ~[jobs[r] EXCEPT !.pending = FALSE].pending
    BY <2>1 DEF JobRows
  <2> QED BY <2>1, <2>2 DEF TakeJob, Expire
<1>4. SyncTypeOK'
  BY <1>1, <1>2, <1>3 DEF SyncTypeOK, JobRows
<1>5. MessageHasJob'
  BY <1>1, <1>2, <1>3 DEF MessageHasJob, SyncTypeOK
<1>6. OneJobPerRepository' /\ JobsOK'
  BY <1>1, <1>2, <1>3 DEF OneJobPerRepository, JobsOK
<1>7. ListerOK' /\ JobMakersDiffer' /\ ConfigWins' /\ SyncingHasSync' /\ RepairsOK'
  BY <1>1, <1>2 DEF ListerOK, JobMakersDiffer, ConfigWins, SyncingHasSync, RepairsOK, Repaired, Configured
<1>8. \A k \in Sources, c \in Connectors : SyncOK(sync[k][c], c)'
  BY <1>1, <1>2, <1>3 DEF SyncOK
<1> QED BY <1>4, <1>5, <1>6, <1>7, <1>8 DEF SyncInv

-----------------------------------------------------------------------------
(* The invariant is inductive.                                             *)

LEMMA InitSyncInv == Init => SyncInv
<1> SUFFICES ASSUME Init PROVE SyncInv
  OBVIOUS
<1> USE DEF Init
<1>1. \A k \in Sources, c \in Connectors : sync[k][c] = NoSync
  OBVIOUS
<1>2. SyncTypeOK
  BY <1>1, Bounds, Fresh DEF SyncTypeOK
<1>3. /\ MessageHasJob /\ OneJobPerRepository /\ ConfigWins /\ SyncingHasSync
      /\ RepairsOK /\ JobsOK /\ ListerOK
  BY DEF MessageHasJob, OneJobPerRepository, ConfigWins, SyncingHasSync, RepairsOK,
         JobsOK, ListerOK, NoLister, Configured
<1>4. JobMakersDiffer /\ \A k \in Sources, c \in Connectors : SyncOK(sync[k][c], c)
  BY <1>1, Fresh DEF JobMakersDiffer, SyncOK
<1> QED BY <1>2, <1>3, <1>4 DEF SyncInv

LEMMA SyncStepKeeps ==
  ASSUME SyncInv, NEW k \in Sources, NEW c \in Connectors, SyncStep(k, c)
  PROVE  SyncInv'
<1>1. CASE FindConnector(k, c) BY <1>1, FindConnectorStep
<1>2. CASE MarkSyncStarted(k, c) BY <1>2, MarkSyncStartedStep
<1>3. CASE ListRepositories(k, c) BY <1>3, ListRepositoriesStep
<1>4. CASE CheckExists(k, c) BY <1>4, CheckExistsStep
<1>5. CASE FindPendingJob(k, c) BY <1>5, FindPendingJobStep
<1>6. CASE SaveRepository(k, c) BY <1>6, SaveRepositoryStep
<1>7. CASE SaveJob(k, c) BY <1>7, SaveJobStep
<1>8. CASE PublishJob(k, c) BY <1>8, PublishJobStep
<1>9. CASE MarkSyncEnded(k, c) BY <1>9, MarkSyncEndedStep
<1> QED BY <1>1, <1>2, <1>3, <1>4, <1>5, <1>6, <1>7, <1>8, <1>9 DEF SyncStep

LEMMA NextSyncInv == SyncInv /\ [Next]_vars => SyncInv'
<1> SUFFICES ASSUME SyncInv, [Next]_vars PROVE SyncInv'
  OBVIOUS
<1>1. CASE Start BY <1>1, StartStep
<1>2. CASE ReconcileEnds BY <1>2, ReconcileEndsStep
<1>3. CASE Connect BY <1>3, ConnectStep
<1>4. CASE Stop BY <1>4, StopStep
<1>5. CASE ListPage \/ NextPage BY <1>5, ListerStep
<1>6. CASE Dispatch BY <1>6, DispatchStep
<1>7. ASSUME NEW c \in Connectors,
             EditConfig(c) \/ Reconcile(c) \/ Request(c) \/ \E k \in Sources : SyncStep(k, c)
      PROVE  SyncInv'
  BY <1>7, EditConfigStep, ReconcileStep, RequestStep, SyncStepKeeps
<1>8. ASSUME NEW k \in Sources, TimePasses(k) PROVE SyncInv'
  BY <1>8, TimePassesStep
<1>9. ASSUME NEW r \in Repositories, TakeJob(r) \/ Expire(r) PROVE SyncInv'
  BY <1>9, StreamStep
<1>10. CASE UNCHANGED vars
  <2>1. ListerOK /\ publisher \in [Sources -> Publisher]
    BY DEF SyncInv, SyncTypeOK
  <2>2. UNCHANGED <<config, tables, phase, todo, lister, publisher, sync, starts, faults>>
    BY <1>10 DEF vars, process
  <2> QED BY <2>1, <2>2, SyncsStay DEF ListerOK
<1> QED BY <1>1, <1>2, <1>3, <1>4, <1>5, <1>6, <1>7, <1>8, <1>9, <1>10 DEF Next

-----------------------------------------------------------------------------
(* Theorems.                                                               *)

\* What every step of the reconciler, the syncs and the stream relies on: the row in the
\* repositories table decides who makes the job, and copies of connector rows carry the
\* configuration's contents.
THEOREM SyncConsistent == Spec => []SyncInv
BY InitSyncInv, NextSyncInv, PTL DEF Spec

\* Types; and a sync is at work only in a process that serves, and writes only rows that
\* are there (connector_service.go, SyncConnector).
THEOREM SyncTypeCorrect == Spec => []SyncTypeOK
<1>1. SyncInv => SyncTypeOK
  BY DEF SyncInv
<1> QED BY <1>1, SyncConsistent, PTL

\* A worker that takes a connector's message finds the repository and its job
\* (syncRepo saves both before it publishes).
THEOREM MessagesHaveJobs == Spec => []MessageHasJob
<1>1. SyncInv => MessageHasJob
  BY DEF SyncInv
<1> QED BY <1>1, SyncConsistent, PTL

\* However many syncs discover a repository at once, one job is made for it
\* (syncRepo's check, its insert and the unique index).
THEOREM OneJobEach == Spec => []OneJobPerRepository
<1>1. SyncInv => OneJobPerRepository
  BY DEF SyncInv
<1> QED BY <1>1, SyncConsistent, PTL

\* If no call fails, the rows say what the configuration says while the process serves,
\* though syncs write whole rows back from older copies (connector_reconciler.go).
THEOREM ConfigurationWins == Spec => []ConfigWins
<1>1. SyncInv => ConfigWins
  BY DEF SyncInv
<1> QED BY <1>1, SyncConsistent, PTL

\* If no call fails, a connector says it is syncing only while a sync of it runs
\* (what upsertConnector repairs after a crash).
THEOREM SyncingMeansSync == Spec => []SyncingHasSync
<1>1. SyncInv => SyncingHasSync
  BY DEF SyncInv
<1> QED BY <1>1, SyncConsistent, PTL

=============================================================================
