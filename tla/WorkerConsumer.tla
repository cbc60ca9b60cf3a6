----------------------------- MODULE WorkerConsumer -----------------------------
(***************************************************************************)
(* How messages of the INDEXING stream reach a worker and leave it again:  *)
(*   server    the durable pull consumer "indexing-consumer", which all    *)
(*             worker processes share (NATS JetStream, external)           *)
(*   service   worker_service.go   starts, stops, restarts its consumer    *)
(*   consumer  consumer.go, stream.go   NATSConsumer: flags under n.mu     *)
(*   loop      processor.go   a goroutine per Start: fetch, process, reply *)
(*   shutdown  nats_shutdown_manager.go   drain, flush, close              *)
(* What processing a message does is RepositoryLifecycle; here it takes a  *)
(* while and succeeds or fails.                                            *)
(***************************************************************************)
EXTENDS Naturals, FiniteSets

CONSTANTS
  Workers,      \* worker processes
  Messages,
  MaxDeliver,   \* ConsumerConfig.MaxDeliver
  FetchBatch,   \* MessagesFetchBatch
  MaxStarts,    \* bound: starts of one consumer within a process's life
  MaxCalls,     \* bound: calls of the service's and the shutdown manager's methods
  MaxTroubles   \* bound: failed jobs and starts, lost fetches and replies, process ends

ASSUME ConsumerAssumption ==
  /\ {MaxDeliver, FetchBatch, MaxStarts} \subseteq Nat \ {0}
  /\ {MaxCalls, MaxTroubles} \subseteq Nat

Starts == 1..MaxStarts

VARIABLES
  published,  \* messages published so far
  stream,     \* those still stored (WorkQueuePolicy: removed by an Ack)
  expired,    \* those that were dropped because of their age
  created,    \* the durable consumer exists
  out,        \* messages it waits an acknowledgement for
  due,        \* those of them that are to be delivered again
  count,      \* deliveries by this incarnation of the durable consumer
  proc,       \* each worker process: its service and its NATSConsumer
  loop,       \* the message loops of each process, by the start that began them
  succeeded,  \* history: messages ProcessJob has returned nil for
  calls, troubles

serverVars == <<created, out, due, count>>
vars == <<published, stream, expired, serverVars, proc, loop, succeeded, calls, troubles>>

NoLoop == [pc |-> "none", sub |-> 0, batch |-> {}, msg |-> {}, ok |-> FALSE]

\* serving: DefaultWorkerService.IsRunning; member: the consumer is in its map;
\* restarting: RestartConsumer holds w.mu.  The rest is NATSConsumer: sub is the
\* start the subscription belongs to (0: nil), conn says that connection is not
\* nil, waiting that Drain holds n.mu; starts counts, closed is history.
Down == [up |-> FALSE, serving |-> FALSE, member |-> FALSE, restarting |-> FALSE,
         running |-> FALSE, draining |-> FALSE, sub |-> 0, conn |-> FALSE,
         waiting |-> FALSE, pending |-> FALSE, starts |-> 0, closed |-> FALSE]

Init ==
  /\ published = {} /\ stream = {} /\ expired = {} /\ created = FALSE /\ out = {} /\ due = {}
  /\ count = [m \in Messages |-> 0]
  /\ proc = [w \in Workers |-> Down]
  /\ loop = [w \in Workers |-> [i \in Starts |-> NoLoop]]
  /\ succeeded = {} /\ calls = 0 /\ troubles = 0

Trouble == troubles < MaxTroubles /\ troubles' = troubles + 1
Call == calls < MaxCalls /\ calls' = calls + 1

-----------------------------------------------------------------------------
(* The server.                                                             *)

Publish(m) ==
  /\ m \notin published
  /\ published' = published \cup {m} /\ stream' = stream \cup {m}
  /\ UNCHANGED <<expired, serverVars, proc, loop, succeeded, calls, troubles>>

\* The stream's MaxAge: a message is dropped a day after it was published, whoever
\* holds it.
Expire(m) ==
  /\ m \in stream
  /\ stream' = stream \ {m} /\ out' = out \ {m} /\ due' = due \ {m}
  /\ expired' = expired \cup {m}
  /\ UNCHANGED <<published, created, count, proc, loop, succeeded, calls, troubles>>

\* Mutant: the durable consumer is made without a limit to its deliveries.
Available_Unlimited ==
  {m \in stream : created /\ (m \in out => m \in due)}

\* What a pull request can be answered with.
Available ==
  {m \in stream : created /\ count[m] < MaxDeliver /\ (m \in out => m \in due)}

\* AckWait is over, however busy the worker that holds the message is.
AckWaitEnds(m) ==
  /\ m \in out \ due
  /\ due' = due \cup {m}
  /\ UNCHANGED <<published, stream, expired, created, out, count, proc, loop, succeeded, calls, troubles>>

\* After its last delivery a message stays on the stream, but nobody gets it.
GiveUp(m) ==
  /\ m \in due /\ count[m] = MaxDeliver
  /\ out' = out \ {m} /\ due' = due \ {m}
  /\ UNCHANGED <<published, stream, expired, created, count, proc, loop, succeeded, calls, troubles>>

\* createDurableConsumer deletes the consumer, whoever uses it, and makes it anew.
RecreateDurable ==
  /\ created' = TRUE /\ out' = {} /\ due' = {}
  /\ count' = [m \in Messages |-> 0]

-----------------------------------------------------------------------------
(* The consumer's Start and Stop, as functions of the process, and the     *)
(* service's operations on it.                                             *)

\* Mutant: Start clears the draining flag.
Started_Resumes(p) ==
  [p EXCEPT !.running = TRUE, !.draining = FALSE, !.conn = TRUE,
            !.starts = @ + 1, !.sub = p.starts + 1]

\* Start leaves draining as it is.
Started(p) ==
  [p EXCEPT !.running = TRUE, !.conn = TRUE, !.starts = @ + 1, !.sub = p.starts + 1]

\* Stop unsubscribes but does not close the connection.
Stopped(p) ==
  IF p.running THEN [p EXCEPT !.running = FALSE, !.draining = TRUE, !.sub = 0] ELSE p

\* NATSConsumer.Start in a process that is then like good, or like bad if it fails:
\* because the consumer runs, or before or after the durable consumer is made anew,
\* and then the connection is closed.
StartConsumer(w, good, bad) ==
  /\ ~good.waiting /\ good.starts < MaxStarts
  /\ \/ /\ ~good.running
        /\ RecreateDurable
        /\ proc' = [proc EXCEPT ![w] = Started(good)]
        /\ loop' = [loop EXCEPT ![w][good.starts + 1] = [NoLoop EXCEPT !.pc = "check"]]
        /\ UNCHANGED troubles
     \/ /\ ~good.running /\ Trouble
        /\ RecreateDurable \/ UNCHANGED serverVars
        /\ proc' = [proc EXCEPT ![w] = [bad EXCEPT !.conn = FALSE]]
        /\ UNCHANGED loop
     \/ /\ good.running
        /\ proc' = [proc EXCEPT ![w] = bad]
        /\ UNCHANGED <<serverVars, loop, troubles>>

\* A process starts (runWorkerService); it ends at once if its consumer does not start.
ProcessStart(w) ==
  /\ ~proc[w].up
  /\ \/ /\ RecreateDurable
        /\ proc' = [proc EXCEPT
             ![w] = Started([Down EXCEPT !.up = TRUE, !.serving = TRUE, !.member = TRUE])]
        /\ loop' = [loop EXCEPT ![w][1] = [NoLoop EXCEPT !.pc = "check"]]
        /\ UNCHANGED troubles
     \/ /\ Trouble
        /\ RecreateDurable \/ UNCHANGED serverVars
        /\ UNCHANGED <<proc, loop>>
  /\ UNCHANGED <<published, stream, expired, succeeded, calls>>

\* The process ends, by a signal or a crash: its loops are gone wherever they are.
Crash(w) ==
  /\ proc[w].up /\ Trouble
  /\ proc' = [proc EXCEPT ![w] = Down]
  /\ loop' = [loop EXCEPT ![w] = [i \in Starts |-> NoLoop]]
  /\ UNCHANGED <<published, stream, expired, serverVars, succeeded, calls>>

\* w.mu is free and so is n.mu.
Free(w) == proc[w].up /\ ~proc[w].restarting /\ ~proc[w].waiting

\* DefaultWorkerService.Start on a service that was stopped.
ServiceStart(w) ==
  /\ Free(w) /\ ~proc[w].serving /\ Call
  /\ IF proc[w].member
     THEN StartConsumer(w, [proc[w] EXCEPT !.serving = TRUE], proc[w])
     ELSE /\ proc' = [proc EXCEPT ![w].serving = TRUE]
          /\ UNCHANGED <<serverVars, loop, troubles>>
  /\ UNCHANGED <<published, stream, expired, succeeded>>

\* Stop returns at once: it does not wait for the message in process.
ServiceStop(w) ==
  /\ Free(w) /\ proc[w].serving /\ Call
  /\ proc' = [proc EXCEPT ![w] = [(IF @.member THEN Stopped(@) ELSE @)
                                     EXCEPT !.serving = FALSE]]
  /\ UNCHANGED <<published, stream, expired, serverVars, loop, succeeded, troubles>>

RemoveConsumer(w) ==
  /\ Free(w) /\ proc[w].member /\ Call
  /\ proc' = [proc EXCEPT ![w] = [Stopped(@) EXCEPT !.member = FALSE]]
  /\ UNCHANGED <<published, stream, expired, serverVars, loop, succeeded, troubles>>

AddConsumer(w) ==
  /\ Free(w) /\ ~proc[w].member /\ Call
  /\ IF proc[w].serving
     THEN StartConsumer(w, [proc[w] EXCEPT !.member = TRUE], proc[w])
     ELSE /\ proc' = [proc EXCEPT ![w].member = TRUE]
          /\ UNCHANGED <<serverVars, loop, troubles>>
  /\ UNCHANGED <<published, stream, expired, succeeded>>

\* RestartConsumer holds w.mu while it sleeps for RestartDelay between the two.
RestartStop(w) ==
  /\ Free(w) /\ proc[w].serving /\ proc[w].member /\ Call
  /\ proc' = [proc EXCEPT ![w] = [Stopped(@) EXCEPT !.restarting = TRUE]]
  /\ UNCHANGED <<published, stream, expired, serverVars, loop, succeeded, troubles>>

RestartStart(w) ==
  /\ proc[w].restarting
  /\ LET p == [proc[w] EXCEPT !.restarting = FALSE] IN StartConsumer(w, p, p)
  /\ UNCHANGED <<published, stream, expired, succeeded, calls>>

-----------------------------------------------------------------------------
(* The shutdown manager's calls.  Drain keeps n.mu for all of its wait.    *)

\* Mutant: Drain only sets the flag.
DrainBegins_Subscribed(w) ==
  /\ proc[w].up /\ proc[w].running /\ ~proc[w].waiting /\ Call
  /\ proc' = [proc EXCEPT ![w].draining = TRUE, ![w].waiting = TRUE]
  /\ UNCHANGED <<published, stream, expired, serverVars, loop, succeeded, troubles>>

DrainBegins(w) ==
  /\ proc[w].up /\ proc[w].running /\ ~proc[w].waiting /\ Call
  /\ proc' = [proc EXCEPT ![w].draining = TRUE, ![w].waiting = TRUE, ![w].sub = 0]
  /\ UNCHANGED <<published, stream, expired, serverVars, loop, succeeded, troubles>>

\* It succeeds if nothing is pending, which cannot change while it waits, and
\* times out otherwise; the consumer is then still marked as running.
DrainEnds(w) ==
  /\ proc[w].waiting
  /\ \/ proc' = [proc EXCEPT ![w].waiting = FALSE]
     \/ /\ ~proc[w].pending
        /\ proc' = [proc EXCEPT ![w].waiting = FALSE, ![w].running = FALSE]
  /\ UNCHANGED <<published, stream, expired, serverVars, loop, succeeded, calls, troubles>>

FlushPending(w) ==
  /\ proc[w].up /\ ~proc[w].waiting /\ proc[w].conn /\ Call
  /\ proc' = [proc EXCEPT ![w].pending = FALSE]
  /\ UNCHANGED <<published, stream, expired, serverVars, loop, succeeded, troubles>>

Close(w) ==
  /\ proc[w].up /\ ~proc[w].waiting /\ Call
  /\ proc' = [proc EXCEPT ![w].sub = 0, ![w].conn = FALSE, ![w].running = FALSE,
                          ![w].closed = TRUE]
  /\ UNCHANGED <<published, stream, expired, serverVars, loop, succeeded, troubles>>

-----------------------------------------------------------------------------
(* messageProcessingLoop.                                                  *)

\* Mutant: the loop looks at running, which a drain that timed out leaves set.
CheckFlags_Running(w, i) ==
  /\ loop[w][i].pc = "check" /\ ~proc[w].waiting
  /\ loop' = [loop EXCEPT ![w][i].pc = IF proc[w].running THEN "fetch" ELSE "ended",
                          ![w][i].sub = proc[w].sub]
  /\ UNCHANGED <<published, stream, expired, serverVars, proc, succeeded, calls, troubles>>

\* The flags are read under n.mu, and used after it is released.
CheckFlags(w, i) ==
  /\ loop[w][i].pc = "check" /\ ~proc[w].waiting
  /\ IF proc[w].draining \/ proc[w].sub = 0
     THEN loop' = [loop EXCEPT ![w][i].pc = "ended"]
     ELSE loop' = [loop EXCEPT ![w][i].pc = "fetch", ![w][i].sub = proc[w].sub]
  /\ UNCHANGED <<published, stream, expired, serverVars, proc, succeeded, calls, troubles>>

Delivered(S) ==
  /\ out' = out \cup S /\ due' = due \ S
  /\ count' = [m \in Messages |-> IF m \in S THEN count[m] + 1 ELSE count[m]]
  /\ UNCHANGED created

\* Mutant: the loop ends when a fetch fails.
Fetch_EndsLoop(w, i) ==
  LET open == loop[w][i].sub = proc[w].sub IN
  /\ loop[w][i].pc = "fetch"
  /\ \/ /\ open
        /\ \E S \in SUBSET Available \ {{}} :
             /\ Cardinality(S) <= FetchBatch
             /\ Delivered(S)
             /\ loop' = [loop EXCEPT ![w][i].pc = "next", ![w][i].batch = S]
        /\ UNCHANGED troubles
     \/ /\ ~open \/ Available = {}
        /\ loop' = [loop EXCEPT ![w][i].pc = "ended"]
        /\ UNCHANGED <<serverVars, troubles>>
  /\ UNCHANGED <<published, stream, expired, proc, succeeded, calls>>

\* Fetch returns up to FetchBatch messages, or nothing: because there are none,
\* because the subscription it uses has been closed, or with an error, which may
\* lose what the server has sent.
Fetch(w, i) ==
  LET open == loop[w][i].sub = proc[w].sub IN
  /\ loop[w][i].pc = "fetch"
  /\ \/ /\ open
        /\ \E S \in SUBSET Available \ {{}} :
             /\ Cardinality(S) <= FetchBatch
             /\ Delivered(S)
             /\ loop' = [loop EXCEPT ![w][i].pc = "next", ![w][i].batch = S]
        /\ UNCHANGED troubles
     \/ /\ ~open \/ Available = {}
        /\ loop' = [loop EXCEPT ![w][i].pc = "check"]
        /\ UNCHANGED <<serverVars, troubles>>
     \/ /\ open /\ Trouble
        /\ \E S \in SUBSET Available : Cardinality(S) <= FetchBatch /\ Delivered(S)
        /\ loop' = [loop EXCEPT ![w][i].pc = "check"]
  /\ UNCHANGED <<published, stream, expired, proc, succeeded, calls>>

\* The messages of a batch are processed one after the other; draining is not
\* looked at in between.
NextMessage(w, i) ==
  /\ loop[w][i].pc = "next"
  /\ \/ \E m \in loop[w][i].batch :
          loop' = [loop EXCEPT ![w][i].pc = "job", ![w][i].msg = {m},
                               ![w][i].batch = @ \ {m}]
     \/ /\ loop[w][i].batch = {}
        /\ loop' = [loop EXCEPT ![w][i].pc = "check"]
  /\ UNCHANGED <<published, stream, expired, serverVars, proc, succeeded, calls, troubles>>

\* handleMessage: ProcessJob returns, or the message is refused before it.
JobEnds(w, i) ==
  /\ loop[w][i].pc = "job"
  /\ \/ /\ loop' = [loop EXCEPT ![w][i].pc = "stats", ![w][i].ok = TRUE]
        /\ succeeded' = succeeded \cup loop[w][i].msg
        /\ UNCHANGED troubles
     \/ /\ Trouble
        /\ loop' = [loop EXCEPT ![w][i].pc = "stats", ![w][i].ok = FALSE]
        /\ UNCHANGED succeeded
  /\ UNCHANGED <<published, stream, expired, serverVars, proc, calls>>

\* updateStats counts the message as pending and takes only a success off again.
UpdateStats(w, i) ==
  /\ loop[w][i].pc = "stats" /\ ~proc[w].waiting
  /\ proc' = [proc EXCEPT ![w].pending = @ \/ ~loop[w][i].ok]
  /\ loop' = [loop EXCEPT ![w][i].pc = IF loop[w][i].ok THEN "reply" ELSE "health"]
  /\ UNCHANGED <<published, stream, expired, serverVars, succeeded, calls, troubles>>

UpdateHealth(w, i) ==
  /\ loop[w][i].pc = "health" /\ ~proc[w].waiting
  /\ loop' = [loop EXCEPT ![w][i].pc = "reply"]
  /\ UNCHANGED <<published, stream, expired, serverVars, proc, succeeded, calls, troubles>>

AckRemoves(m) == stream' = stream \ {m} /\ out' = out \ {m} /\ due' = due \ {m}

\* Mutant: a failed message is acknowledged too.
Reply_Always(w, i) ==
  /\ loop[w][i].pc = "reply"
  /\ \E m \in loop[w][i].msg : IF m \in out THEN AckRemoves(m) ELSE UNCHANGED <<stream, out, due>>
  /\ loop' = [loop EXCEPT ![w][i].pc = "next", ![w][i].msg = {}, ![w][i].ok = FALSE]
  /\ UNCHANGED <<published, expired, created, count, proc, succeeded, calls, troubles>>

\* Ack or Nak, their errors dropped.  The server ignores either for a message it does
\* not wait for, as after the durable consumer has been made anew or the message has
\* expired; and it gets neither if the reply is lost, or the connection it was to be
\* sent on has been closed.
Reply(w, i) ==
  /\ loop[w][i].pc = "reply"
  /\ \E m \in loop[w][i].msg :
       \/ m \in out /\ loop[w][i].ok /\ AckRemoves(m) /\ UNCHANGED troubles
       \/ /\ m \in out /\ ~loop[w][i].ok
          /\ due' = due \cup {m}
          /\ UNCHANGED <<stream, out, troubles>>
       \/ m \notin out /\ UNCHANGED <<stream, out, due, troubles>>
       \/ /\ m \in out
          /\ Trouble \/ (proc[w].closed /\ UNCHANGED troubles)
          /\ UNCHANGED <<stream, out, due>>
  /\ loop' = [loop EXCEPT ![w][i].pc = "next", ![w][i].msg = {}, ![w][i].ok = FALSE]
  /\ UNCHANGED <<published, expired, created, count, proc, succeeded, calls>>

LoopStep(w, i) ==
  \/ CheckFlags(w, i) \/ Fetch(w, i) \/ NextMessage(w, i) \/ JobEnds(w, i)
  \/ UpdateStats(w, i) \/ UpdateHealth(w, i) \/ Reply(w, i)

-----------------------------------------------------------------------------
Next ==
  \/ \E m \in Messages : Publish(m) \/ Expire(m) \/ AckWaitEnds(m) \/ GiveUp(m)
  \/ \E w \in Workers :
       \/ ProcessStart(w) \/ Crash(w)
       \/ ServiceStart(w) \/ ServiceStop(w) \/ RemoveConsumer(w) \/ AddConsumer(w)
       \/ RestartStop(w) \/ RestartStart(w)
       \/ DrainBegins(w) \/ DrainEnds(w) \/ FlushPending(w) \/ Close(w)
       \/ \E i \in Starts : LoopStep(w, i)

Spec == Init /\ [][Next]_vars

\* Goroutines run, jobs end (JobTimeout), AckWait runs out, waits end.
Fairness ==
  /\ \A m \in Messages : WF_vars(AckWaitEnds(m)) /\ WF_vars(GiveUp(m))
  /\ \A w \in Workers :
       /\ WF_vars(RestartStart(w)) /\ WF_vars(DrainEnds(w))
       /\ \A i \in Starts : WF_vars(LoopStep(w, i))

FairSpec == Spec /\ Fairness

-----------------------------------------------------------------------------
Process == [up : BOOLEAN, serving : BOOLEAN, member : BOOLEAN, restarting : BOOLEAN,
            running : BOOLEAN, draining : BOOLEAN, sub : 0..MaxStarts, conn : BOOLEAN,
            waiting : BOOLEAN, pending : BOOLEAN, starts : 0..MaxStarts, closed : BOOLEAN]
Loop == [pc : {"none", "check", "fetch", "next", "job", "stats", "health", "reply", "ended"},
         sub : 0..MaxStarts, batch : SUBSET Messages, msg : SUBSET Messages, ok : BOOLEAN]

\* Types; the durable consumer waits only for messages that are on the stream.
ConsumerTypeOK ==
  /\ due \subseteq out /\ out \subseteq stream /\ stream \subseteq published
  /\ published \subseteq Messages /\ succeeded \subseteq Messages
  /\ expired \subseteq published \ stream
  /\ created \in BOOLEAN
  /\ count \in [Messages -> 0..MaxDeliver]
  /\ proc \in [Workers -> Process]
  /\ loop \in [Workers -> [Starts -> Loop]]
  /\ calls \in 0..MaxCalls /\ troubles \in 0..MaxTroubles

\* A message that was published and is no longer on the stream has been processed
\* successfully or was dropped for its age: nothing is lost to a failure, a crash, a
\* drain or a restart.
NothingLost == published \ stream \subseteq succeeded \cup expired

\* What a worker has in a loop, or has processed there with success.
InHand == {m \in Messages : \E w \in Workers, i \in Starts :
             m \in loop[w][i].batch \cup loop[w][i].msg}
Processed == {m \in Messages : \E w \in Workers, i \in Starts :
                loop[w][i].ok /\ m \in loop[w][i].msg}

Delivery == INSTANCE DeliveryPromise WITH
  state <- [m \in Messages |-> IF m \in stream THEN "stored"
                               ELSE IF m \in expired THEN "expired"
                               ELSE IF m \in published THEN "removed" ELSE "unpublished"],
  count <- [m \in Messages |-> IF m \in stream THEN count[m] ELSE 0],
  held  <- InHand,
  ready <- Processed

\* However consumers are started, stopped, drained and killed, under each other's
\* messages, a message is delivered only while it is stored and within its limit, and
\* leaves the stream by its age, or after the Ack of one who holds it and has processed it.
KeepsDelivery == Delivery!Spec

Working(l) == l.pc \in {"next", "job", "stats", "health", "reply"}

\* However often a consumer is stopped, removed, drained and started again, it
\* never works on two batches at once, although an old loop is not waited for.
\* (Not so after Close, which does not set draining.)
OneBatchAtATime ==
  \A w \in Workers : ~proc[w].closed =>
    Cardinality({i \in Starts : Working(loop[w][i])}) <= 1

\* A consumer that drains takes no further message, not even in a loop that had
\* read the flags before the drain began.
NothingFetchedWhileDraining ==
  [][\A w \in Workers, i \in Starts :
       proc[w].draining => loop'[w][i].batch \subseteq loop[w][i].batch]_vars

\* Loops come to an end once their consumer is told to drain or stop.
DrainingComesToRest ==
  \A w \in Workers :
    proc[w].draining ~> \A i \in Starts : loop[w][i].pc \in {"none", "ended"}

Consuming(w) == proc[w].up /\ proc[w].running /\ ~proc[w].draining /\ proc[w].sub # 0

\* While some worker's consumer says it runs and does not drain, a published message is
\* processed and taken off the stream, or has been delivered MaxDeliver times.
EveryMessageSettles ==
  (\E w \in Workers : <>[]Consuming(w)) =>
    \A m \in Messages : m \in stream ~> m \notin stream \/ count[m] = MaxDeliver

-----------------------------------------------------------------------------
(* The inductive invariant behind the theorems.                            *)

\* Of loop i of a process p: it replies with an Ack only to what has been processed;
\* what it fetches from is no subscription that was made since p drains; and unless
\* p has been closed, a loop of a later start only looks at the flags and ends.
LoopOK(p, i, l, done) ==
  /\ l.ok => l.pc \in {"stats", "reply"} /\ l.msg \subseteq done
  /\ l.sub <= p.starts
  /\ l.pc = "fetch" => l.sub # 0 /\ (p.draining => l.sub # p.sub)
  /\ ~p.closed /\ i # 1 /\ l.pc # "none" => p.draining /\ l.pc \in {"check", "ended"}

\* Of a process: a consumer that has been started and does not run drains, unless it
\* has been closed.
ProcessOK(p, loops, done) ==
  /\ ~p.up => p = Down /\ loops = [i \in Starts |-> NoLoop]
  /\ p.sub <= p.starts
  /\ p.waiting => p.draining
  /\ ~p.closed /\ ~p.running /\ p.starts # 0 => p.draining
  /\ \A i \in Starts : LoopOK(p, i, loops[i], done)

\* A loop that does not work on a batch holds nothing; one that was not begun is not there.
EmptyHanded(l) ==
  /\ l.pc \in {"none", "check", "fetch", "ended"} => l.batch = {}
  /\ l.pc \in {"none", "check", "fetch", "ended", "next"} => l.msg = {}
HandsOK ==
  \A w \in Workers, i \in Starts :
    EmptyHanded(loop[w][i]) /\ (i > proc[w].starts => loop[w][i].pc = "none")

CountsOK == \A m \in Messages \ published : count[m] = 0

\* No Ack is sent for a job that has not succeeded, and a consumer that was stopped or
\* drained never fetches again in this process, whoever starts it.
ConsumerInv ==
  /\ ConsumerTypeOK /\ NothingLost
  /\ \A w \in Workers : ProcessOK(proc[w], loop[w], succeeded)
=============================================================================
