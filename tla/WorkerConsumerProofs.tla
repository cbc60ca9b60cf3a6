------------------------- MODULE WorkerConsumerProofs -------------------------
(***************************************************************************)
(* Proofs about the consumer, for every number of workers, messages,       *)
(* deliveries, starts, calls and failures.                                 *)
(***************************************************************************)
EXTENDS WorkerConsumer, TLAPS, FiniteSetTheorems

\* The parts of the invariant: what the server keeps, what the processes and their
\* loops are, and what is true of each.
ServerOK ==
  /\ due \subseteq out /\ out \subseteq stream /\ stream \subseteq published
  /\ published \subseteq Messages /\ succeeded \subseteq Messages
  /\ created \in BOOLEAN
  /\ count \in [Messages -> 0..MaxDeliver]
  /\ expired \subseteq published \ stream /\ published \ stream \subseteq succeeded \cup expired

BoundsOK == calls \in 0..MaxCalls /\ troubles \in 0..MaxTroubles

ProcessesOK ==
  /\ proc \in [Workers -> Process] /\ loop \in [Workers -> [Starts -> Loop]]
  /\ \A w \in Workers : ProcessOK(proc[w], loop[w], succeeded)

LEMMA Parts ==
  /\ ConsumerInv <=> ServerOK /\ BoundsOK /\ ProcessesOK
  /\ ConsumerInv' <=> ServerOK' /\ BoundsOK' /\ ProcessesOK'
BY DEF ConsumerInv, ConsumerTypeOK, NothingLost, ServerOK, BoundsOK, ProcessesOK

-----------------------------------------------------------------------------
(* Lemmas.                                                                 *)

LEMMA Bounds ==
  /\ MaxDeliver \in Nat /\ FetchBatch \in Nat /\ MaxStarts \in Nat /\ MaxStarts >= 1
  /\ MaxCalls \in Nat /\ MaxTroubles \in Nat
BY ConsumerAssumption

LEMMA BoundsKept ==
  ASSUME BoundsOK, Call \/ UNCHANGED calls, Trouble \/ UNCHANGED troubles
  PROVE  BoundsOK'
BY Bounds DEF BoundsOK, Call, Trouble

\* What a loop may do does not depend on how much more has succeeded.
LEMMA MoreSucceeded ==
  ASSUME NEW p, NEW loops, NEW done, NEW more, done \subseteq more, ProcessOK(p, loops, done)
  PROVE  ProcessOK(p, loops, more)
BY DEF ProcessOK, LoopOK

\* A process that moves, with its loops, has to make good its own claims only.
LEMMA ProcessMoves ==
  ASSUME ProcessesOK, NEW w \in Workers, NEW p \in Process, NEW loops \in [Starts -> Loop],
         proc' = [proc EXCEPT ![w] = p], loop' = [loop EXCEPT ![w] = loops],
         succeeded \subseteq succeeded', ProcessOK(p, loops, succeeded')
  PROVE  ProcessesOK'
<1>1. /\ proc' \in [Workers -> Process] /\ loop' \in [Workers -> [Starts -> Loop]]
  BY DEF ProcessesOK
<1>2. ASSUME NEW v \in Workers
      PROVE  ProcessOK(proc'[v], loop'[v], succeeded')
  <2>1. CASE v = w
    BY <2>1 DEF ProcessesOK
  <2>2. CASE v # w
    <3>1. proc'[v] = proc[v] /\ loop'[v] = loop[v] /\ ProcessOK(proc[v], loop[v], succeeded)
      BY <2>2 DEF ProcessesOK
    <3> QED BY <3>1, MoreSucceeded
  <2> QED BY <2>1, <2>2
<1> QED BY <1>1, <1>2 DEF ProcessesOK

\* The same, of a process whose loops stay where they are.
LEMMA OnlyProcessMoves ==
  ASSUME ProcessesOK, NEW w \in Workers, NEW p \in Process,
         proc' = [proc EXCEPT ![w] = p], UNCHANGED <<loop, succeeded>>,
         ProcessOK(p, loop[w], succeeded)
  PROVE  ProcessesOK'
<1>1. loop[w] \in [Starts -> Loop] /\ loop' = [loop EXCEPT ![w] = loop[w]]
  BY DEF ProcessesOK
<1> QED BY <1>1, ProcessMoves

\* The same, of one loop.
LEMMA LoopMoves ==
  ASSUME ProcessesOK, NEW w \in Workers, NEW i \in Starts, NEW l \in Loop,
         loop' = [loop EXCEPT ![w][i] = l], UNCHANGED proc, proc[w].up,
         succeeded \subseteq succeeded', LoopOK(proc[w], i, l, succeeded')
  PROVE  ProcessesOK'
<1> DEFINE loops == [loop[w] EXCEPT ![i] = l]
<1>1. /\ proc[w] \in Process /\ loop[w] \in [Starts -> Loop]
      /\ ProcessOK(proc[w], loop[w], succeeded')
  BY MoreSucceeded DEF ProcessesOK
<1>2. loops \in [Starts -> Loop] /\ loop' = [loop EXCEPT ![w] = loops]
  BY <1>1 DEF ProcessesOK
<1>3. \A h \in Starts : LoopOK(proc[w], h, loops[h], succeeded')
  BY <1>1 DEF ProcessOK
<1>4. ProcessOK(proc[w], loops, succeeded')
  BY <1>1, <1>3 DEF ProcessOK
<1>5. proc' = [proc EXCEPT ![w] = proc[w]]
  BY DEF ProcessesOK
<1> HIDE DEF loops
<1> QED BY <1>1, <1>2, <1>4, <1>5, ProcessMoves

\* A loop that is anywhere belongs to a process that is up, and both are as they should be.
LEMMA LoopIsUp ==
  ASSUME ProcessesOK, NEW w \in Workers, NEW i \in Starts, loop[w][i].pc # "none"
  PROVE  /\ loop[w] \in [Starts -> Loop] /\ loop[w][i] \in Loop /\ proc[w] \in Process
         /\ ProcessOK(proc[w], loop[w], succeeded)
         /\ LoopOK(proc[w], i, loop[w][i], succeeded)
         /\ proc[w].up
<1>1. /\ loop[w] \in [Starts -> Loop] /\ proc[w] \in Process
      /\ ProcessOK(proc[w], loop[w], succeeded)
  BY DEF ProcessesOK
<1>2. LoopOK(proc[w], i, loop[w][i], succeeded)
  BY <1>1 DEF ProcessOK
<1>3. ~proc[w].up => loop[w][i] = NoLoop
  BY <1>1 DEF ProcessOK
<1>4. NoLoop.pc = "none"
  BY DEF NoLoop
<1> QED BY <1>1, <1>2, <1>3, <1>4

LEMMA DurableMade ==
  ASSUME ServerOK, RecreateDurable \/ UNCHANGED serverVars,
         UNCHANGED <<published, stream, expired, succeeded>>
  PROVE  ServerOK'
<1>1. CASE RecreateDurable
  <2>1. count' \in [Messages -> 0..MaxDeliver]
    BY <1>1, ConsumerAssumption DEF RecreateDurable
  <2> QED BY <1>1, <2>1 DEF ServerOK, RecreateDurable
<1>2. CASE UNCHANGED serverVars
  BY <1>2 DEF ServerOK, serverVars
<1> QED BY <1>1, <1>2

-----------------------------------------------------------------------------
(* Start, in whatever process it is called.                                *)

\* The loop it begins is the first one of its process, unless the process drains or
\* has been closed.
LEMMA StartedOK ==
  ASSUME NEW p \in Process, NEW loops \in [Starts -> Loop], NEW done,
         ProcessOK(p, loops, done), p.up, ~p.running, ~p.waiting, p.starts < MaxStarts
  PROVE  /\ p.starts + 1 \in Starts
         /\ Started(p) \in Process
         /\ [loops EXCEPT ![p.starts + 1] = [NoLoop EXCEPT !.pc = "check"]] \in [Starts -> Loop]
         /\ ProcessOK(Started(p),
              [loops EXCEPT ![p.starts + 1] = [NoLoop EXCEPT !.pc = "check"]], done)
<1> DEFINE q == Started(p)
           l == [NoLoop EXCEPT !.pc = "check"]
           n == p.starts + 1
<1>1. n \in Starts /\ p.starts \in 0..MaxStarts
  BY Bounds DEF Process, Starts
<1>2. l \in Loop /\ l.pc = "check" /\ l.sub = 0 /\ l.ok = FALSE
  <2>1. NoLoop \in Loop /\ NoLoop.sub = 0 /\ NoLoop.ok = FALSE
    BY Bounds DEF NoLoop, Loop
  <2>2. l \in Loop
    BY <2>1 DEF Loop
  <2>3. l.pc = "check" /\ l.sub = 0 /\ l.ok = FALSE
    BY <2>1 DEF Loop
  <2> QED BY <2>2, <2>3
<1>3. q \in Process
  <2>1. n \in 0..MaxStarts
    BY <1>1, Bounds DEF Starts
  <2> QED BY <2>1 DEF Started, Process
<1>4. /\ q.up /\ q.running /\ q.sub = n /\ q.starts = n /\ ~q.waiting
      /\ q.draining = p.draining /\ q.closed = p.closed
  BY DEF Started, Process
<1>5. LoopOK(q, n, l, done)
  <2>1. ~p.closed /\ n # 1 => p.draining
    BY <1>1 DEF ProcessOK
  <2> HIDE DEF q, l
  <2> QED BY <1>1, <1>2, <1>4, <2>1 DEF LoopOK
<1>6. ASSUME NEW i \in Starts, i # n
      PROVE  LoopOK(q, i, loops[i], done)
  <2>1. LoopOK(p, i, loops[i], done) /\ loops[i].sub \in 0..MaxStarts
    BY DEF ProcessOK, Loop
  <2> HIDE DEF q
  <2> QED BY <1>1, <1>4, <2>1 DEF LoopOK
<1> HIDE DEF q, l
<1>7. \A i \in Starts : LoopOK(q, i, [loops EXCEPT ![n] = l][i], done)
  BY <1>1, <1>5, <1>6
<1>8. ProcessOK(q, [loops EXCEPT ![n] = l], done)
  BY <1>1, <1>4, <1>7 DEF ProcessOK
<1> QED BY <1>1, <1>2, <1>3, <1>8 DEF q, l

LEMMA StartConsumerStep ==
  ASSUME ConsumerInv, NEW w \in Workers, NEW good \in Process, NEW bad \in Process,
         StartConsumer(w, good, bad), good.up, bad.up,
         ProcessOK(good, loop[w], succeeded), ProcessOK(bad, loop[w], succeeded),
         UNCHANGED <<published, stream, expired, succeeded>>, Call \/ UNCHANGED calls
  PROVE  ConsumerInv'
<1>1. ServerOK /\ BoundsOK /\ ProcessesOK
  BY Parts
<1>2. ServerOK'
  BY <1>1, DurableMade DEF StartConsumer
<1>3. BoundsOK'
  BY <1>1, BoundsKept DEF StartConsumer
<1>4. loop[w] \in [Starts -> Loop] /\ loop \in [Workers -> [Starts -> Loop]]
  BY <1>1 DEF ProcessesOK
<1>5. ProcessesOK'
  <2>1. CASE /\ ~good.running
             /\ proc' = [proc EXCEPT ![w] = Started(good)]
             /\ loop' = [loop EXCEPT ![w][good.starts + 1] = [NoLoop EXCEPT !.pc = "check"]]
    <3> DEFINE loops == [loop[w] EXCEPT ![good.starts + 1] = [NoLoop EXCEPT !.pc = "check"]]
    <3>1. /\ Started(good) \in Process /\ loops \in [Starts -> Loop]
          /\ ProcessOK(Started(good), loops, succeeded)
      BY <1>4, <2>1, StartedOK DEF StartConsumer
    <3>2. loop' = [loop EXCEPT ![w] = loops]
      BY <1>4, <2>1
    <3> HIDE DEF loops
    <3> QED BY <1>1, <2>1, <3>1, <3>2, ProcessMoves
  <2>2. CASE proc' = [proc EXCEPT ![w] = [bad EXCEPT !.conn = FALSE]] /\ UNCHANGED loop
    <3> DEFINE p == [bad EXCEPT !.conn = FALSE]
    <3>1. p \in Process /\ ProcessOK(p, loop[w], succeeded)
      BY DEF Process, ProcessOK, LoopOK
    <3> HIDE DEF p
    <3>2. proc' = [proc EXCEPT ![w] = p]
      BY <2>2 DEF p
    <3> QED BY <1>1, <2>2, <3>1, <3>2, OnlyProcessMoves
  <2>3. CASE proc' = [proc EXCEPT ![w] = bad] /\ UNCHANGED loop
    BY <1>1, <2>3, OnlyProcessMoves
  <2> QED BY <2>1, <2>2, <2>3 DEF StartConsumer
<1> QED BY <1>2, <1>3, <1>5, Parts

-----------------------------------------------------------------------------
(* Steps that change what a process is, and none of its loops.             *)

LEMMA NoSubscription == 0 \in 0..MaxStarts
BY Bounds

LEMMA StoppedTyped == ASSUME NEW p \in Process PROVE Stopped(p) \in Process
BY NoSubscription DEF Process, Stopped

LEMMA ServiceStopStep ==
  ASSUME ConsumerInv, NEW w \in Workers, ServiceStop(w)
  PROVE  ConsumerInv'
<1> DEFINE p == [(IF proc[w].member THEN Stopped(proc[w]) ELSE proc[w]) EXCEPT !.serving = FALSE]
<1>1. ServerOK /\ BoundsOK /\ ProcessesOK
  BY Parts
<1>2. proc[w] \in Process /\ ProcessOK(proc[w], loop[w], succeeded)
  BY <1>1 DEF ProcessesOK
<1>3. p \in Process
  <2> DEFINE q == IF proc[w].member THEN Stopped(proc[w]) ELSE proc[w]
  <2>1. q \in Process
    BY <1>2, StoppedTyped
  <2> HIDE DEF q
  <2>2. [q EXCEPT !.serving = FALSE] \in Process
    BY <2>1 DEF Process
  <2> QED BY <2>2 DEF q
<1>4. ProcessOK(p, loop[w], succeeded)
  BY <1>2 DEF ServiceStop, Free, Process, Stopped, ProcessOK, LoopOK, Down
<1>5. proc' = [proc EXCEPT ![w] = p]
  BY <1>1 DEF ServiceStop, ProcessesOK
<1> HIDE DEF p
<1>6. ProcessesOK'
  BY <1>1, <1>3, <1>4, <1>5, OnlyProcessMoves DEF ServiceStop
<1>7. ServerOK' /\ BoundsOK'
  BY <1>1, BoundsKept DEF ServiceStop, ServerOK, serverVars
<1> QED BY <1>6, <1>7, Parts

LEMMA RemoveConsumerStep ==
  ASSUME ConsumerInv, NEW w \in Workers, RemoveConsumer(w)
  PROVE  ConsumerInv'
<1> DEFINE p == [Stopped(proc[w]) EXCEPT !.member = FALSE]
<1>1. ServerOK /\ BoundsOK /\ ProcessesOK
  BY Parts
<1>2. proc[w] \in Process /\ ProcessOK(proc[w], loop[w], succeeded)
  BY <1>1 DEF ProcessesOK
<1>3. p \in Process
  BY <1>2, StoppedTyped DEF Process
<1>4. ProcessOK(p, loop[w], succeeded)
  BY <1>2 DEF RemoveConsumer, Free, Process, Stopped, ProcessOK, LoopOK, Down
<1>5. proc' = [proc EXCEPT ![w] = p]
  BY <1>1 DEF RemoveConsumer, ProcessesOK
<1> HIDE DEF p
<1>6. ProcessesOK'
  BY <1>1, <1>3, <1>4, <1>5, OnlyProcessMoves DEF RemoveConsumer
<1>7. ServerOK' /\ BoundsOK'
  BY <1>1, BoundsKept DEF RemoveConsumer, ServerOK, serverVars
<1> QED BY <1>6, <1>7, Parts

LEMMA RestartStopStep ==
  ASSUME ConsumerInv, NEW w \in Workers, RestartStop(w)
  PROVE  ConsumerInv'
<1> DEFINE p == [Stopped(proc[w]) EXCEPT !.restarting = TRUE]
<1>1. ServerOK /\ BoundsOK /\ ProcessesOK
  BY Parts
<1>2. proc[w] \in Process /\ ProcessOK(proc[w], loop[w], succeeded)
  BY <1>1 DEF ProcessesOK
<1>3. p \in Process
  BY <1>2, StoppedTyped DEF Process
<1>4. ProcessOK(p, loop[w], succeeded)
  BY <1>2 DEF RestartStop, Free, Process, Stopped, ProcessOK, LoopOK, Down
<1>5. proc' = [proc EXCEPT ![w] = p]
  BY <1>1 DEF RestartStop, ProcessesOK
<1> HIDE DEF p
<1>6. ProcessesOK'
  BY <1>1, <1>3, <1>4, <1>5, OnlyProcessMoves DEF RestartStop
<1>7. ServerOK' /\ BoundsOK'
  BY <1>1, BoundsKept DEF RestartStop, ServerOK, serverVars
<1> QED BY <1>6, <1>7, Parts

LEMMA DrainBeginsStep ==
  ASSUME ConsumerInv, NEW w \in Workers, DrainBegins(w)
  PROVE  ConsumerInv'
<1> DEFINE p == [proc[w] EXCEPT !.draining = TRUE, !.waiting = TRUE, !.sub = 0]
<1>1. ServerOK /\ BoundsOK /\ ProcessesOK
  BY Parts
<1>2. proc[w] \in Process /\ ProcessOK(proc[w], loop[w], succeeded)
  BY <1>1 DEF ProcessesOK
<1>3. p \in Process
  BY <1>2, NoSubscription DEF Process
<1>4. ProcessOK(p, loop[w], succeeded)
  BY <1>2 DEF DrainBegins, Process, ProcessOK, LoopOK
<1>5. proc' = [proc EXCEPT ![w] = p]
  BY <1>1 DEF DrainBegins, ProcessesOK
<1> HIDE DEF p
<1>6. ProcessesOK'
  BY <1>1, <1>3, <1>4, <1>5, OnlyProcessMoves DEF DrainBegins
<1>7. ServerOK' /\ BoundsOK'
  BY <1>1, BoundsKept DEF DrainBegins, ServerOK, serverVars
<1> QED BY <1>6, <1>7, Parts

LEMMA FlushPendingStep ==
  ASSUME ConsumerInv, NEW w \in Workers, FlushPending(w)
  PROVE  ConsumerInv'
<1> DEFINE p == [proc[w] EXCEPT !.pending = FALSE]
<1>1. ServerOK /\ BoundsOK /\ ProcessesOK
  BY Parts
<1>2. proc[w] \in Process /\ ProcessOK(proc[w], loop[w], succeeded)
  BY <1>1 DEF ProcessesOK
<1>3. p \in Process
  BY <1>2, NoSubscription DEF Process
<1>4. ProcessOK(p, loop[w], succeeded)
  BY <1>2 DEF FlushPending, Process, ProcessOK, LoopOK
<1>5. proc' = [proc EXCEPT ![w] = p]
  BY <1>1 DEF FlushPending, ProcessesOK
<1> HIDE DEF p
<1>6. ProcessesOK'
  BY <1>1, <1>3, <1>4, <1>5, OnlyProcessMoves DEF FlushPending
<1>7. ServerOK' /\ BoundsOK'
  BY <1>1, BoundsKept DEF FlushPending, ServerOK, serverVars
<1> QED BY <1>6, <1>7, Parts

LEMMA CloseStep ==
  ASSUME ConsumerInv, NEW w \in Workers, Close(w)
  PROVE  ConsumerInv'
<1> DEFINE p == [proc[w] EXCEPT !.sub = 0, !.conn = FALSE, !.running = FALSE, !.closed = TRUE]
<1>1. ServerOK /\ BoundsOK /\ ProcessesOK
  BY Parts
<1>2. proc[w] \in Process /\ ProcessOK(proc[w], loop[w], succeeded)
  BY <1>1 DEF ProcessesOK
<1>3. p \in Process
  BY <1>2, NoSubscription DEF Process
<1>4. ProcessOK(p, loop[w], succeeded)
  BY <1>2 DEF Close, Process, ProcessOK, LoopOK
<1>5. proc' = [proc EXCEPT ![w] = p]
  BY <1>1 DEF Close, ProcessesOK
<1> HIDE DEF p
<1>6. ProcessesOK'
  BY <1>1, <1>3, <1>4, <1>5, OnlyProcessMoves DEF Close
<1>7. ServerOK' /\ BoundsOK'
  BY <1>1, BoundsKept DEF Close, ServerOK, serverVars
<1> QED BY <1>6, <1>7, Parts

LEMMA DrainEndsStep ==
  ASSUME ConsumerInv, NEW w \in Workers, DrainEnds(w)
  PROVE  ConsumerInv'
<1>1. ServerOK /\ BoundsOK /\ ProcessesOK
  BY Parts
<1>2. proc[w] \in Process /\ ProcessOK(proc[w], loop[w], succeeded)
  BY <1>1 DEF ProcessesOK
<1>3. PICK r \in BOOLEAN : proc' = [proc EXCEPT ![w] = [proc[w] EXCEPT !.waiting = FALSE,
                                                                 !.running = r]]
  <2>1. CASE proc' = [proc EXCEPT ![w].waiting = FALSE]
    <3> DEFINE r == proc[w].running
    <3>1. r \in BOOLEAN
      BY <1>2 DEF Process
    <3>2. [proc[w] EXCEPT !.waiting = FALSE] = [proc[w] EXCEPT !.waiting = FALSE, !.running = r]
      BY <1>2 DEF Process
    <3>3. proc' = [proc EXCEPT ![w] = [proc[w] EXCEPT !.waiting = FALSE, !.running = r]]
      BY <2>1, <3>2, Zenon
    <3> HIDE DEF r
    <3> QED BY <3>1, <3>3
  <2>2. CASE proc' = [proc EXCEPT ![w].waiting = FALSE, ![w].running = FALSE]
    <3>1. proc' = [proc EXCEPT ![w] = [proc[w] EXCEPT !.waiting = FALSE, !.running = FALSE]]
      BY <1>1, <2>2 DEF ProcessesOK
    <3> QED BY <3>1
  <2> QED BY <2>1, <2>2 DEF DrainEnds
<1> DEFINE p == [proc[w] EXCEPT !.waiting = FALSE, !.running = r]
<1>4. p \in Process
  BY <1>2 DEF Process
<1>5. ProcessOK(p, loop[w], succeeded)
  BY <1>2 DEF DrainEnds, Process, ProcessOK, LoopOK, Down
<1> HIDE DEF p
<1>6. ProcessesOK'
  BY <1>1, <1>3, <1>4, <1>5, OnlyProcessMoves DEF DrainEnds, p
<1>7. ServerOK' /\ BoundsOK'
  BY <1>1, BoundsKept DEF DrainEnds, ServerOK, serverVars
<1> QED BY <1>6, <1>7, Parts

-----------------------------------------------------------------------------
(* Steps that start a consumer, a process, or end one.                     *)

LEMMA ServiceStartStep ==
  ASSUME ConsumerInv, NEW w \in Workers, ServiceStart(w)
  PROVE  ConsumerInv'
<1> DEFINE p == [proc[w] EXCEPT !.serving = TRUE]
<1>1. ServerOK /\ BoundsOK /\ ProcessesOK
  BY Parts
<1>2. /\ proc[w] \in Process /\ ProcessOK(proc[w], loop[w], succeeded)
      /\ proc[w].up /\ p.up
  BY <1>1 DEF ProcessesOK, ServiceStart, Free, Process
<1>3. p \in Process /\ ProcessOK(p, loop[w], succeeded)
  BY <1>2 DEF Process, ProcessOK, LoopOK
<1>4. CASE proc[w].member
  <2>1. StartConsumer(w, p, proc[w])
    BY <1>4 DEF ServiceStart
  <2> HIDE DEF p
  <2> QED BY <2>1, <1>2, <1>3, StartConsumerStep DEF ServiceStart
<1>5. CASE ~proc[w].member
  <2>1. proc' = [proc EXCEPT ![w] = p]
    BY <1>1, <1>5 DEF ServiceStart, ProcessesOK
  <2> HIDE DEF p
  <2>2. ProcessesOK'
    BY <1>1, <1>3, <1>5, <2>1, OnlyProcessMoves DEF ServiceStart
  <2>3. ServerOK' /\ BoundsOK'
    BY <1>1, <1>5, BoundsKept DEF ServiceStart, ServerOK, serverVars
  <2> QED BY <2>2, <2>3, Parts
<1> QED BY <1>4, <1>5

LEMMA AddConsumerStep ==
  ASSUME ConsumerInv, NEW w \in Workers, AddConsumer(w)
  PROVE  ConsumerInv'
<1> DEFINE p == [proc[w] EXCEPT !.member = TRUE]
<1>1. ServerOK /\ BoundsOK /\ ProcessesOK
  BY Parts
<1>2. /\ proc[w] \in Process /\ ProcessOK(proc[w], loop[w], succeeded)
      /\ proc[w].up /\ p.up
  BY <1>1 DEF ProcessesOK, AddConsumer, Free, Process
<1>3. p \in Process /\ ProcessOK(p, loop[w], succeeded)
  BY <1>2 DEF Process, ProcessOK, LoopOK
<1>4. CASE proc[w].serving
  <2>1. StartConsumer(w, p, proc[w])
    BY <1>4 DEF AddConsumer
  <2> HIDE DEF p
  <2> QED BY <2>1, <1>2, <1>3, StartConsumerStep DEF AddConsumer
<1>5. CASE ~proc[w].serving
  <2>1. proc' = [proc EXCEPT ![w] = p]
    BY <1>1, <1>5 DEF AddConsumer, ProcessesOK
  <2> HIDE DEF p
  <2>2. ProcessesOK'
    BY <1>1, <1>3, <1>5, <2>1, OnlyProcessMoves DEF AddConsumer
  <2>3. ServerOK' /\ BoundsOK'
    BY <1>1, <1>5, BoundsKept DEF AddConsumer, ServerOK, serverVars
  <2> QED BY <2>2, <2>3, Parts
<1> QED BY <1>4, <1>5

LEMMA RestartStartStep ==
  ASSUME ConsumerInv, NEW w \in Workers, RestartStart(w)
  PROVE  ConsumerInv'
<1> DEFINE p == [proc[w] EXCEPT !.restarting = FALSE]
<1>1. ServerOK /\ BoundsOK /\ ProcessesOK
  BY Parts
<1>2. proc[w] \in Process /\ ProcessOK(proc[w], loop[w], succeeded)
  BY <1>1 DEF ProcessesOK
<1>3. p \in Process /\ ProcessOK(p, loop[w], succeeded) /\ p.up
  <2>1. proc[w].up
    BY <1>2 DEF ProcessOK, RestartStart, Down
  <2> QED BY <1>2, <2>1 DEF Process, ProcessOK, LoopOK
<1>4. StartConsumer(w, p, p)
  BY DEF RestartStart
<1> HIDE DEF p
<1> QED BY <1>3, <1>4, StartConsumerStep DEF RestartStart

LEMMA ProcessStartStep ==
  ASSUME ConsumerInv, NEW w \in Workers, ProcessStart(w)
  PROVE  ConsumerInv'
<1> DEFINE p == [Down EXCEPT !.up = TRUE, !.serving = TRUE, !.member = TRUE]
           new == [NoLoop EXCEPT !.pc = "check"]
           loops == [loop[w] EXCEPT ![1] = new]
<1>1. ServerOK /\ BoundsOK /\ ProcessesOK
  BY Parts
<1>2. /\ ProcessOK(proc[w], loop[w], succeeded) /\ ~proc[w].up
      /\ loop[w] \in [Starts -> Loop] /\ proc[w] = Down /\ Down \in Process
  BY <1>1 DEF ProcessesOK, ProcessStart, ProcessOK
<1>3. /\ p \in Process /\ p.up /\ ~p.running /\ ~p.waiting /\ p.starts = 0
      /\ ~p.closed /\ ~p.draining /\ p.sub = 0
  <2>1. ~Down.running /\ ~Down.waiting /\ Down.starts = 0 /\ ~Down.closed /\ ~Down.draining
        /\ Down.sub = 0
    BY DEF Down
  <2> QED BY <1>2, <2>1 DEF Process
<1>4. ProcessOK(p, loop[w], succeeded)
  <2>1. \A i \in Starts : loop[w][i] = NoLoop
    BY <1>2 DEF ProcessOK
  <2>2. ASSUME NEW i \in Starts PROVE LoopOK(p, i, loop[w][i], succeeded)
    <3> HIDE DEF p
    <3>1. NoLoop.ok = FALSE /\ NoLoop.pc = "none" /\ NoLoop.sub = 0
      BY DEF NoLoop
    <3> QED BY <1>3, <2>1, <3>1 DEF LoopOK
  <2> HIDE DEF p
  <2> QED BY <1>3, <2>2 DEF ProcessOK
<1>5. ServerOK'
  BY <1>1, DurableMade DEF ProcessStart
<1>6. BoundsOK'
  BY <1>1, BoundsKept DEF ProcessStart
<1>7. CASE UNCHANGED <<proc, loop>>
  BY <1>1, <1>5, <1>6, <1>7, Parts DEF ProcessStart, ProcessesOK
<1>8. CASE proc' = [proc EXCEPT ![w] = Started(p)] /\ loop' = [loop EXCEPT ![w][1] = new]
  <2>1. p.starts < MaxStarts /\ p.starts + 1 = 1
    BY <1>3, Bounds
  <2> HIDE DEF p
  <2>2. Started(p) \in Process /\ loops \in [Starts -> Loop] /\ ProcessOK(Started(p), loops, succeeded)
    BY <1>2, <1>3, <1>4, <2>1, StartedOK
  <2>3. loop' = [loop EXCEPT ![w] = loops]
    BY <1>1, <1>8 DEF ProcessesOK
  <2> HIDE DEF loops
  <2>4. ProcessesOK'
    BY <1>1, <1>8, <2>2, <2>3, ProcessMoves DEF ProcessStart
  <2> QED BY <1>5, <1>6, <2>4, Parts
<1> QED BY <1>7, <1>8 DEF ProcessStart

LEMMA DownOK ==
  /\ Down \in Process /\ [i \in Starts |-> NoLoop] \in [Starts -> Loop]
  /\ \A done : ProcessOK(Down, [i \in Starts |-> NoLoop], done)
<1>1. /\ Down \in Process /\ ~Down.up /\ ~Down.waiting /\ Down.sub = 0 /\ Down.starts = 0
      /\ ~Down.closed
  BY NoSubscription DEF Down, Process
<1>2. NoLoop \in Loop /\ NoLoop.ok = FALSE /\ NoLoop.pc = "none" /\ NoLoop.sub = 0
  BY NoSubscription DEF NoLoop, Loop
<1>3. ASSUME NEW done, NEW i \in Starts PROVE LoopOK(Down, i, NoLoop, done)
  BY <1>1, <1>2 DEF LoopOK
<1> QED BY <1>1, <1>2, <1>3 DEF ProcessOK

LEMMA CrashStep ==
  ASSUME ConsumerInv, NEW w \in Workers, Crash(w)
  PROVE  ConsumerInv'
<1>1. ServerOK /\ BoundsOK /\ ProcessesOK
  BY Parts
<1>2. ProcessesOK'
  BY <1>1, DownOK, ProcessMoves DEF Crash
<1>3. ServerOK' /\ BoundsOK'
  BY <1>1, BoundsKept DEF Crash, ServerOK, serverVars
<1> QED BY <1>2, <1>3, Parts

-----------------------------------------------------------------------------
(* The server.                                                             *)

LEMMA PublishStep ==
  ASSUME ConsumerInv, NEW m \in Messages, Publish(m)
  PROVE  ConsumerInv'
<1>1. ServerOK /\ BoundsOK /\ ProcessesOK
  BY Parts
<1>2. ServerOK'
  BY <1>1 DEF Publish, ServerOK, serverVars
<1>3. BoundsOK' /\ ProcessesOK'
  BY <1>1 DEF Publish, BoundsOK, ProcessesOK
<1> QED BY <1>2, <1>3, Parts

LEMMA ExpireStep ==
  ASSUME ConsumerInv, NEW m \in Messages, Expire(m)
  PROVE  ConsumerInv'
<1>1. ServerOK /\ BoundsOK /\ ProcessesOK
  BY Parts
<1>2. ServerOK'
  BY <1>1 DEF Expire, ServerOK
<1>3. BoundsOK' /\ ProcessesOK'
  BY <1>1 DEF Expire, BoundsOK, ProcessesOK
<1> QED BY <1>2, <1>3, Parts

LEMMA AckWaitEndsStep ==
  ASSUME ConsumerInv, NEW m \in Messages, AckWaitEnds(m)
  PROVE  ConsumerInv'
<1>1. ServerOK /\ BoundsOK /\ ProcessesOK
  BY Parts
<1>2. ServerOK'
  BY <1>1 DEF AckWaitEnds, ServerOK
<1>3. BoundsOK' /\ ProcessesOK'
  BY <1>1 DEF AckWaitEnds, BoundsOK, ProcessesOK
<1> QED BY <1>2, <1>3, Parts

LEMMA GiveUpStep ==
  ASSUME ConsumerInv, NEW m \in Messages, GiveUp(m)
  PROVE  ConsumerInv'
<1>1. ServerOK /\ BoundsOK /\ ProcessesOK
  BY Parts
<1>2. ServerOK'
  BY <1>1 DEF GiveUp, ServerOK
<1>3. BoundsOK' /\ ProcessesOK'
  BY <1>1 DEF GiveUp, BoundsOK, ProcessesOK
<1> QED BY <1>2, <1>3, Parts

\* What is sent is what the server may send: nothing for the MaxDeliver + 1st time.
LEMMA DeliveredOK ==
  ASSUME ServerOK, NEW S \in SUBSET Available, Delivered(S),
         UNCHANGED <<published, stream, expired, succeeded>>
  PROVE  ServerOK'
<1>1. S \subseteq stream /\ \A m \in S : count[m] < MaxDeliver
  BY DEF Available
<1>2. count' \in [Messages -> 0..MaxDeliver]
  <2>1. ASSUME NEW m \in Messages
        PROVE  (IF m \in S THEN count[m] + 1 ELSE count[m]) \in 0..MaxDeliver
    BY <1>1, Bounds DEF ServerOK
  <2> QED BY <2>1 DEF Delivered
<1> QED BY <1>1, <1>2 DEF ServerOK, Delivered

-----------------------------------------------------------------------------
(* The loops.                                                              *)

LEMMA CheckFlagsStep ==
  ASSUME ConsumerInv, NEW w \in Workers, NEW i \in Starts, CheckFlags(w, i)
  PROVE  ConsumerInv'
<1>1. ServerOK /\ BoundsOK /\ ProcessesOK
  BY Parts
<1>2. /\ proc[w] \in Process /\ ProcessOK(proc[w], loop[w], succeeded) /\ loop[w][i] \in Loop
      /\ LoopOK(proc[w], i, loop[w][i], succeeded) /\ proc[w].up /\ loop[w][i].pc = "check"
  BY <1>1, LoopIsUp DEF CheckFlags
<1>3. CASE proc[w].draining \/ proc[w].sub = 0
  <2> DEFINE l == [loop[w][i] EXCEPT !.pc = "ended"]
  <2>1. l \in Loop
    BY <1>2 DEF Loop
  <2>2. LoopOK(proc[w], i, l, succeeded)
    BY <1>2 DEF LoopOK, Loop
  <2>3. loop' = [loop EXCEPT ![w][i] = l]
    BY <1>1, <1>3 DEF CheckFlags, ProcessesOK
  <2> HIDE DEF l
  <2> QED BY <1>1, <1>2, <2>1, <2>2, <2>3, LoopMoves, Parts DEF CheckFlags, ServerOK, BoundsOK, serverVars
<1>4. CASE ~(proc[w].draining \/ proc[w].sub = 0)
  <2> DEFINE l == [loop[w][i] EXCEPT !.pc = "fetch", !.sub = proc[w].sub]
  <2>1. l \in Loop
    BY <1>2 DEF Loop, Process
  <2>2. LoopOK(proc[w], i, l, succeeded)
    BY <1>2, <1>4 DEF LoopOK, ProcessOK, Loop
  <2>3. loop' = [loop EXCEPT ![w][i] = l]
    BY <1>1, <1>4 DEF CheckFlags, ProcessesOK
  <2> HIDE DEF l
  <2> QED BY <1>1, <1>2, <2>1, <2>2, <2>3, LoopMoves, Parts DEF CheckFlags, ServerOK, BoundsOK, serverVars
<1> QED BY <1>3, <1>4

LEMMA FetchStep ==
  ASSUME ConsumerInv, NEW w \in Workers, NEW i \in Starts, Fetch(w, i)
  PROVE  ConsumerInv'
<1>1. ServerOK /\ BoundsOK /\ ProcessesOK
  BY Parts
<1>2. /\ loop[w][i] \in Loop /\ proc[w].up /\ loop[w][i].pc = "fetch"
      /\ LoopOK(proc[w], i, loop[w][i], succeeded)
  BY <1>1, LoopIsUp DEF Fetch
<1>3. BoundsOK'
  BY <1>1, BoundsKept DEF Fetch
<1>4. ServerOK'
  <2>1. CASE UNCHANGED serverVars
    BY <1>1, <2>1 DEF ServerOK, serverVars, Fetch
  <2>2. CASE \E S \in SUBSET Available : Delivered(S)
    BY <1>1, <2>2, DeliveredOK DEF Fetch
  <2> QED BY <2>1, <2>2 DEF Fetch
<1>5. ProcessesOK'
  <2>1. ASSUME NEW S \in SUBSET Available,
               loop' = [loop EXCEPT ![w][i].pc = "next", ![w][i].batch = S]
        PROVE  ProcessesOK'
    <3> DEFINE l == [loop[w][i] EXCEPT !.pc = "next", !.batch = S]
    <3>1. S \subseteq Messages
      BY <1>1 DEF Available, ServerOK
    <3>2. l \in Loop
      BY <1>2, <3>1 DEF Loop
    <3>3. LoopOK(proc[w], i, l, succeeded)
      BY <1>2 DEF LoopOK, Loop
    <3>4. loop' = [loop EXCEPT ![w][i] = l]
      BY <1>1, <2>1 DEF ProcessesOK
    <3> HIDE DEF l
    <3> QED BY <1>1, <1>2, <3>2, <3>3, <3>4, LoopMoves DEF Fetch
  <2>2. CASE loop' = [loop EXCEPT ![w][i].pc = "check"]
    <3> DEFINE l == [loop[w][i] EXCEPT !.pc = "check"]
    <3>1. l \in Loop
      BY <1>2 DEF Loop
    <3>2. LoopOK(proc[w], i, l, succeeded)
      BY <1>2 DEF LoopOK, Loop
    <3>3. loop' = [loop EXCEPT ![w][i] = l]
      BY <1>1, <2>2 DEF ProcessesOK
    <3> HIDE DEF l
    <3> QED BY <1>1, <1>2, <3>1, <3>2, <3>3, LoopMoves DEF Fetch
  <2> QED BY <2>1, <2>2 DEF Fetch
<1> QED BY <1>3, <1>4, <1>5, Parts

LEMMA NextMessageStep ==
  ASSUME ConsumerInv, NEW w \in Workers, NEW i \in Starts, NextMessage(w, i)
  PROVE  ConsumerInv'
<1>1. ServerOK /\ BoundsOK /\ ProcessesOK
  BY Parts
<1>2. /\ loop[w][i] \in Loop /\ proc[w].up /\ loop[w][i].pc = "next"
      /\ LoopOK(proc[w], i, loop[w][i], succeeded)
  BY <1>1, LoopIsUp DEF NextMessage
<1>3. ServerOK' /\ BoundsOK'
  BY <1>1 DEF NextMessage, ServerOK, BoundsOK, serverVars
<1>4. CASE \E m \in loop[w][i].batch :
             loop' = [loop EXCEPT ![w][i].pc = "job", ![w][i].msg = {m},
                                  ![w][i].batch = @ \ {m}]
  <2> PICK m \in loop[w][i].batch :
             loop' = [loop EXCEPT ![w][i].pc = "job", ![w][i].msg = {m},
                                  ![w][i].batch = @ \ {m}]
    BY <1>4
  <2> DEFINE l == [loop[w][i] EXCEPT !.pc = "job", !.msg = {m}, !.batch = @ \ {m}]
  <2>1. m \in Messages
    BY <1>2 DEF Loop
  <2>2. l \in Loop
    BY <1>2, <2>1 DEF Loop
  <2>3. LoopOK(proc[w], i, l, succeeded)
    BY <1>2 DEF LoopOK, Loop
  <2>4. loop' = [loop EXCEPT ![w][i] = l]
    BY <1>1 DEF ProcessesOK
  <2> HIDE DEF l
  <2> QED BY <1>1, <1>2, <1>3, <2>2, <2>3, <2>4, LoopMoves, Parts DEF NextMessage
<1>5. CASE loop' = [loop EXCEPT ![w][i].pc = "check"]
  <2> DEFINE l == [loop[w][i] EXCEPT !.pc = "check"]
  <2>1. l \in Loop
    BY <1>2 DEF Loop
  <2>2. LoopOK(proc[w], i, l, succeeded)
    BY <1>2 DEF LoopOK, Loop
  <2>3. loop' = [loop EXCEPT ![w][i] = l]
    BY <1>1, <1>5 DEF ProcessesOK
  <2> HIDE DEF l
  <2> QED BY <1>1, <1>2, <1>3, <2>1, <2>2, <2>3, LoopMoves, Parts DEF NextMessage
<1> QED BY <1>4, <1>5 DEF NextMessage

LEMMA JobEndsStep ==
  ASSUME ConsumerInv, NEW w \in Workers, NEW i \in Starts, JobEnds(w, i)
  PROVE  ConsumerInv'
<1>1. ServerOK /\ BoundsOK /\ ProcessesOK
  BY Parts
<1>2. /\ loop[w][i] \in Loop /\ proc[w].up /\ loop[w][i].pc = "job"
      /\ LoopOK(proc[w], i, loop[w][i], succeeded)
  BY <1>1, LoopIsUp DEF JobEnds
<1>3. PICK ok \in BOOLEAN :
        /\ loop' = [loop EXCEPT ![w][i].pc = "stats", ![w][i].ok = ok]
        /\ succeeded' = IF ok THEN succeeded \cup loop[w][i].msg ELSE succeeded
  BY DEF JobEnds
<1>4. ServerOK' /\ BoundsOK'
  BY <1>1, <1>2, <1>3, BoundsKept DEF JobEnds, ServerOK, serverVars, Loop
<1> DEFINE l == [loop[w][i] EXCEPT !.pc = "stats", !.ok = ok]
<1>5. l \in Loop
  BY <1>2 DEF Loop
<1>6. LoopOK(proc[w], i, l, succeeded')
  <2>1. l.pc = "stats" /\ l.msg = loop[w][i].msg /\ l.sub = loop[w][i].sub /\ l.ok = ok
    BY <1>2 DEF Loop
  <2> HIDE DEF l
  <2> QED BY <1>2, <1>3, <2>1 DEF LoopOK
<1>7. loop' = [loop EXCEPT ![w][i] = l]
  BY <1>1, <1>3 DEF ProcessesOK
<1> HIDE DEF l
<1>8. ProcessesOK'
  BY <1>1, <1>2, <1>3, <1>5, <1>6, <1>7, LoopMoves DEF JobEnds
<1> QED BY <1>4, <1>8, Parts

LEMMA UpdateStatsStep ==
  ASSUME ConsumerInv, NEW w \in Workers, NEW i \in Starts, UpdateStats(w, i)
  PROVE  ConsumerInv'
<1> DEFINE p == [proc[w] EXCEPT !.pending = @ \/ ~loop[w][i].ok]
           l == [loop[w][i] EXCEPT !.pc = IF loop[w][i].ok THEN "reply" ELSE "health"]
           loops == [loop[w] EXCEPT ![i] = l]
<1>1. ServerOK /\ BoundsOK /\ ProcessesOK
  BY Parts
<1>2. /\ loop[w] \in [Starts -> Loop] /\ loop[w][i] \in Loop /\ proc[w] \in Process /\ proc[w].up
      /\ loop[w][i].pc = "stats" /\ ProcessOK(proc[w], loop[w], succeeded)
  BY <1>1, LoopIsUp DEF UpdateStats
<1>3. p \in Process /\ l \in Loop /\ loops \in [Starts -> Loop]
  BY <1>2 DEF Process, Loop
<1>4. ProcessOK(p, loops, succeeded)
  <2>1. /\ p.up /\ p.sub = proc[w].sub /\ p.starts = proc[w].starts /\ p.closed = proc[w].closed
        /\ p.draining = proc[w].draining /\ p.running = proc[w].running
        /\ p.waiting = proc[w].waiting
    BY <1>2 DEF Process
  <2>2. /\ l.ok = loop[w][i].ok /\ l.sub = loop[w][i].sub /\ l.msg = loop[w][i].msg
        /\ l.pc \in {"reply", "health"} /\ (l.ok => l.pc = "reply")
    BY <1>2 DEF Loop
  <2>3. \A h \in Starts : LoopOK(proc[w], h, loop[w][h], succeeded)
    BY <1>2 DEF ProcessOK
  <2> HIDE DEF p, l
  <2>4. ASSUME NEW h \in Starts PROVE LoopOK(p, h, loops[h], succeeded)
    <3>1. CASE h = i
      BY <1>2, <2>1, <2>2, <2>3, <3>1 DEF LoopOK
    <3>2. CASE h # i
      BY <1>2, <2>1, <2>3, <3>2 DEF LoopOK
    <3> QED BY <3>1, <3>2
  <2> HIDE DEF loops
  <2> QED BY <1>2, <2>1, <2>4 DEF ProcessOK
<1>5. proc' = [proc EXCEPT ![w] = p] /\ loop' = [loop EXCEPT ![w] = loops]
  BY <1>1 DEF UpdateStats, ProcessesOK
<1> HIDE DEF p, loops
<1>6. ProcessesOK'
  BY <1>1, <1>3, <1>4, <1>5, ProcessMoves DEF UpdateStats
<1>7. ServerOK' /\ BoundsOK'
  BY <1>1 DEF UpdateStats, ServerOK, BoundsOK, serverVars
<1> QED BY <1>6, <1>7, Parts

LEMMA UpdateHealthStep ==
  ASSUME ConsumerInv, NEW w \in Workers, NEW i \in Starts, UpdateHealth(w, i)
  PROVE  ConsumerInv'
<1> DEFINE l == [loop[w][i] EXCEPT !.pc = "reply"]
<1>1. ServerOK /\ BoundsOK /\ ProcessesOK
  BY Parts
<1>2. /\ loop[w][i] \in Loop /\ proc[w].up /\ loop[w][i].pc = "health"
      /\ LoopOK(proc[w], i, loop[w][i], succeeded)
  BY <1>1, LoopIsUp DEF UpdateHealth
<1>3. l \in Loop /\ LoopOK(proc[w], i, l, succeeded)
  BY <1>2 DEF LoopOK, Loop
<1>4. loop' = [loop EXCEPT ![w][i] = l]
  BY <1>1 DEF UpdateHealth, ProcessesOK
<1> HIDE DEF l
<1>5. ProcessesOK'
  BY <1>1, <1>2, <1>3, <1>4, LoopMoves DEF UpdateHealth
<1>6. ServerOK' /\ BoundsOK'
  BY <1>1 DEF UpdateHealth, ServerOK, BoundsOK, serverVars
<1> QED BY <1>5, <1>6, Parts

\* An Ack takes only a message whose job has succeeded off the stream.
LEMMA ReplyStep ==
  ASSUME ConsumerInv, NEW w \in Workers, NEW i \in Starts, Reply(w, i)
  PROVE  ConsumerInv'
<1> DEFINE l == [loop[w][i] EXCEPT !.pc = "next", !.msg = {}, !.ok = FALSE]
<1>1. ServerOK /\ BoundsOK /\ ProcessesOK
  BY Parts
<1>2. /\ loop[w][i] \in Loop /\ proc[w].up /\ loop[w][i].pc = "reply"
      /\ LoopOK(proc[w], i, loop[w][i], succeeded)
  BY <1>1, LoopIsUp DEF Reply
<1>3. l \in Loop /\ LoopOK(proc[w], i, l, succeeded)
  BY <1>2 DEF LoopOK, Loop
<1>4. loop' = [loop EXCEPT ![w][i] = l]
  BY <1>1 DEF Reply, ProcessesOK
<1> HIDE DEF l
<1>5. ProcessesOK'
  BY <1>1, <1>2, <1>3, <1>4, LoopMoves DEF Reply
<1>6. ServerOK'
  <2> PICK m \in loop[w][i].msg :
        \/ m \in out /\ loop[w][i].ok /\ AckRemoves(m)
        \/ m \in out /\ due' = due \cup {m} /\ UNCHANGED <<stream, out>>
        \/ UNCHANGED <<stream, out, due>>
    BY DEF Reply
  <2>1. CASE m \in out /\ loop[w][i].ok /\ AckRemoves(m)
    <3>1. m \in succeeded
      BY <1>2, <2>1 DEF LoopOK
    <3> QED BY <1>1, <2>1, <3>1 DEF AckRemoves, ServerOK, Reply
  <2>2. CASE m \in out /\ due' = due \cup {m} /\ UNCHANGED <<stream, out>>
    BY <1>1, <2>2 DEF ServerOK, Reply
  <2>3. CASE UNCHANGED <<stream, out, due>>
    BY <1>1, <2>3 DEF ServerOK, Reply
  <2> QED BY <2>1, <2>2, <2>3
<1>7. BoundsOK'
  BY <1>1, BoundsKept DEF Reply
<1> QED BY <1>5, <1>6, <1>7, Parts

-----------------------------------------------------------------------------
(* The theorems.                                                           *)

LEMMA InitConsumerInv == Init => ConsumerInv
<1> SUFFICES ASSUME Init PROVE ConsumerInv
  OBVIOUS
<1>1. ServerOK /\ BoundsOK
  <2>1. 0 \in 0..MaxDeliver /\ 0 \in 0..MaxCalls /\ 0 \in 0..MaxTroubles
    BY Bounds
  <2> QED BY <2>1 DEF Init, ServerOK, BoundsOK
<1>2. ProcessesOK
  BY DownOK DEF Init, ProcessesOK
<1> QED BY <1>1, <1>2, Parts

LEMMA NextConsumerInv == ConsumerInv /\ [Next]_vars => ConsumerInv'
<1> SUFFICES ASSUME ConsumerInv, [Next]_vars
             PROVE  ConsumerInv'
  OBVIOUS
<1>1. CASE \E m \in Messages : Publish(m) \/ Expire(m) \/ AckWaitEnds(m) \/ GiveUp(m)
  BY <1>1, PublishStep, ExpireStep, AckWaitEndsStep, GiveUpStep
<1>2. ASSUME NEW w \in Workers, NEW i \in Starts, LoopStep(w, i)
      PROVE  ConsumerInv'
  BY <1>2, CheckFlagsStep, FetchStep, NextMessageStep, JobEndsStep, UpdateStatsStep,
     UpdateHealthStep, ReplyStep DEF LoopStep
<1>3. ASSUME NEW w \in Workers,
             \/ ProcessStart(w) \/ Crash(w) \/ ServiceStart(w) \/ ServiceStop(w)
             \/ RemoveConsumer(w) \/ AddConsumer(w) \/ RestartStop(w) \/ RestartStart(w)
      PROVE  ConsumerInv'
  BY <1>3, ProcessStartStep, CrashStep, ServiceStartStep, ServiceStopStep,
     RemoveConsumerStep, AddConsumerStep, RestartStopStep, RestartStartStep
<1>4. ASSUME NEW w \in Workers,
             DrainBegins(w) \/ DrainEnds(w) \/ FlushPending(w) \/ Close(w)
      PROVE  ConsumerInv'
  BY <1>4, DrainBeginsStep, DrainEndsStep, FlushPendingStep, CloseStep
<1>5. CASE UNCHANGED vars
  BY <1>5 DEF vars, serverVars, ConsumerInv, ConsumerTypeOK, NothingLost
<1> QED BY <1>1, <1>2, <1>3, <1>4, <1>5 DEF Next

\* Whatever is stopped, drained, closed, restarted or killed at whatever moment, the
\* consumer's flags and its loops stay consistent.
THEOREM ConsumerConsistent == Spec => []ConsumerInv
BY InitConsumerInv, NextConsumerInv, PTL DEF Spec

\* Type correctness: no message is delivered more than MaxDeliver times, and none is
\* waited for that is not on the stream.
THEOREM ConsumerTypeCorrect == Spec => []ConsumerTypeOK
<1>1. ConsumerInv => ConsumerTypeOK
  BY DEF ConsumerInv
<1> QED BY <1>1, ConsumerConsistent, PTL

\* processMessage acknowledges nothing but successes, so that a message leaves the stream
\* only after it has been processed or by the stream's MaxAge, never because of a failure,
\* a lost reply, a restart or a drain.
THEOREM NothingIsLost == Spec => []NothingLost
<1>1. ConsumerInv => NothingLost
  BY DEF ConsumerInv
<1> QED BY <1>1, ConsumerConsistent, PTL

\* However often it is stopped and started, a consumer that was not closed has at most
\* one loop with messages in hand: the first one.
THEOREM OneBatch == Spec => []OneBatchAtATime
<1>1. ConsumerInv => OneBatchAtATime
  <2> SUFFICES ASSUME ConsumerInv, NEW w \in Workers, ~proc[w].closed
               PROVE  Cardinality({i \in Starts : Working(loop[w][i])}) <= 1
    BY DEF OneBatchAtATime
  <2> DEFINE S == {i \in Starts : Working(loop[w][i])}
  <2>1. S \subseteq {1}
    BY DEF ConsumerInv, ProcessOK, LoopOK, Working
  <2>2. IsFiniteSet({1}) /\ Cardinality({1}) = 1
    BY FS_Singleton
  <2>3. Cardinality(S) <= Cardinality({1})
    BY <2>1, <2>2, FS_Subset
  <2> QED BY <2>2, <2>3
<1> QED BY <1>1, ConsumerConsistent, PTL

\* Once Drain or Stop has set draining, no loop of the process is given a message,
\* not even one that read the flags before, or one begun by a later Start.
THEOREM NothingIsFetched == Spec => NothingFetchedWhileDraining
<1>1. ASSUME ConsumerInv, [Next]_vars, NEW w \in Workers, NEW i \in Starts, proc[w].draining
      PROVE  loop'[w][i].batch \subseteq loop[w][i].batch
  <2>1. loop \in [Workers -> [Starts -> Loop]] /\ proc \in [Workers -> Process]
    BY <1>1 DEF ConsumerInv, ConsumerTypeOK
  <2>2. CASE UNCHANGED loop
    BY <2>2
  <2>3. ASSUME NEW v \in Workers, NEW h \in Starts, LoopStep(v, h)
        PROVE  loop'[w][i].batch \subseteq loop[w][i].batch
    <3>1. CASE Fetch(v, h)
      <4>1. CASE v = w /\ h = i
        <5>1. loop[w][i].sub # proc[w].sub
          BY <1>1, <3>1, <4>1 DEF ConsumerInv, ProcessOK, LoopOK, Fetch
        <5>2. loop' = [loop EXCEPT ![w][i].pc = "check"]
          BY <3>1, <4>1, <5>1 DEF Fetch
        <5> QED BY <2>1, <5>2 DEF Loop
      <4>2. CASE ~(v = w /\ h = i)
        BY <2>1, <3>1, <4>2 DEF Fetch
      <4> QED BY <4>1, <4>2
    <3>a. loop[v][h] \in Loop
      BY <2>1
    <3>b. ASSUME NEW l, loop' = [loop EXCEPT ![v][h] = l], l.batch \subseteq loop[v][h].batch
          PROVE  loop'[w][i].batch \subseteq loop[w][i].batch
      BY <2>1, <3>b
    <3>2. CASE CheckFlags(v, h)
      <4>1. CASE loop' = [loop EXCEPT ![v][h].pc = "ended"]
        BY <2>1, <3>a, <4>1 DEF Loop
      <4>2. CASE loop' = [loop EXCEPT ![v][h].pc = "fetch", ![v][h].sub = proc[v].sub]
        <5> DEFINE l == [loop[v][h] EXCEPT !.pc = "fetch", !.sub = proc[v].sub]
        <5>1. loop' = [loop EXCEPT ![v][h] = l] /\ l.batch = loop[v][h].batch
          BY <2>1, <3>a, <4>2 DEF Loop
        <5> HIDE DEF l
        <5> QED BY <5>1, <3>b
      <4> QED BY <3>2, <4>1, <4>2 DEF CheckFlags
    <3>3. CASE NextMessage(v, h)
      <4>1. CASE \E m \in loop[v][h].batch :
                   loop' = [loop EXCEPT ![v][h].pc = "job", ![v][h].msg = {m},
                                        ![v][h].batch = @ \ {m}]
        <5> PICK m \in loop[v][h].batch :
                   loop' = [loop EXCEPT ![v][h].pc = "job", ![v][h].msg = {m},
                                        ![v][h].batch = @ \ {m}]
          BY <4>1
        <5> DEFINE l == [loop[v][h] EXCEPT !.pc = "job", !.msg = {m}, !.batch = @ \ {m}]
        <5>1. loop' = [loop EXCEPT ![v][h] = l] /\ l.batch = loop[v][h].batch \ {m}
          BY <2>1, <3>a DEF Loop
        <5> HIDE DEF l
        <5> QED BY <5>1, <3>b
      <4>2. CASE loop' = [loop EXCEPT ![v][h].pc = "check"]
        BY <2>1, <3>a, <4>2 DEF Loop
      <4> QED BY <3>3, <4>1, <4>2 DEF NextMessage
    <3>4. CASE JobEnds(v, h)
      <4> PICK ok \in BOOLEAN : loop' = [loop EXCEPT ![v][h].pc = "stats", ![v][h].ok = ok]
        BY <3>4 DEF JobEnds
      <4> DEFINE l == [loop[v][h] EXCEPT !.pc = "stats", !.ok = ok]
      <4>1. loop' = [loop EXCEPT ![v][h] = l] /\ l.batch = loop[v][h].batch
        BY <2>1, <3>a DEF Loop
      <4> HIDE DEF l
      <4> QED BY <4>1, <3>b
    <3>5. CASE UpdateStats(v, h)
      BY <2>1, <3>5 DEF UpdateStats, Loop
    <3>6. CASE UpdateHealth(v, h)
      BY <2>1, <3>6 DEF UpdateHealth, Loop
    <3>7. CASE Reply(v, h)
      BY <2>1, <3>7 DEF Reply, Loop
    <3> QED BY <2>3, <3>1, <3>2, <3>3, <3>4, <3>5, <3>6, <3>7 DEF LoopStep
  <2>4. ASSUME NEW v \in Workers, NEW h \in Starts,
               loop' = [loop EXCEPT ![v][h] = [NoLoop EXCEPT !.pc = "check"]]
        PROVE  loop'[w][i].batch \subseteq loop[w][i].batch
    BY <2>1, <2>4 DEF NoLoop
  <2>5. ASSUME NEW v \in Workers, ProcessStart(v) \/ Crash(v)
        PROVE  loop'[w][i].batch \subseteq loop[w][i].batch
    <3>1. CASE ProcessStart(v)
      BY <2>2, <2>4, <3>1, Bounds DEF ProcessStart, Starts
    <3>2. CASE Crash(v)
      BY <2>1, <3>2 DEF Crash, NoLoop
    <3> QED BY <2>5, <3>1, <3>2
  <2>6. ASSUME NEW v \in Workers, NEW good \in Process, NEW bad, StartConsumer(v, good, bad)
        PROVE  loop'[w][i].batch \subseteq loop[w][i].batch
    <3>1. good.starts + 1 \in Starts
      BY <2>6, Bounds DEF StartConsumer, Process, Starts
    <3> QED BY <2>2, <2>4, <2>6, <3>1 DEF StartConsumer
  <2>7. ASSUME NEW v \in Workers, ServiceStart(v) \/ AddConsumer(v) \/ RestartStart(v)
        PROVE  loop'[w][i].batch \subseteq loop[w][i].batch
    <3>1. /\ [proc[v] EXCEPT !.serving = TRUE] \in Process
          /\ [proc[v] EXCEPT !.member = TRUE] \in Process
          /\ [proc[v] EXCEPT !.restarting = FALSE] \in Process
      BY <2>1 DEF Process
    <3> QED BY <2>2, <2>6, <2>7, <3>1 DEF ServiceStart, AddConsumer, RestartStart
  <2>8. ASSUME NEW v \in Workers,
               \/ ServiceStop(v) \/ RemoveConsumer(v) \/ RestartStop(v)
               \/ DrainBegins(v) \/ DrainEnds(v) \/ FlushPending(v) \/ Close(v)
        PROVE  UNCHANGED loop
    BY <2>8 DEF ServiceStop, RemoveConsumer, RestartStop, DrainBegins, DrainEnds,
       FlushPending, Close
  <2>9. ASSUME NEW m \in Messages, Publish(m) \/ Expire(m) \/ AckWaitEnds(m) \/ GiveUp(m)
        PROVE  UNCHANGED loop
    BY <2>9 DEF Publish, Expire, AckWaitEnds, GiveUp
  <2>10. CASE UNCHANGED vars
    BY <2>2, <2>10 DEF vars
  <2> QED BY <1>1, <2>2, <2>3, <2>5, <2>7, <2>8, <2>9, <2>10 DEF Next
<1>2. ASSUME ConsumerInv, [Next]_vars
      PROVE  [\A w \in Workers, i \in Starts :
                proc[w].draining => loop'[w][i].batch \subseteq loop[w][i].batch]_vars
  BY <1>1, <1>2
<1> QED BY <1>2, ConsumerConsistent, PTL DEF Spec, NothingFetchedWhileDraining

-----------------------------------------------------------------------------
(* The refinement of DeliveryPromise.                                      *)

\* Who holds or has processed a message, loop by loop.
LEMMA Hands ==
  /\ \A m \in Messages : m \in InHand <=>
       \E w \in Workers, i \in Starts : m \in loop[w][i].batch \cup loop[w][i].msg
  /\ \A m \in Messages : m \in Processed <=>
       \E w \in Workers, i \in Starts : loop[w][i].ok /\ m \in loop[w][i].msg
  /\ InHand \subseteq Messages /\ Processed \subseteq Messages
BY DEF InHand, Processed

\* What a loop has can be no more than before where each has no more.
LEMMA HandsEmpty ==
  ASSUME \A w \in Workers, i \in Starts :
           /\ loop'[w][i].batch \cup loop'[w][i].msg \subseteq loop[w][i].batch \cup loop[w][i].msg
           /\ loop'[w][i].ok => loop[w][i].ok /\ loop'[w][i].msg \subseteq loop[w][i].msg
  PROVE  InHand' \subseteq InHand /\ Processed' \subseteq Processed
BY DEF InHand, Processed

LEMMA Dropped ==
  ASSUME UNCHANGED <<published, stream, expired, count>>,
         InHand' \subseteq InHand, Processed' \subseteq Processed
  PROVE  Delivery!Next
BY DEF Delivery!Next, Delivery!Drop, Delivery!Drops

LEMMA Renewed ==
  ASSUME RecreateDurable \/ UNCHANGED serverVars, UNCHANGED <<published, stream, expired>>,
         InHand' = InHand, Processed' = Processed
  PROVE  Delivery!Next
<1>1. CASE RecreateDurable
  BY <1>1 DEF RecreateDurable, Delivery!Next, Delivery!Renew
<1>2. CASE UNCHANGED serverVars
  BY <1>2, Dropped DEF serverVars
<1> QED BY <1>1, <1>2

\* A process that moves while its loops stay, and starts no further one.
LEMMA FlagsMove ==
  ASSUME HandsOK, UNCHANGED loop, UNCHANGED <<published, stream, expired>>,
         RecreateDurable \/ UNCHANGED serverVars,
         \A w \in Workers : proc'[w].starts = proc[w].starts
  PROVE  HandsOK' /\ Delivery!Next
<1>1. InHand' = InHand /\ Processed' = Processed
  BY DEF InHand, Processed
<1> QED BY <1>1, Renewed DEF HandsOK

\* A loop that is begun.
LEMMA LoopBegins ==
  ASSUME ConsumerInv, HandsOK, NEW w \in Workers, NEW n \in Starts, n = proc[w].starts + 1,
         RecreateDurable, UNCHANGED <<published, stream, expired>>,
         loop' = [loop EXCEPT ![w][n] = [NoLoop EXCEPT !.pc = "check"]],
         proc'[w].starts = n,
         \A v \in Workers \ {w} : proc'[v].starts = proc[v].starts
  PROVE  HandsOK' /\ Delivery!Next
<1> DEFINE l == [NoLoop EXCEPT !.pc = "check"]
<1>1. loop \in [Workers -> [Starts -> Loop]] /\ proc[w].starts \in Nat
  BY DEF ConsumerInv, ConsumerTypeOK, Process
<1>2. l.pc = "check" /\ l.batch = {} /\ l.msg = {} /\ l.ok = FALSE
  BY DEF NoLoop
<1>3. /\ loop'[w][n] = l
      /\ \A v \in Workers, i \in Starts : v # w \/ i # n => loop'[v][i] = loop[v][i]
  BY <1>1
<1> HIDE DEF l
<1>4. loop[w][n].pc = "none"
  BY <1>1 DEF HandsOK
<1>5. loop[w][n].batch = {} /\ loop[w][n].msg = {} /\ loop[w][n].ok = FALSE
  BY <1>1, <1>4 DEF HandsOK, EmptyHanded, ConsumerInv, ProcessOK, LoopOK, Loop
<1>6. InHand' = InHand /\ Processed' = Processed
  <2>1. ASSUME NEW v \in Workers, NEW i \in Starts
        PROVE  /\ loop'[v][i].batch = loop[v][i].batch /\ loop'[v][i].msg = loop[v][i].msg
               /\ loop'[v][i].ok = loop[v][i].ok
    <3>1. CASE v = w /\ i = n
      BY <1>2, <1>3, <1>5, <3>1
    <3>2. CASE v # w \/ i # n
      BY <1>3, <3>2
    <3> QED BY <3>1, <3>2
  <2> QED BY <2>1 DEF InHand, Processed
<1>7. HandsOK'
  <2>1. ASSUME NEW v \in Workers, NEW i \in Starts
        PROVE  EmptyHanded(loop'[v][i]) /\ (i > proc'[v].starts => loop'[v][i].pc = "none")
    <3>1. CASE v = w /\ i = n
      <4>1. loop'[v][i] = l /\ proc'[v].starts = n
        BY <1>3, <3>1
      <4>2. EmptyHanded(l)
        BY <1>2 DEF EmptyHanded
      <4>3. ~(i > n)
        BY <1>1, <3>1
      <4> QED BY <4>1, <4>2, <4>3
    <3>2. CASE v # w \/ i # n
      <4>1. i > proc'[v].starts => i > proc[v].starts
        BY <1>1 DEF Starts
      <4> QED BY <1>3, <3>2, <4>1 DEF HandsOK
    <3> QED BY <3>1, <3>2
  <2> QED BY <2>1 DEF HandsOK
<1> QED BY <1>6, <1>7, Renewed

LEMMA StartDelivers ==
  ASSUME ConsumerInv, HandsOK, NEW w \in Workers, NEW good \in Process, NEW bad \in Process,
         StartConsumer(w, good, bad), UNCHANGED <<published, stream, expired>>,
         good.starts = proc[w].starts, bad.starts = proc[w].starts
  PROVE  HandsOK' /\ Delivery!Next
<1>1. proc \in [Workers -> Process] /\ good.starts \in 0..MaxStarts
  BY DEF ConsumerInv, ConsumerTypeOK, Process
<1>2. CASE /\ ~good.running /\ RecreateDurable
           /\ proc' = [proc EXCEPT ![w] = Started(good)]
           /\ loop' = [loop EXCEPT ![w][good.starts + 1] = [NoLoop EXCEPT !.pc = "check"]]
  <2>1. good.starts + 1 \in Starts
    BY <1>1, Bounds DEF StartConsumer, Starts
  <2>2. Started(good).starts = good.starts + 1
    BY DEF Started, Process
  <2>3. /\ proc'[w].starts = good.starts + 1
        /\ \A v \in Workers \ {w} : proc'[v].starts = proc[v].starts
    BY <1>1, <1>2, <2>2
  <2> QED BY <1>2, <2>1, <2>3, LoopBegins
<1>3. CASE /\ proc' = [proc EXCEPT ![w] = [bad EXCEPT !.conn = FALSE]] /\ UNCHANGED loop
           /\ RecreateDurable \/ UNCHANGED serverVars
  <2>1. [bad EXCEPT !.conn = FALSE].starts = proc[w].starts
    BY DEF Process
  <2>2. \A v \in Workers : proc'[v].starts = proc[v].starts
    BY <1>1, <1>3, <2>1
  <2> QED BY <1>3, <2>2, FlagsMove
<1>4. CASE proc' = [proc EXCEPT ![w] = bad] /\ UNCHANGED loop /\ UNCHANGED serverVars
  <2>1. \A v \in Workers : proc'[v].starts = proc[v].starts
    BY <1>1, <1>4
  <2> QED BY <1>4, <2>1, FlagsMove
<1> QED BY <1>2, <1>3, <1>4 DEF StartConsumer

LEMMA ServiceDelivers ==
  ASSUME ConsumerInv, HandsOK, NEW w \in Workers,
         \/ ServiceStart(w) \/ AddConsumer(w) \/ RestartStart(w)
  PROVE  HandsOK' /\ Delivery!Next
<1>1. proc \in [Workers -> Process] /\ proc[w] \in Process
  BY DEF ConsumerInv, ConsumerTypeOK
<1>2. CASE ServiceStart(w)
  <2> DEFINE good == [proc[w] EXCEPT !.serving = TRUE]
  <2>1. good \in Process /\ good.starts = proc[w].starts
    BY <1>1 DEF Process
  <2>2. CASE proc[w].member
    <3>1. StartConsumer(w, good, proc[w]) /\ UNCHANGED <<published, stream, expired>>
      BY <1>2, <2>2 DEF ServiceStart
    <3> HIDE DEF good
    <3> QED BY <1>1, <2>1, <3>1, StartDelivers
  <2>3. CASE ~proc[w].member
    <3>1. \A v \in Workers : proc'[v].starts = proc[v].starts
      BY <1>1, <1>2, <2>3 DEF ServiceStart, Process
    <3> QED BY <1>2, <2>3, <3>1, FlagsMove DEF ServiceStart
  <2> QED BY <2>2, <2>3
<1>3. CASE AddConsumer(w)
  <2> DEFINE good == [proc[w] EXCEPT !.member = TRUE]
  <2>1. good \in Process /\ good.starts = proc[w].starts
    BY <1>1 DEF Process
  <2>2. CASE proc[w].serving
    <3>1. StartConsumer(w, good, proc[w]) /\ UNCHANGED <<published, stream, expired>>
      BY <1>3, <2>2 DEF AddConsumer
    <3> HIDE DEF good
    <3> QED BY <1>1, <2>1, <3>1, StartDelivers
  <2>3. CASE ~proc[w].serving
    <3>1. \A v \in Workers : proc'[v].starts = proc[v].starts
      BY <1>1, <1>3, <2>3 DEF AddConsumer, Process
    <3> QED BY <1>3, <2>3, <3>1, FlagsMove DEF AddConsumer
  <2> QED BY <2>2, <2>3
<1>4. CASE RestartStart(w)
  <2> DEFINE good == [proc[w] EXCEPT !.restarting = FALSE]
  <2>1. good \in Process /\ good.starts = proc[w].starts
    BY <1>1 DEF Process
  <2>2. StartConsumer(w, good, good) /\ UNCHANGED <<published, stream, expired>>
    BY <1>4 DEF RestartStart
  <2> HIDE DEF good
  <2> QED BY <2>1, <2>2, StartDelivers
<1> QED BY <1>2, <1>3, <1>4

\* What only sets flags of a process.
LEMMA FlagsDeliver ==
  ASSUME ConsumerInv, HandsOK, NEW w \in Workers,
         \/ ServiceStop(w) \/ RemoveConsumer(w) \/ RestartStop(w)
         \/ DrainBegins(w) \/ DrainEnds(w) \/ FlushPending(w) \/ Close(w)
  PROVE  HandsOK' /\ Delivery!Next
<1>1. proc \in [Workers -> Process] /\ proc[w] \in Process
  BY DEF ConsumerInv, ConsumerTypeOK
<1>2. Stopped(proc[w]) \in Process /\ Stopped(proc[w]).starts = proc[w].starts
  BY <1>1, StoppedTyped DEF Stopped, Process
<1>3. \A v \in Workers : proc'[v].starts = proc[v].starts
  <2>1. CASE ServiceStop(w)
    <3> DEFINE p == IF proc[w].member THEN Stopped(proc[w]) ELSE proc[w]
    <3>1. p \in Process /\ p.starts = proc[w].starts
      BY <1>1, <1>2
    <3>2. proc' = [proc EXCEPT ![w] = [p EXCEPT !.serving = FALSE]]
      BY <1>1, <2>1 DEF ServiceStop
    <3> HIDE DEF p
    <3>3. [p EXCEPT !.serving = FALSE].starts = p.starts
      BY <3>1 DEF Process
    <3> QED BY <1>1, <3>1, <3>2, <3>3
  <2>2. CASE RemoveConsumer(w)
    <3>1. [Stopped(proc[w]) EXCEPT !.member = FALSE].starts = proc[w].starts
      BY <1>2 DEF Process
    <3> QED BY <1>1, <2>2, <3>1 DEF RemoveConsumer
  <2>3. CASE RestartStop(w)
    <3>1. [Stopped(proc[w]) EXCEPT !.restarting = TRUE].starts = proc[w].starts
      BY <1>2 DEF Process
    <3> QED BY <1>1, <2>3, <3>1 DEF RestartStop
  <2>4. CASE DrainBegins(w) \/ DrainEnds(w) \/ FlushPending(w) \/ Close(w)
    BY <1>1, <2>4 DEF DrainBegins, DrainEnds, FlushPending, Close, Process
  <2> QED BY <2>1, <2>2, <2>3, <2>4
<1>4. UNCHANGED <<loop, published, stream, expired>> /\ UNCHANGED serverVars
  BY DEF ServiceStop, RemoveConsumer, RestartStop, DrainBegins, DrainEnds, FlushPending, Close
<1> QED BY <1>3, <1>4, FlagsMove

LEMMA ProcessDelivers ==
  ASSUME ConsumerInv, HandsOK, NEW w \in Workers, ProcessStart(w)
  PROVE  HandsOK' /\ Delivery!Next
<1> DEFINE up == [Down EXCEPT !.up = TRUE, !.serving = TRUE, !.member = TRUE]
<1>1. proc \in [Workers -> Process] /\ proc[w] = Down /\ Down \in Process /\ 1 \in Starts
  BY DownOK, Bounds DEF ConsumerInv, ConsumerTypeOK, ProcessOK, ProcessStart, Starts
<1>2. Down.starts = 0 /\ up \in Process /\ up.starts = 0
  BY <1>1 DEF Down, Process
<1>3. Started(up).starts = 1
  BY <1>2 DEF Started, Process
<1>4. CASE /\ RecreateDurable /\ proc' = [proc EXCEPT ![w] = Started(up)]
           /\ loop' = [loop EXCEPT ![w][1] = [NoLoop EXCEPT !.pc = "check"]]
  <2> HIDE DEF up
  <2>1. proc'[w].starts = 1 /\ \A v \in Workers \ {w} : proc'[v].starts = proc[v].starts
    BY <1>1, <1>3, <1>4
  <2>2. 1 = proc[w].starts + 1
    BY <1>1, <1>2
  <2> QED BY <1>1, <1>4, <2>1, <2>2, LoopBegins DEF ProcessStart
<1>5. CASE UNCHANGED <<proc, loop>> /\ (RecreateDurable \/ UNCHANGED serverVars)
  BY <1>5, FlagsMove DEF ProcessStart
<1> QED BY <1>4, <1>5 DEF ProcessStart

LEMMA CrashDelivers ==
  ASSUME ConsumerInv, HandsOK, NEW w \in Workers, Crash(w)
  PROVE  HandsOK' /\ Delivery!Next
<1>1. /\ proc \in [Workers -> Process] /\ loop \in [Workers -> [Starts -> Loop]]
      /\ NoLoop.pc = "none" /\ NoLoop.batch = {} /\ NoLoop.msg = {} /\ NoLoop.ok = FALSE
  BY DEF ConsumerInv, ConsumerTypeOK, NoLoop
<1>2. \A i \in Starts : loop'[w][i] = NoLoop
  BY <1>1 DEF Crash
<1>3. \A v \in Workers \ {w} : loop'[v] = loop[v] /\ proc'[v] = proc[v]
  BY <1>1 DEF Crash
<1>4. EmptyHanded(NoLoop)
  BY <1>1 DEF EmptyHanded
<1>5. HandsOK'
  BY <1>1, <1>2, <1>3, <1>4 DEF HandsOK
<1>6. InHand' \subseteq InHand /\ Processed' \subseteq Processed
  BY <1>1, <1>2, <1>3, HandsEmpty
<1> QED BY <1>5, <1>6, Dropped DEF Crash, serverVars

LEMMA ServerDelivers ==
  ASSUME ConsumerInv, HandsOK, CountsOK, NEW m \in Messages,
         Publish(m) \/ Expire(m) \/ AckWaitEnds(m) \/ GiveUp(m)
  PROVE  HandsOK' /\ Delivery!Next
<1>1. UNCHANGED <<proc, loop>> /\ HandsOK' /\ InHand' = InHand /\ Processed' = Processed
  BY DEF Publish, Expire, AckWaitEnds, GiveUp, HandsOK, InHand, Processed
<1>2. CASE Publish(m)
  <2>1. m \notin stream /\ m \notin published /\ count[m] = 0 /\ stream \subseteq published
    BY <1>2 DEF Publish, ConsumerInv, ConsumerTypeOK, CountsOK
  <2>2. Delivery!Publish(m)
    BY <1>1, <1>2, <2>1 DEF Delivery!Publish, Publish, serverVars, ConsumerInv, ConsumerTypeOK
  <2> QED BY <1>1, <2>2 DEF Delivery!Next
<1>3. CASE AckWaitEnds(m) \/ GiveUp(m)
  BY <1>1, <1>3, Dropped DEF AckWaitEnds, GiveUp
<1>4. CASE Expire(m)
  <2>1. m \in stream /\ stream' = stream \ {m} /\ expired' = expired \cup {m}
    BY <1>4 DEF Expire
  <2>2. UNCHANGED <<published, count>> /\ expired \cap stream = {}
    BY <1>4 DEF Expire, ConsumerInv, ConsumerTypeOK
  <2>3. Delivery!Expire(m)
    BY <1>1, <2>1, <2>2 DEF Delivery!Expire
  <2> QED BY <1>1, <2>3 DEF Delivery!Next
<1> QED BY <1>2, <1>3, <1>4

\* A loop that moves while the others stay.
OnlyLoop(w, i) ==
  /\ loop[w][i].pc # "none" /\ EmptyHanded(loop'[w][i])
  /\ \A v \in Workers, h \in Starts : v # w \/ h # i => loop'[v][h] = loop[v][h]
  /\ \A v \in Workers : proc'[v].starts = proc[v].starts
NoMore(w, i) ==
  loop'[w][i].batch \cup loop'[w][i].msg \subseteq loop[w][i].batch \cup loop[w][i].msg
NoMoreReady(w, i) ==
  loop'[w][i].ok => loop[w][i].ok /\ loop'[w][i].msg \subseteq loop[w][i].msg

LEMMA LoopHands ==
  ASSUME HandsOK, NEW w \in Workers, NEW i \in Starts, OnlyLoop(w, i)
  PROVE  /\ HandsOK'
         /\ NoMore(w, i) => InHand' \subseteq InHand
         /\ NoMoreReady(w, i) => Processed' \subseteq Processed
<1>1. ASSUME NEW v \in Workers, NEW h \in Starts
      PROVE  EmptyHanded(loop'[v][h]) /\ (h > proc'[v].starts => loop'[v][h].pc = "none")
  <2>1. CASE v = w /\ h = i
    BY <2>1 DEF HandsOK, OnlyLoop
  <2>2. CASE v # w \/ h # i
    BY <2>2 DEF HandsOK, OnlyLoop
  <2> QED BY <2>1, <2>2
<1>2. HandsOK'
  BY <1>1 DEF HandsOK
<1>3. ASSUME NoMore(w, i) PROVE InHand' \subseteq InHand
  <2>1. \A v \in Workers, h \in Starts :
          loop'[v][h].batch \cup loop'[v][h].msg \subseteq loop[v][h].batch \cup loop[v][h].msg
    <3> TAKE v \in Workers, h \in Starts
    <3>1. CASE v = w /\ h = i
      BY <1>3, <3>1 DEF NoMore
    <3>2. CASE v # w \/ h # i
      BY <3>2 DEF OnlyLoop
    <3> QED BY <3>1, <3>2
  <2> QED BY <2>1 DEF InHand
<1>4. ASSUME NoMoreReady(w, i) PROVE Processed' \subseteq Processed
  <2>1. \A v \in Workers, h \in Starts :
          loop'[v][h].ok => loop[v][h].ok /\ loop'[v][h].msg \subseteq loop[v][h].msg
    <3> TAKE v \in Workers, h \in Starts
    <3>1. CASE v = w /\ h = i
      BY <1>4, <3>1 DEF NoMoreReady
    <3>2. CASE v # w \/ h # i
      BY <3>2 DEF OnlyLoop
    <3> QED BY <3>1, <3>2
  <2> QED BY <2>1 DEF Processed
<1> QED BY <1>2, <1>3, <1>4

\* A loop and its process, as the actions of a loop find them.
LEMMA LoopIs ==
  ASSUME ConsumerInv, NEW w \in Workers, NEW i \in Starts
  PROVE  /\ loop \in [Workers -> [Starts -> Loop]] /\ proc \in [Workers -> Process]
         /\ loop[w][i] \in Loop /\ proc[w] \in Process
         /\ loop[w][i].ok => loop[w][i].pc \in {"stats", "reply"}
BY DEF ConsumerInv, ConsumerTypeOK, ProcessOK, LoopOK

LEMMA CheckFlagsDelivers ==
  ASSUME ConsumerInv, HandsOK, NEW w \in Workers, NEW i \in Starts, CheckFlags(w, i)
  PROVE  HandsOK' /\ Delivery!Next
<1>1. /\ loop'[w][i].pc \in {"fetch", "ended"} /\ loop'[w][i].batch = loop[w][i].batch
      /\ loop'[w][i].msg = loop[w][i].msg /\ loop'[w][i].ok = loop[w][i].ok
      /\ \A v \in Workers, h \in Starts : v # w \/ h # i => loop'[v][h] = loop[v][h]
  BY LoopIs DEF CheckFlags, Loop
<1>2. OnlyLoop(w, i) /\ NoMore(w, i) /\ NoMoreReady(w, i)
  BY <1>1 DEF OnlyLoop, NoMore, NoMoreReady, CheckFlags, HandsOK, EmptyHanded
<1> QED BY <1>2, LoopHands, Dropped DEF CheckFlags, serverVars

LEMMA NextMessageDelivers ==
  ASSUME ConsumerInv, HandsOK, NEW w \in Workers, NEW i \in Starts, NextMessage(w, i)
  PROVE  HandsOK' /\ Delivery!Next
<1>1. /\ loop \in [Workers -> [Starts -> Loop]] /\ loop[w][i] \in Loop
      /\ loop[w][i].pc = "next" /\ EmptyHanded(loop[w][i])
      /\ ~loop[w][i].ok
  BY LoopIs DEF NextMessage, HandsOK
<1>2. CASE \E m \in loop[w][i].batch :
             loop' = [loop EXCEPT ![w][i].pc = "job", ![w][i].msg = {m},
                                  ![w][i].batch = @ \ {m}]
  <2>1. PICK m \in loop[w][i].batch :
             loop' = [loop EXCEPT ![w][i].pc = "job", ![w][i].msg = {m},
                                  ![w][i].batch = @ \ {m}]
    BY <1>2
  <2> DEFINE l == [loop[w][i] EXCEPT !.pc = "job", !.msg = {m}, !.batch = @ \ {m}]
  <2>2. loop' = [loop EXCEPT ![w][i] = l]
    BY <1>1, <2>1
  <2>3. l.pc = "job" /\ l.msg = {m} /\ l.batch = loop[w][i].batch \ {m}
    BY <1>1 DEF Loop
  <2>4. l.ok = loop[w][i].ok
    BY <1>1 DEF Loop
  <2> HIDE DEF l
  <2>5. EmptyHanded(l)
    BY <2>3 DEF EmptyHanded
  <2>6. OnlyLoop(w, i)
    BY <1>1, <2>2, <2>5, LoopIs DEF OnlyLoop, NextMessage
  <2>7. NoMore(w, i) /\ NoMoreReady(w, i)
    <3>1. loop'[w][i] = l
      BY <2>2, LoopIs
    <3> QED BY <1>1, <2>3, <2>4, <3>1 DEF NoMore, NoMoreReady
  <2> QED BY <2>6, <2>7, LoopHands, Dropped DEF NextMessage, serverVars
<1>3. CASE loop[w][i].batch = {} /\ loop' = [loop EXCEPT ![w][i].pc = "check"]
  <2> DEFINE l == [loop[w][i] EXCEPT !.pc = "check"]
  <2>1. loop' = [loop EXCEPT ![w][i] = l]
    BY <1>1, <1>3
  <2>2. l.pc = "check" /\ l.msg = loop[w][i].msg /\ l.batch = loop[w][i].batch
    BY <1>1 DEF Loop
  <2>3. l.ok = loop[w][i].ok
    BY <1>1 DEF Loop
  <2> HIDE DEF l
  <2>4. EmptyHanded(l)
    BY <1>1, <1>3, <2>2 DEF EmptyHanded
  <2>5. OnlyLoop(w, i)
    BY <1>1, <2>1, <2>4, LoopIs DEF OnlyLoop, NextMessage
  <2>6. NoMore(w, i) /\ NoMoreReady(w, i)
    <3>1. loop'[w][i] = l
      BY <2>1, LoopIs
    <3> QED BY <1>1, <2>2, <2>3, <3>1 DEF NoMore, NoMoreReady
  <2> QED BY <2>5, <2>6, LoopHands, Dropped DEF NextMessage, serverVars
<1> QED BY <1>2, <1>3 DEF NextMessage

LEMMA StatsDeliver ==
  ASSUME ConsumerInv, HandsOK, NEW w \in Workers, NEW i \in Starts,
         UpdateStats(w, i) \/ UpdateHealth(w, i)
  PROVE  HandsOK' /\ Delivery!Next
<1>1. /\ loop \in [Workers -> [Starts -> Loop]] /\ loop[w][i] \in Loop
      /\ proc \in [Workers -> Process] /\ loop[w][i].pc \in {"stats", "health"}
  BY LoopIs DEF UpdateStats, UpdateHealth
<1>2. \A v \in Workers : proc'[v].starts = proc[v].starts
  <2>1. CASE UpdateStats(w, i)
    <3> DEFINE p == [proc[w] EXCEPT !.pending = @ \/ ~loop[w][i].ok]
    <3>1. proc' = [proc EXCEPT ![w] = p]
      BY <1>1, <2>1 DEF UpdateStats
    <3>2. p.starts = proc[w].starts
      BY <1>1 DEF Process
    <3> HIDE DEF p
    <3> QED BY <1>1, <3>1, <3>2
  <2>2. CASE UpdateHealth(w, i)
    BY <2>2 DEF UpdateHealth
  <2> QED BY <2>1, <2>2
<1>3. PICK s \in {"reply", "health"} : loop' = [loop EXCEPT ![w][i].pc = s]
  BY DEF UpdateStats, UpdateHealth
<1> DEFINE l == [loop[w][i] EXCEPT !.pc = s]
<1>4. loop' = [loop EXCEPT ![w][i] = l]
  BY <1>1, <1>3
<1>5. l.pc = s /\ l.msg = loop[w][i].msg /\ l.batch = loop[w][i].batch
  BY <1>1 DEF Loop
<1>6. l.ok = loop[w][i].ok
  BY <1>1 DEF Loop
<1> HIDE DEF l
<1>7. EmptyHanded(l)
  BY <1>5 DEF EmptyHanded
<1>8. OnlyLoop(w, i)
  BY <1>1, <1>2, <1>4, <1>7, LoopIs DEF OnlyLoop
<1>9. NoMore(w, i) /\ NoMoreReady(w, i)
  <2>1. loop'[w][i] = l
    BY <1>4, LoopIs
  <2> QED BY <1>5, <1>6, <2>1 DEF NoMore, NoMoreReady
<1> QED BY <1>8, <1>9, LoopHands, Dropped DEF UpdateStats, UpdateHealth, serverVars

\* A job's success makes its message ready.
LEMMA JobEndsDelivers ==
  ASSUME ConsumerInv, HandsOK, NEW w \in Workers, NEW i \in Starts, JobEnds(w, i)
  PROVE  HandsOK' /\ Delivery!Next
<1> DEFINE S == loop[w][i].msg
<1>1. /\ loop \in [Workers -> [Starts -> Loop]] /\ loop[w][i] \in Loop
      /\ loop[w][i].pc = "job" /\ ~loop[w][i].ok
  BY LoopIs DEF JobEnds
<1>2. PICK ok \in BOOLEAN : loop' = [loop EXCEPT ![w][i].pc = "stats", ![w][i].ok = ok]
  BY DEF JobEnds
<1> DEFINE l == [loop[w][i] EXCEPT !.pc = "stats", !.ok = ok]
<1>3. loop' = [loop EXCEPT ![w][i] = l]
  BY <1>1, <1>2
<1>4. l.pc = "stats" /\ l.msg = S /\ l.batch = loop[w][i].batch
  BY <1>1 DEF Loop
<1> HIDE DEF l
<1>5. EmptyHanded(l)
  BY <1>4 DEF EmptyHanded
<1>6. /\ loop'[w][i] = l
      /\ \A v \in Workers, h \in Starts : v # w \/ h # i => loop'[v][h] = loop[v][h]
  BY <1>3, LoopIs
<1>7. OnlyLoop(w, i) /\ NoMore(w, i)
  BY <1>1, <1>4, <1>5, <1>6 DEF OnlyLoop, NoMore, JobEnds
<1>8. HandsOK' /\ InHand' \subseteq InHand
  BY <1>7, LoopHands
<1>9. CASE ~loop'[w][i].ok
  BY <1>7, <1>8, <1>9, LoopHands, Dropped DEF NoMoreReady, JobEnds, serverVars
<1>10. CASE loop'[w][i].ok
  <2>1. S \subseteq InHand /\ S \subseteq Messages
    BY <1>1 DEF InHand, Loop
  <2>2. InHand' = InHand
    <3>1. ASSUME NEW v \in Workers, NEW h \in Starts
          PROVE  loop'[v][h].batch = loop[v][h].batch /\ loop'[v][h].msg = loop[v][h].msg
      BY <1>4, <1>6
    <3> QED BY <3>1 DEF InHand
  <2>3. Processed' = Processed \cup S
    <3>1. ASSUME NEW m \in Messages PROVE m \in Processed' <=> m \in Processed \cup S
      <4>1. CASE m \in S
        BY <1>4, <1>6, <1>10, <4>1 DEF Processed
      <4>2. CASE m \notin S
        <5>1. \A v \in Workers, h \in Starts :
                (loop'[v][h].ok /\ m \in loop'[v][h].msg) <=> (loop[v][h].ok /\ m \in loop[v][h].msg)
          BY <1>4, <1>6, <4>2
        <5> QED BY <4>2, <5>1 DEF Processed
      <4> QED BY <4>1, <4>2
    <3> QED BY <2>1, <3>1 DEF Processed
  <2>4. Delivery!Succeed(S)
    BY <2>1, <2>2, <2>3 DEF Delivery!Succeed, JobEnds, serverVars
  <2> QED BY <1>8, <2>1, <2>4 DEF Delivery!Next
<1> QED BY <1>9, <1>10

\* An answer to a fetch, which the loop gets or which is lost.
LEMMA FetchDelivers ==
  ASSUME ConsumerInv, HandsOK, NEW w \in Workers, NEW i \in Starts, Fetch(w, i)
  PROVE  HandsOK' /\ Delivery!Next
<1>1. /\ loop \in [Workers -> [Starts -> Loop]] /\ loop[w][i] \in Loop
      /\ loop[w][i].pc = "fetch" /\ ~loop[w][i].ok
      /\ loop[w][i].batch = {} /\ loop[w][i].msg = {}
  BY LoopIs DEF Fetch, HandsOK, EmptyHanded
<1>2. UNCHANGED <<published, stream, expired, proc>> /\ stream \subseteq Messages
  BY DEF Fetch, ConsumerInv, ConsumerTypeOK
<1>3. ASSUME NEW S \in SUBSET Available, Delivered(S), Processed' = Processed,
             InHand' = InHand \/ InHand' = InHand \cup S
      PROVE  Delivery!Next
  <2>1. S \subseteq stream /\ S \in SUBSET Messages /\ \A m \in S : count[m] < MaxDeliver
    BY <1>2, <1>3 DEF Available
  <2>2. Delivery!Deliver(S)
    BY <1>2, <1>3, <2>1 DEF Delivery!Deliver, Delivered
  <2> QED BY <2>1, <2>2 DEF Delivery!Next
<1>4. ASSUME NEW S \in SUBSET Available, Delivered(S),
             loop' = [loop EXCEPT ![w][i].pc = "next", ![w][i].batch = S]
      PROVE  HandsOK' /\ Delivery!Next
  <2> DEFINE l == [loop[w][i] EXCEPT !.pc = "next", !.batch = S]
  <2>1. loop' = [loop EXCEPT ![w][i] = l]
    BY <1>1, <1>4
  <2>2. l.pc = "next" /\ l.msg = {} /\ l.batch = S
    BY <1>1 DEF Loop
  <2>3. l.ok = loop[w][i].ok
    BY <1>1 DEF Loop
  <2> HIDE DEF l
  <2>4. EmptyHanded(l)
    BY <2>2 DEF EmptyHanded
  <2>5. /\ loop'[w][i] = l
        /\ \A v \in Workers, h \in Starts : v # w \/ h # i => loop'[v][h] = loop[v][h]
    BY <2>1, LoopIs
  <2>6. OnlyLoop(w, i) /\ S \subseteq Messages
    BY <1>1, <1>2, <2>4, <2>5 DEF OnlyLoop, Available
  <2>7. ASSUME NEW m \in Messages
        PROVE  /\ m \in InHand' <=> m \in InHand \cup S
               /\ m \in Processed' <=> m \in Processed
    <3>1. \A v \in Workers, h \in Starts :
            (loop'[v][h].ok /\ m \in loop'[v][h].msg) <=> (loop[v][h].ok /\ m \in loop[v][h].msg)
      BY <1>1, <2>2, <2>3, <2>5
    <3>2. \A v \in Workers, h \in Starts :
            m \in loop'[v][h].batch \cup loop'[v][h].msg <=>
              \/ v = w /\ h = i /\ m \in S
              \/ m \in loop[v][h].batch \cup loop[v][h].msg
      <4> TAKE v \in Workers, h \in Starts
      <4>1. CASE v = w /\ h = i
        BY <1>1, <2>2, <2>5, <4>1
      <4>2. CASE v # w \/ h # i
        BY <2>5, <4>2
      <4> QED BY <4>1, <4>2
    <3> HIDE DEF l
    <3>3. m \in InHand' <=> m \in InHand \cup S
      BY <3>2 DEF InHand
    <3>4. m \in Processed' <=> m \in Processed
      BY <3>1 DEF Processed
    <3> QED BY <3>3, <3>4
  <2>8. InHand' = InHand \cup S /\ Processed' = Processed
    <3>1. InHand' \subseteq Messages /\ Processed' \subseteq Messages
      BY DEF InHand, Processed
    <3> QED BY <2>6, <2>7, <3>1, Hands
  <2> QED BY <1>3, <1>4, <2>6, <2>8, LoopHands
<1>5. ASSUME loop' = [loop EXCEPT ![w][i].pc = "check"]
      PROVE  HandsOK' /\ InHand' = InHand /\ Processed' = Processed
  <2> DEFINE l == [loop[w][i] EXCEPT !.pc = "check"]
  <2>1. loop' = [loop EXCEPT ![w][i] = l]
    BY <1>1, <1>5
  <2>2. l.pc = "check" /\ l.msg = {} /\ l.batch = {}
    BY <1>1 DEF Loop
  <2>3. l.ok = loop[w][i].ok
    BY <1>1 DEF Loop
  <2> HIDE DEF l
  <2>4. EmptyHanded(l)
    BY <2>2 DEF EmptyHanded
  <2>5. /\ loop'[w][i] = l
        /\ \A v \in Workers, h \in Starts : v # w \/ h # i => loop'[v][h] = loop[v][h]
    BY <2>1, LoopIs
  <2>6. OnlyLoop(w, i)
    BY <1>1, <1>2, <2>4, <2>5 DEF OnlyLoop
  <2>7. ASSUME NEW v \in Workers, NEW h \in Starts
        PROVE  /\ loop'[v][h].batch = loop[v][h].batch /\ loop'[v][h].msg = loop[v][h].msg
               /\ loop'[v][h].ok <=> loop[v][h].ok
    BY <1>1, <2>2, <2>3, <2>5
  <2>8. InHand' = InHand /\ Processed' = Processed
    BY <2>7 DEF InHand, Processed
  <2> QED BY <2>6, <2>8, LoopHands
<1>6. CASE \E S \in SUBSET Available \ {{}} :
             /\ Delivered(S)
             /\ loop' = [loop EXCEPT ![w][i].pc = "next", ![w][i].batch = S]
  BY <1>4, <1>6
<1>7. CASE loop' = [loop EXCEPT ![w][i].pc = "check"] /\ UNCHANGED serverVars
  BY <1>2, <1>5, <1>7, Dropped DEF serverVars
<1>8. CASE /\ \E S \in SUBSET Available : Delivered(S)
           /\ loop' = [loop EXCEPT ![w][i].pc = "check"]
  BY <1>3, <1>5, <1>8
<1> QED BY <1>6, <1>7, <1>8 DEF Fetch

\* What an Ack removes is in the hands of the loop that sends it, processed.
LEMMA ReplyDelivers ==
  ASSUME ConsumerInv, HandsOK, NEW w \in Workers, NEW i \in Starts, Reply(w, i)
  PROVE  HandsOK' /\ Delivery!Next
<1> DEFINE l == [loop[w][i] EXCEPT !.pc = "next", !.msg = {}, !.ok = FALSE]
<1>1. /\ loop \in [Workers -> [Starts -> Loop]] /\ loop[w][i] \in Loop
      /\ loop[w][i].pc = "reply"
  BY LoopIs DEF Reply
<1>2. loop' = [loop EXCEPT ![w][i] = l]
  BY <1>1 DEF Reply
<1>3. l.pc = "next" /\ l.msg = {} /\ l.batch = loop[w][i].batch
  BY <1>1 DEF Loop
<1>4. ~l.ok
  BY <1>1 DEF Loop
<1> HIDE DEF l
<1>5. EmptyHanded(l)
  BY <1>3 DEF EmptyHanded
<1>6. loop'[w][i] = l
  BY <1>2, LoopIs
<1>7. OnlyLoop(w, i)
  <2>1. \A v \in Workers, h \in Starts : v # w \/ h # i => loop'[v][h] = loop[v][h]
    BY <1>1, <1>2
  <2>2. UNCHANGED proc
    BY DEF Reply
  <2> QED BY <1>1, <1>5, <1>6, <2>1, <2>2 DEF OnlyLoop
<1>8. NoMore(w, i) /\ NoMoreReady(w, i)
  BY <1>3, <1>4, <1>6 DEF NoMore, NoMoreReady
<1>9. HandsOK' /\ InHand' \subseteq InHand /\ Processed' \subseteq Processed
  BY <1>7, <1>8, LoopHands
<1>10. CASE \E m \in loop[w][i].msg : m \in out /\ loop[w][i].ok /\ AckRemoves(m)
  <2> PICK m \in loop[w][i].msg : m \in out /\ loop[w][i].ok /\ AckRemoves(m)
    BY <1>10
  <2>1. m \in Messages /\ m \in Processed
    BY <1>1, <1>10 DEF Loop, Processed
  <2>2. m \in stream /\ m \in published /\ stream' = stream \ {m}
    BY <1>10 DEF ConsumerInv, ConsumerTypeOK, AckRemoves
  <2>3. UNCHANGED <<published, expired, count>> /\ m \notin expired
    BY <2>2 DEF Reply, ConsumerInv, ConsumerTypeOK
  <2>4. Delivery!Remove(m)
    BY <1>9, <2>1, <2>2, <2>3 DEF Delivery!Remove, Delivery!Drops
  <2> QED BY <1>9, <2>1, <2>4 DEF Delivery!Next
<1>11. CASE UNCHANGED stream
  BY <1>9, <1>11, Dropped DEF Reply
<1> QED BY <1>10, <1>11 DEF Reply

-----------------------------------------------------------------------------
\* A message that is not published yet has not been delivered.
LEMMA CountsKept ==
  ASSUME ConsumerInv, CountsOK, [Next]_vars
  PROVE  CountsOK'
<1> DEFINE Case == \/ RecreateDurable \/ UNCHANGED count
                   \/ \E S \in SUBSET Available : Delivered(S)
<1>1. published \subseteq published' /\ stream \subseteq published
  <2>1. stream \subseteq published
    BY DEF ConsumerInv, ConsumerTypeOK
  <2>2. ASSUME NEW w \in Workers, NEW i \in Starts, LoopStep(w, i) PROVE UNCHANGED published
    BY <2>2 DEF LoopStep, CheckFlags, Fetch, NextMessage, JobEnds, UpdateStats, UpdateHealth, Reply
  <2>3. (\E m \in Messages : Publish(m)) \/ UNCHANGED published
    BY <2>2 DEF Next, vars, Expire, AckWaitEnds, GiveUp, ProcessStart, Crash, ServiceStart, ServiceStop,
           RemoveConsumer, AddConsumer, RestartStop, RestartStart, DrainBegins, DrainEnds,
           FlushPending, Close
  <2> QED BY <2>1, <2>3 DEF Publish
<1>2. Case
  <2>1. ASSUME NEW m \in Messages, Publish(m) \/ Expire(m) \/ AckWaitEnds(m) \/ GiveUp(m) PROVE UNCHANGED count
    BY <2>1 DEF Publish, Expire, AckWaitEnds, GiveUp, serverVars
  <2>2. ASSUME NEW w \in Workers, ProcessStart(w) PROVE RecreateDurable \/ UNCHANGED count
    BY <2>2 DEF ProcessStart, serverVars
  <2>3. ASSUME NEW w \in Workers, ServiceStart(w) \/ AddConsumer(w) \/ RestartStart(w)
        PROVE  RecreateDurable \/ UNCHANGED count
    <3>1. ASSUME NEW good, NEW bad, StartConsumer(w, good, bad)
          PROVE  RecreateDurable \/ UNCHANGED count
      BY <3>1 DEF StartConsumer, serverVars
    <3>2. CASE ServiceStart(w)
      BY <3>1, <3>2 DEF ServiceStart, serverVars
    <3>3. CASE AddConsumer(w)
      BY <3>1, <3>3 DEF AddConsumer, serverVars
    <3>4. CASE RestartStart(w)
      BY <3>1, <3>4 DEF RestartStart
    <3> QED BY <2>3, <3>2, <3>3, <3>4
  <2>4. ASSUME NEW w \in Workers,
               \/ Crash(w) \/ ServiceStop(w) \/ RemoveConsumer(w) \/ RestartStop(w)
               \/ DrainBegins(w) \/ DrainEnds(w) \/ FlushPending(w) \/ Close(w)
        PROVE  UNCHANGED count
    BY <2>4 DEF Crash, ServiceStop, RemoveConsumer, RestartStop, DrainBegins, DrainEnds,
                FlushPending, Close, serverVars
  <2>5. ASSUME NEW w \in Workers, NEW i \in Starts, LoopStep(w, i)
        PROVE  UNCHANGED count \/ \E S \in SUBSET Available : Delivered(S)
    BY <2>5 DEF LoopStep, CheckFlags, Fetch, NextMessage, JobEnds, UpdateStats, UpdateHealth,
                Reply, serverVars
  <2> QED BY <2>1, <2>2, <2>3, <2>4, <2>5 DEF Next, vars, serverVars
<1>3. CASE RecreateDurable
  BY <1>3 DEF RecreateDurable, CountsOK
<1>4. CASE UNCHANGED count
  BY <1>1, <1>4 DEF CountsOK
<1>5. CASE \E S \in SUBSET Available : Delivered(S)
  BY <1>1, <1>5 DEF Delivered, Available, CountsOK
<1> QED BY <1>2, <1>3, <1>4, <1>5

LEMMA InitDelivers == Init => HandsOK /\ CountsOK /\ Delivery!Init
<1> SUFFICES ASSUME Init PROVE HandsOK /\ CountsOK /\ Delivery!Init
  OBVIOUS
<1>1. \A w \in Workers, i \in Starts : loop[w][i] = NoLoop
  BY DEF Init
<1>2. NoLoop.pc = "none" /\ NoLoop.batch = {} /\ NoLoop.msg = {} /\ NoLoop.ok = FALSE
  BY DEF NoLoop
<1>3. HandsOK /\ InHand = {} /\ Processed = {}
  BY <1>1, <1>2 DEF HandsOK, EmptyHanded, InHand, Processed
<1>4. CountsOK
  BY DEF Init, CountsOK
<1>5. Delivery!Init
  BY <1>3 DEF Init, Delivery!Init
<1> QED BY <1>3, <1>4, <1>5

LEMMA NextDelivers ==
  ASSUME ConsumerInv, HandsOK, CountsOK, Next
  PROVE  HandsOK' /\ Delivery!Next
<1>1. ASSUME NEW m \in Messages, Publish(m) \/ Expire(m) \/ AckWaitEnds(m) \/ GiveUp(m)
      PROVE  HandsOK' /\ Delivery!Next
  BY <1>1, ServerDelivers
<1>2. ASSUME NEW w \in Workers, ProcessStart(w) PROVE HandsOK' /\ Delivery!Next
  BY <1>2, ProcessDelivers
<1>3. ASSUME NEW w \in Workers, Crash(w) PROVE HandsOK' /\ Delivery!Next
  BY <1>3, CrashDelivers
<1>4. ASSUME NEW w \in Workers, \/ ServiceStart(w) \/ AddConsumer(w) \/ RestartStart(w)
      PROVE  HandsOK' /\ Delivery!Next
  BY <1>4, ServiceDelivers
<1>5. ASSUME NEW w \in Workers,
             \/ ServiceStop(w) \/ RemoveConsumer(w) \/ RestartStop(w)
             \/ DrainBegins(w) \/ DrainEnds(w) \/ FlushPending(w) \/ Close(w)
      PROVE  HandsOK' /\ Delivery!Next
  BY <1>5, FlagsDeliver
<1>6. ASSUME NEW w \in Workers, NEW i \in Starts, LoopStep(w, i) PROVE HandsOK' /\ Delivery!Next
  BY <1>6, CheckFlagsDelivers, FetchDelivers, NextMessageDelivers, JobEndsDelivers,
     StatsDeliver, ReplyDelivers DEF LoopStep
<1> QED BY <1>1, <1>2, <1>3, <1>4, <1>5, <1>6 DEF Next

LEMMA StepDelivers ==
  ASSUME ConsumerInv, HandsOK, CountsOK, [Next]_vars
  PROVE  HandsOK' /\ CountsOK' /\ [Delivery!Next]_(Delivery!vars)
<1>1. CASE Next
  BY <1>1, NextDelivers, CountsKept
<1>2. CASE UNCHANGED vars
  <2>1. UNCHANGED <<published, stream, expired, count, loop, proc>>
    BY <1>2 DEF vars, serverVars
  <2>2. HandsOK' /\ UNCHANGED <<InHand, Processed>>
    BY <2>1 DEF HandsOK, InHand, Processed
  <2> QED BY <1>2, <2>1, <2>2, CountsKept DEF Delivery!vars
<1> QED BY <1>1, <1>2

\* The consumers, however they are started, stopped, drained and killed, implement what is
\* promised of the stream: a message is delivered while it is stored and at most
\* MaxDeliver times by one durable consumer, and leaves the stream by its age or after the
\* Ack of one who has processed it.
THEOREM DeliveryKept == Spec => KeepsDelivery
<1>1. Init => HandsOK /\ CountsOK /\ Delivery!Init
  BY InitDelivers
<1>2. ConsumerInv /\ HandsOK /\ CountsOK /\ [Next]_vars
        => HandsOK' /\ CountsOK' /\ [Delivery!Next]_(Delivery!vars)
  BY StepDelivers
<1>3. Spec => []ConsumerInv
  BY ConsumerConsistent
<1> QED BY <1>1, <1>2, <1>3, PTL DEF Spec, KeepsDelivery, Delivery!Spec
=============================================================================
