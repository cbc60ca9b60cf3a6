----------------------------- MODULE BatchPromise -----------------------------
(***************************************************************************)
(* What the asynchronous pipeline promises of the batches of a job when    *)
(* its message is delivered once, to one worker: a batch is requested, its *)
(* chunks are in flight at Gemini, and it ends, once, either abandoned or  *)
(* finished with a count of stored chunks it had asked for.  Rows, files,  *)
(* jobs, goroutines and crashes are gone.                                  *)
(***************************************************************************)
EXTENDS Naturals, FiniteSets

CONSTANTS
  Batches, Chunks,
  Lossy     \* whether a finished batch may lack chunks

VARIABLES
  stage,    \* batch -> "none", "queued", "inflight", "finished", "abandoned"
  want,     \* batch -> chunks it asks for
  stored,   \* chunks with an embedding
  count     \* batch -> chunks it reports as processed

vars == <<stage, want, stored, count>>

Init ==
  /\ stage  = [b \in Batches |-> "none"]
  /\ want   = [b \in Batches |-> {}]
  /\ stored = {}
  /\ count  = [b \in Batches |-> 0]

\* Only chunks without an embedding are asked for.
Request(b, chunks) ==
  /\ stage[b] = "none" /\ chunks # {} /\ chunks \subseteq Chunks
  /\ stage' = [stage EXCEPT ![b] = "queued"]
  /\ want'  = [want EXCEPT ![b] = chunks]
  /\ UNCHANGED <<stored, count>>

Submit(b) ==
  /\ stage[b] = "queued"
  /\ stage' = [stage EXCEPT ![b] = "inflight"]
  /\ UNCHANGED <<want, stored, count>>

\* Embeddings of a batch are stored only while it is in flight.
Store(b, chunks) ==
  /\ stage[b] = "inflight" /\ chunks \subseteq want[b]
  /\ stored' = stored \cup chunks
  /\ UNCHANGED <<stage, want, count>>

Finish(b) ==
  /\ stage[b] = "inflight"
  /\ stage' = [stage EXCEPT ![b] = "finished"]
  /\ \E got \in SUBSET (want[b] \cap stored) :
       /\ Lossy \/ got = want[b]
       /\ count' = [count EXCEPT ![b] = Cardinality(got)]
  /\ UNCHANGED <<want, stored>>

Abandon(b) ==
  /\ stage[b] \in {"none", "queued", "inflight"}
  /\ stage' = [stage EXCEPT ![b] = "abandoned"]
  /\ UNCHANGED <<want, stored, count>>

Next == \E b \in Batches :
  \/ Submit(b) \/ Finish(b) \/ Abandon(b)
  \/ \E chunks \in SUBSET Chunks : Request(b, chunks) \/ Store(b, chunks)

Spec == Init /\ [][Next]_vars
=============================================================================
