---------------------------- MODULE DeliveryPromise ----------------------------
(***************************************************************************)
(* What a worker is promised of the INDEXING stream, and promises it: a    *)
(* message is delivered while it is stored, at most MaxDeliver times for   *)
(* each durable consumer, to any number of workers at once, and leaves the *)
(* stream when it expires, or when one that holds it has succeeded.        *)
(* Services, fetches, loops, runs and crashes are gone.  WorkerConsumer    *)
(* implements it in detail; RepositoryLifecycle, which abstracts the       *)
(* stream, keeps to it.                                                    *)
(***************************************************************************)
EXTENDS Naturals

CONSTANTS Messages, MaxDeliver

VARIABLES
  state,  \* message -> "unpublished", "stored", "removed" or "expired"
  count,  \* message -> its deliveries by this durable consumer, while it is stored
  held,   \* messages in a worker's hands
  ready   \* those of them that a worker has processed with success

vars == <<state, count, held, ready>>

Init ==
  /\ state = [m \in Messages |-> "unpublished"]
  /\ count = [m \in Messages |-> 0]
  /\ held = {} /\ ready = {}

Publish(m) ==
  /\ state[m] = "unpublished"
  /\ state' = [state EXCEPT ![m] = "stored"]
  /\ UNCHANGED <<count, held, ready>>

\* An answer to a pull request, which may be lost on its way.
Deliver(S) ==
  /\ \A m \in S : state[m] = "stored" /\ count[m] < MaxDeliver
  /\ count' = [m \in Messages |-> IF m \in S THEN count[m] + 1 ELSE count[m]]
  /\ held' \in {held, held \cup S}
  /\ UNCHANGED <<state, ready>>

Succeed(S) ==
  /\ S \subseteq held /\ ready' = ready \cup S
  /\ UNCHANGED <<state, count, held>>

\* Somebody fails, gives up or crashes, or is not waited for any more.
Drops == held' \subseteq held /\ ready' \subseteq ready
Drop == Drops /\ UNCHANGED <<state, count>>

Remove(m) ==
  /\ m \in ready /\ state[m] = "stored"
  /\ state' = [state EXCEPT ![m] = "removed"]
  /\ count' = [count EXCEPT ![m] = 0]
  /\ Drops

\* The stream's MaxAge: a message that is too old is dropped, whoever holds it.
Expire(m) ==
  /\ state[m] = "stored"
  /\ state' = [state EXCEPT ![m] = "expired"]
  /\ count' = [count EXCEPT ![m] = 0]
  /\ UNCHANGED <<held, ready>>

\* A worker that starts makes the durable consumer anew.
Renew == count' = [m \in Messages |-> 0] /\ UNCHANGED <<state, held, ready>>

Next ==
  \/ \E m \in Messages : Publish(m) \/ Remove(m) \/ Expire(m)
  \/ \E S \in SUBSET Messages : Deliver(S) \/ Succeed(S)
  \/ Drop \/ Renew

Spec == Init /\ [][Next]_vars
=============================================================================
