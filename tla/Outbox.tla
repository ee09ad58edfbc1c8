--------------------------------- MODULE Outbox ----------------------------------
(***************************************************************************)
(* The outbox_events table and the flushers that drain it, one in every    *)
(* server process (internal/outbox).  A flusher claims the oldest pending  *)
(* rows that no other flusher has locked, hands each to the sinks in turn, *)
(* and marks the rows in the same transaction: the marks count when it     *)
(* commits, and are lost with it, while what the sinks heard stays heard.  *)
(*                                                                         *)
(* Events are numbered in the order of created_at, which is the start of   *)
(* the transaction that publishes them.  attempts and last_error are       *)
(* written and never read, so they are left out.                           *)
(***************************************************************************)
EXTENDS Integers, FiniteSets

CONSTANTS
    Flusher,
    MaxEvents,   \* bound: events published
    Sinks,       \* number of handlers that MultiHandler runs
    BatchSize,
    Poison,      \* events that the last sink always answers with a retryable error
    MaxFaults    \* bound: lost batches and passing failures of sinks

ASSUME OutboxAssumption ==
    /\ {MaxEvents, MaxFaults} \subseteq Nat
    /\ {Sinks, BatchSize} \subseteq Nat \ {0}
    /\ Poison \subseteq 1 .. MaxEvents

VARIABLES
    row,        \* "none", "open" (uncommitted), "gone", "pending", "consumed", "dead"
    phase,      \* of each flusher: "asleep", "draining", "working"
    batch,      \* the rows each flusher has locked
    mark,       \* what it wrote to those it is through with
    sink,       \* the sink that hears of its current row next
    heard,      \* the sinks that have accepted each event
    condemned,  \* the events a sink returned ErrDead for
    faults

vars == <<row, phase, batch, mark, sink, heard, condemned, faults>>
world == <<heard, condemned>>
flusher == <<phase, batch, mark, sink>>

Event == 1 .. MaxEvents

Init ==
    /\ row = [e \in Event |-> "none"]
    /\ phase = [f \in Flusher |-> "draining"]
    /\ batch = [f \in Flusher |-> {}]
    /\ mark = [f \in Flusher |-> <<>>]
    /\ sink = [f \in Flusher |-> 1]
    /\ heard = [e \in Event |-> {}]
    /\ condemned = {}
    /\ faults = 0

-----------------------------------------------------------------------------
(* Producers.                                                              *)

SetRow(e, st) ==
    /\ row' = [row EXCEPT ![e] = st]
    /\ UNCHANGED <<flusher, world, faults>>

\* INSERT inside a business transaction.
Enqueue(e) ==
    /\ row[e] = "none"
    /\ \A d \in Event : d < e => row[d] # "none"
    /\ SetRow(e, "open")

CommitBusiness(e) == row[e] = "open" /\ SetRow(e, "pending")

RollbackBusiness(e) == row[e] = "open" /\ SetRow(e, "gone")

-----------------------------------------------------------------------------
(* Flushers.                                                               *)

\* Mutant: the rows are read without a lock.
AvailableUnlocked == {e \in Event : row[e] = "pending"}

\* WHERE consumed_at IS NULL ... FOR UPDATE SKIP LOCKED
Available == {e \in Event : row[e] = "pending" /\ \A f \in Flusher : e \notin batch[f]}

\* ORDER BY created_at LIMIT BatchSize
Oldest(B) ==
    /\ B \subseteq Available
    /\ Cardinality(B) <= BatchSize
    /\ B = Available \/ Cardinality(B) = BatchSize
    /\ \A e \in B, d \in Available \ B : e < d

Claim(f, B) ==
    /\ phase[f] = "draining"
    /\ B # {} /\ Oldest(B)
    /\ phase' = [phase EXCEPT ![f] = "working"]
    /\ batch' = [batch EXCEPT ![f] = B]
    /\ UNCHANGED <<row, mark, sink, world, faults>>

\* Nothing to claim: the drain pass ends.
Sleep(f) ==
    /\ phase[f] = "draining" /\ Available = {}
    /\ phase' = [phase EXCEPT ![f] = "asleep"]
    /\ UNCHANGED <<row, batch, mark, sink, world, faults>>

\* The transaction cannot begin, or the query fails.
ClaimFails(f) ==
    /\ phase[f] = "draining" /\ faults < MaxFaults
    /\ faults' = faults + 1
    /\ phase' = [phase EXCEPT ![f] = "asleep"]
    /\ UNCHANGED <<row, batch, mark, sink, world>>

Poll(f) ==
    /\ phase[f] = "asleep"
    /\ phase' = [phase EXCEPT ![f] = "draining"]
    /\ UNCHANGED <<row, batch, mark, sink, world, faults>>

\* The rows of a batch are handled in their order.
Current(f, e) ==
    /\ phase[f] = "working"
    /\ e \in batch[f] \ DOMAIN mark[f]
    /\ \A d \in batch[f] \ DOMAIN mark[f] : e <= d

\* Mutant: the next row starts where the last one stopped.
ThroughWithoutReset(f, e, m) ==
    /\ mark' = [mark EXCEPT ![f] = [d \in DOMAIN @ \union {e} |-> IF d = e THEN m ELSE @[d]]]
    /\ sink' = [sink EXCEPT ![f] = @ + 1]

\* f is through with e, and starts the next row at the first sink.
Through(f, e, m) ==
    /\ mark' = [mark EXCEPT ![f] = [d \in DOMAIN @ \union {e} |-> IF d = e THEN m ELSE @[d]]]
    /\ sink' = [sink EXCEPT ![f] = 1]

Refuses(e, s) == e \in Poison /\ s = Sinks

\* A sink accepts; after the last one the row is marked as consumed.
Accept(f, e) ==
    /\ Current(f, e) /\ ~Refuses(e, sink[f])
    /\ heard' = [heard EXCEPT ![e] = @ \union {sink[f]}]
    /\ \/ sink[f] = Sinks /\ Through(f, e, "consumed")
       \/ /\ sink[f] < Sinks
          /\ sink' = [sink EXCEPT ![f] = @ + 1]
          /\ UNCHANGED mark
    /\ UNCHANGED <<row, phase, batch, condemned, faults>>

\* A retryable error: later sinks do not hear of it, and the row stays pending.
Fail(f, e) ==
    /\ Current(f, e)
    /\ \/ Refuses(e, sink[f]) /\ UNCHANGED faults
       \/ ~Refuses(e, sink[f]) /\ faults < MaxFaults /\ faults' = faults + 1
    /\ Through(f, e, "pending")
    /\ UNCHANGED <<row, phase, batch, world>>

\* ErrDead
GiveUp(f, e) ==
    /\ Current(f, e) /\ ~Refuses(e, sink[f])
    /\ condemned' = condemned \union {e}
    /\ Through(f, e, "dead")
    /\ UNCHANGED <<row, phase, batch, heard, faults>>

EndBatch(f, ph) ==
    /\ phase' = [phase EXCEPT ![f] = ph]
    /\ batch' = [batch EXCEPT ![f] = {}]
    /\ mark' = [mark EXCEPT ![f] = <<>>]
    /\ sink' = [sink EXCEPT ![f] = 1]
    /\ UNCHANGED world

\* The marks become visible together, and the drain pass goes on; or it ends,
\* when the batch is committed and the answer is lost.
Commit(f) ==
    /\ phase[f] = "working" /\ DOMAIN mark[f] = batch[f]
    /\ row' = [e \in Event |-> IF e \in batch[f] THEN mark[f][e] ELSE row[e]]
    /\ \/ EndBatch(f, "draining") /\ UNCHANGED faults
       \/ faults < MaxFaults /\ faults' = faults + 1 /\ EndBatch(f, "asleep")

\* Mutant: the claim outlives the transaction that is lost.
LoseBatchKeepClaim(f) ==
    /\ phase[f] = "working" /\ faults < MaxFaults
    /\ faults' = faults + 1
    /\ phase' = [phase EXCEPT ![f] = "asleep"]
    /\ UNCHANGED <<row, batch, mark, sink, world>>

\* A mark or the commit fails, the batch times out, or the process dies: the
\* whole batch is pending again, and the drain pass ends.
LoseBatch(f) ==
    /\ phase[f] = "working" /\ faults < MaxFaults
    /\ faults' = faults + 1
    /\ EndBatch(f, "asleep")
    /\ UNCHANGED row

-----------------------------------------------------------------------------
Next ==
    \/ \E e \in Event : Enqueue(e) \/ CommitBusiness(e) \/ RollbackBusiness(e)
    \/ \E f \in Flusher : Sleep(f) \/ ClaimFails(f) \/ Poll(f) \/ Commit(f) \/ LoseBatch(f)
    \/ \E f \in Flusher, B \in SUBSET Event : Claim(f, B)
    \/ \E f \in Flusher, e \in Event : Accept(f, e) \/ Fail(f, e) \/ GiveUp(f, e)

(* A flusher's loop goes on; its ticker fires; a sink answers.             *)
Fairness ==
    \A f \in Flusher :
        /\ WF_vars(Poll(f))
        /\ WF_vars(Sleep(f) \/ \E B \in SUBSET Event : Claim(f, B))
        /\ WF_vars(Commit(f) \/ \E e \in Event : Accept(f, e) \/ Fail(f, e) \/ GiveUp(f, e))

Spec == Init /\ [][Next]_vars

FairSpec == Spec /\ Fairness

-----------------------------------------------------------------------------
TypeOK ==
    /\ row \in [Event -> {"none", "open", "gone", "pending", "consumed", "dead"}]
    /\ phase \in [Flusher -> {"asleep", "draining", "working"}]
    /\ batch \in [Flusher -> SUBSET Event]
    /\ DOMAIN mark = Flusher
    /\ \A f \in Flusher : DOMAIN mark[f] \subseteq batch[f]
    /\ \A f \in Flusher : \A e \in DOMAIN mark[f] : mark[f][e] \in {"consumed", "pending", "dead"}
    /\ sink \in [Flusher -> 1 .. Sinks]
    /\ heard \in [Event -> SUBSET (1 .. Sinks)]
    /\ condemned \subseteq Event
    /\ faults \in 0 .. MaxFaults

(* An uncommitted event does not exist for anyone.                         *)
Queue == INSTANCE AtLeastOnce WITH
    life <- [e \in Event |->
               IF row[e] \in {"none", "open", "gone"} THEN "absent" ELSE row[e]]

(* The promise of the header of outbox.go: flushers with their locks, marks *)
(* and lost batches are a queue that delivers at least once, and never what *)
(* was rolled back or has been settled.                                     *)
QueueSpec == Queue!QSpec

(* "so it stops blocking the queue": every committed event that is not       *)
(* poison is settled, past lost batches, passing failures, and poison that  *)
(* keeps coming back, as long as the poison does not fill a batch.          *)
Drains ==
    \A e \in Event \ Poison : row[e] = "pending" ~> row[e] \in {"consumed", "dead"}
==============================================================================
