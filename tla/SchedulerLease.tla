--------------------------- MODULE SchedulerLease ---------------------------
(***************************************************************************)
(* The distributed scheduler lease (internal/scheduler/lease.go): one row  *)
(* of the scheduler_leases table, the renew loop of every server process   *)
(* that competes for it, and the in-memory flag IsLeader reads.            *)
(*                                                                         *)
(* A member of Process is one incarnation of the server: a restarted       *)
(* server draws a fresh holder id (defaultHolderID), so it is another      *)
(* member.  Time is the database's NOW() counted in ticks; left is         *)
(* expires_at - NOW(), and -1 stands for every time after expiry.  The     *)
(* leases are independent of each other, so one row stands for them all.   *)
(* acquired_at and heartbeat_at are never read back and are left out.      *)
(***************************************************************************)
EXTENDS Integers

CONSTANTS
    Process,        \* server incarnations
    NoOne,          \* "the row does not exist"
    TTL,            \* lease ttl in ticks (30s)
    RenewIn,        \* period of the renew ticker in ticks (10s)
    CallTimeout     \* context timeout of one statement in ticks (5s)

ASSUME NoOneAssumption == NoOne \notin Process

\* A renewal that fails once still leaves room for the next one to run
\* before the row expires: main.go:1069 chooses 30s, 10s; lease.go:162 5s.
ASSUME TimingAssumption ==
    /\ TTL \in Nat /\ RenewIn \in Nat /\ CallTimeout \in Nat
    /\ 0 < CallTimeout /\ CallTimeout < RenewIn
    /\ 2 * RenewIn + 2 * CallTimeout <= TTL

VARIABLES
    holder,     \* holder column of the row, NoOne when there is no row
    left,       \* expires_at - NOW() in ticks; -1 once expired
    pc,         \* where the process's renew loop or Stop stands
    stmt,       \* fate of the UPSERT in flight
    clk,        \* ticks since the ticker fired, or since the call began
    held,       \* heldFlag, what IsLeader returns
    misses,     \* consecutive acquire calls that ended in an error, up to 2
    stopping,   \* stopCh is closed
    orphan      \* statements sent and given up on, which may still execute

dbVars   == <<holder, left>>
procVars == <<pc, stmt, clk, stopping>>
vars == <<holder, left, pc, stmt, clk, held, misses, stopping, orphan>>

\* "new": not started; "first": the acquire before the ticker exists;
\* "idle": waiting in the select; "asking": an acquire on a tick;
\* "draining": the renewer has returned; "releasing": DELETE in flight.
Looping == {"first", "idle", "asking"}
PC == Looping \cup {"new", "draining", "releasing", "stopped", "dead"}

Live(p)    == pc[p] \in Looping
Calling(p) == pc[p] \in {"first", "asking"}
Expired    == left < 0

TypeOK ==
    /\ holder \in Process \cup {NoOne}
    /\ left \in -1 .. TTL
    /\ pc \in [Process -> PC]
    /\ stmt \in [Process -> {"none", "sent", "won", "lost"}]
    /\ clk \in [Process -> 0 .. RenewIn]
    /\ held \in [Process -> BOOLEAN]
    /\ misses \in [Process -> 0 .. 2]
    /\ stopping \in [Process -> BOOLEAN]
    /\ orphan \in [Process -> SUBSET {"upsert", "delete"}]

Init ==
    /\ holder = NoOne /\ left = -1
    /\ pc = [p \in Process |-> "new"]
    /\ stmt = [p \in Process |-> "none"]
    /\ clk = [p \in Process |-> 0]
    /\ held = [p \in Process |-> FALSE]
    /\ misses = [p \in Process |-> 0]
    /\ stopping = [p \in Process |-> FALSE]
    /\ orphan = [p \in Process |-> {}]

-----------------------------------------------------------------------------
(* The statements as the database executes them *)

\* Mutants of the statements: an UPSERT that takes the row in its last
\* moment, one that waits for the holder to give it back, and a DELETE
\* without holder_id = $2.
WinnableAtExpiry(p) == holder \in {NoOne, p} \/ left <= 0
WinnableByHolder(p) == holder \in {NoOne, p}
DeleteAnyones(p) == holder' = NoOne /\ left' = -1

\* The WHERE clause of the UPSERT: no row, our own row, or an expired one.
Winnable(p) == holder \in {NoOne, p} \/ Expired

Upsert(p) ==
    IF Winnable(p) THEN holder' = p /\ left' = TTL ELSE UNCHANGED dbVars

Delete(p) ==
    IF holder = p THEN holder' = NoOne /\ left' = -1 ELSE UNCHANGED dbVars

-----------------------------------------------------------------------------
(* The renew loop *)

Begin(p, at) ==
    /\ pc' = [pc EXCEPT ![p] = at]
    /\ stmt' = [stmt EXCEPT ![p] = "sent"]
    /\ clk' = [clk EXCEPT ![p] = 0]
    /\ UNCHANGED <<holder, left, held, misses, stopping, orphan>>

\* Register spawns the renewer, which acquires at once.
Start(p) == pc[p] = "new" /\ Begin(p, "first")

\* The ticker fires; the select may choose it although stopCh is closed.
Renew(p) == pc[p] = "idle" /\ clk[p] = RenewIn /\ Begin(p, "asking")

\* The database executes the UPSERT of the call in flight.
Execute(p) ==
    /\ Calling(p) /\ stmt[p] = "sent"
    /\ Upsert(p)
    /\ stmt' = [stmt EXCEPT ![p] = IF Winnable(p) THEN "won" ELSE "lost"]
    /\ UNCHANGED <<pc, clk, held, misses, stopping, orphan>>

\* The call returns to the select.  The ticker is only created after the
\* first acquire, so its period starts here; later it has been running.
BackToSelect(p) ==
    /\ pc' = [pc EXCEPT ![p] = "idle"]
    /\ stmt' = [stmt EXCEPT ![p] = "none"]
    /\ clk' = [clk EXCEPT ![p] = IF pc[p] = "first" THEN 0 ELSE @]
    /\ UNCHANGED <<holder, left, stopping>>

\* The answer arrives: the flag is set to what the database said.
Answer(p) ==
    /\ Calling(p) /\ stmt[p] \in {"won", "lost"}
    /\ held' = [held EXCEPT ![p] = (stmt[p] = "won")]
    /\ misses' = [misses EXCEPT ![p] = 0]
    /\ BackToSelect(p)
    /\ UNCHANGED orphan

\* A statement given up on may still be on its way to the database.
Abandon(p, s, sent) ==
    \E lost \in BOOLEAN :
        orphan' = [orphan EXCEPT ![p] =
                       IF sent /\ ~lost THEN @ \cup {s} ELSE @]

\* The call ends in an error (refused, timed out, answer lost): the flag
\* keeps the previous belief, whether or not the statement took effect.
Fail(p) ==
    /\ Calling(p)
    /\ misses' = [misses EXCEPT ![p] = IF @ < 2 THEN @ + 1 ELSE @]
    /\ Abandon(p, "upsert", stmt[p] = "sent")
    /\ BackToSelect(p)
    /\ UNCHANGED held

-----------------------------------------------------------------------------
(* Stop, crash, time *)

\* Stop closes stopCh and waits for the renewer.
Stop(p) ==
    /\ Live(p) /\ ~stopping[p]
    /\ stopping' = [stopping EXCEPT ![p] = TRUE]
    /\ UNCHANGED <<holder, left, pc, stmt, clk, held, misses, orphan>>

\* The renewer sees stopCh and returns.
ExitLoop(p) ==
    /\ pc[p] = "idle" /\ stopping[p]
    /\ pc' = [pc EXCEPT ![p] = "draining"]
    /\ UNCHANGED <<holder, left, stmt, clk, held, misses, stopping, orphan>>

\* Stop sends the DELETE if the flag is set, else it is done.
Release(p) ==
    /\ pc[p] = "draining"
    /\ pc' = [pc EXCEPT ![p] = IF held[p] THEN "releasing" ELSE "stopped"]
    /\ clk' = [clk EXCEPT ![p] = 0]
    /\ UNCHANGED <<holder, left, stmt, held, misses, stopping, orphan>>

\* The DELETE executes.  The flag is not cleared.
Released(p) ==
    /\ pc[p] = "releasing"
    /\ Delete(p)
    /\ pc' = [pc EXCEPT ![p] = "stopped"]
    /\ UNCHANGED <<stmt, clk, held, misses, stopping, orphan>>

\* The DELETE fails or times out, which is only logged.
ReleaseFails(p) ==
    /\ pc[p] = "releasing"
    /\ pc' = [pc EXCEPT ![p] = "stopped"]
    /\ Abandon(p, "delete", TRUE)
    /\ UNCHANGED <<holder, left, stmt, clk, held, misses, stopping>>

\* A statement nobody waits for any more executes.
LateStatement(p) ==
    \E s \in orphan[p] :
        /\ orphan' = [orphan EXCEPT ![p] = @ \ {s}]
        /\ IF s = "upsert" THEN Upsert(p) ELSE Delete(p)
        /\ UNCHANGED <<pc, stmt, clk, held, misses, stopping>>

\* The process dies; its memory is gone, its statement may be under way.
Crash(p) ==
    /\ pc[p] \notin {"new", "stopped", "dead"}
    /\ pc' = [pc EXCEPT ![p] = "dead"]
    /\ stmt' = [stmt EXCEPT ![p] = "none"]
    /\ held' = [held EXCEPT ![p] = FALSE]
    /\ clk' = [clk EXCEPT ![p] = 0]
    /\ misses' = [misses EXCEPT ![p] = 0]
    /\ stopping' = [stopping EXCEPT ![p] = FALSE]
    /\ Abandon(p, IF pc[p] = "releasing" THEN "delete" ELSE "upsert",
               pc[p] = "releasing" \/ stmt[p] = "sent")
    /\ UNCHANGED dbVars

\* Mutant: the calls have no deadline of their own.
DueWithoutTimeout(p) ==
    pc[p] = "idle" /\ (stopping[p] \/ clk[p] = RenewIn)

\* A timer of a running process that is due fires before time goes on.
Due(p) ==
    \/ pc[p] = "idle" /\ (stopping[p] \/ clk[p] = RenewIn)
    \/ pc[p] \in {"first", "asking", "releasing"} /\ clk[p] >= CallTimeout

Timed(p) == Live(p) \/ pc[p] = "releasing"

Tick ==
    /\ \A p \in Process : ~Due(p)
    /\ left' = IF Expired THEN left ELSE left - 1
    /\ clk' = [p \in Process |-> IF Timed(p) THEN clk[p] + 1 ELSE clk[p]]
    /\ UNCHANGED <<holder, pc, stmt, held, misses, stopping, orphan>>

Step(p) ==
    \/ Start(p) \/ Renew(p) \/ Execute(p) \/ Answer(p) \/ Fail(p)
    \/ Stop(p) \/ ExitLoop(p) \/ Release(p) \/ Released(p) \/ ReleaseFails(p)
    \/ LateStatement(p) \/ Crash(p)

Next == Tick \/ \E p \in Process : Step(p)

Spec == Init /\ [][Next]_vars

\* The goroutines of a process run, the database executes what it is sent,
\* and time passes.  Nothing keeps a call from failing every time.
Proceed(p) ==
    \/ Renew(p) \/ Execute(p) \/ Answer(p) \/ Fail(p) \/ ExitLoop(p)
    \/ Release(p) \/ Released(p) \/ ReleaseFails(p)

Fairness == WF_vars(Tick) /\ \A p \in Process : WF_vars(Proceed(p))

FairSpec == Spec /\ Fairness

-----------------------------------------------------------------------------
(* Properties *)

\* A leader is confident while at most one renewal in a row has failed.
Confident(p) == Live(p) /\ held[p] /\ misses[p] <= 1

\* lease.go:52-54: one missed renewal must not cost the lease.  A live
\* process whose flag is set, and of whose acquire calls at most one in a
\* row failed, owns the row and the row is not expired: nobody else can be
\* told that it won.
ConfidentBeliefIsTrue ==
    \A p \in Process : Confident(p) => holder = p /\ ~Expired

\* The lease as the guarded loops see it.
Owner  == IF Expired THEN NoOne ELSE holder
Leader == IF \E p \in Process : Confident(p)
          THEN CHOOSE p \in Process : Confident(p) ELSE NoOne
Believes == {p \in Process : held[p]}

Tenure == INSTANCE LeaderTenure
              WITH owner <- Owner, leader <- Leader, believes <- Believes

\* The renew loops implement exclusive tenures: leadership passes from one
\* process to another only through an expired or deleted row, and the row
\* never ends under a leader with at most one missed renewal, whatever
\* statements execute late or after a crash.  A flag is set only in a
\* process that owns the row at that moment.
TenureSpec == Tenure!Spec

\* What the environment must give for leadership to exist at all: from
\* some time on the acquire calls of live processes do not fail.
OutagesEnd == <>[][\A p \in Process : ~Fail(p)]_vars

\* main.go:1068: failover after a crash is bounded.  Once outages end, and
\* as long as some process lives, some live process comes to believe that
\* it leads: neither the row of a dead holder nor a statement that executes
\* after its sender died blocks the lease for ever.
SomeLive == \E p \in Process : Live(p)
SomeLeader == \E p \in Process : Live(p) /\ held[p]
FailoverHappens == OutagesEnd => (SomeLive ~> (SomeLeader \/ ~SomeLive))
=============================================================================
