---------------------------- MODULE WorkflowRuns ----------------------------
(***************************************************************************)
(* The workflow_runs row of one fund and one trading day, and everything   *)
(* in the server processes that writes it: the interval scheduler          *)
(* (cmd/server/workflow_scheduler.go), the start paths and the runtime     *)
(* registry (wiring_adapters.go), the recovery at startup                  *)
(* (workflow_recovery.go), the orchestrator's runs (workflow/daily.go) and *)
(* the merging repository (repository/fund_repo.go).                       *)
(*                                                                         *)
(* The fund decides at intervals and its runs need no approval: a paused   *)
(* run does not occur.  Time is the number of the latest trigger slot, 0   *)
(* before the first one.  A member of Process is one incarnation of the    *)
(* server; the scheduler lease is LeaderTenure.  A statement is atomic,    *)
(* and so is what a goroutine does in memory between two statements.       *)
(***************************************************************************)
EXTENDS Integers, FiniteSets

CONSTANTS
    Process, NoOne,
    MaxSlot,        \* trigger slots of the day
    MaxRuns,        \* bound: successful claims
    MaxStarts,      \* bound: starts asked for by a user or an admin
    MaxOutages      \* bound: statements and lease renewals that fail

ASSUME BoundsAssumption ==
    /\ NoOne \notin Process
    /\ {MaxSlot, MaxRuns, MaxStarts, MaxOutages} \subseteq Nat

VARIABLES
    owner, leader, believes,    \* the lease, see LeaderTenure
    up,         \* "new", "up" or "dead"
    now,        \* the latest slot whose time has come
    row,        \* status, slot (started_at), rec ("recovery: " error stamped)
    job,        \* a start in progress: the scheduler's and a user's
    recovery,   \* the goroutine of runRecoveryWhenLeader
    retried,    \* recoveryRetries: the slots whose one re-fire is spent
    runs,       \* one per successful claim, in their order
    current,    \* the runtime registry: run registered for the day, or 0
    starts,     \* user starts so far
    outages,    \* failures so far
    claims,     \* history: claims the scheduler won for each slot
    breach      \* history: how exclusiveness was given up, see below

leaseVars == <<owner, leader, believes>>
history == <<claims, breach>>
vars == <<owner, leader, believes, up, now, row, job, recovery, retried,
          runs, current, starts, outages, claims, breach>>

Lease == INSTANCE LeaderTenure

Slot    == 1 .. MaxSlot
Run     == 1 .. MaxRuns
Starter == {"scheduler", "user"}

Terminal == {"completed", "rejected", "cancelled"}
Status   == Terminal \cup {"none", "running", "failed"}
Row      == [status : Status, slot : 0 .. MaxSlot, rec : BOOLEAN]
NoRow    == [status |-> "none", slot |-> 0, rec |-> FALSE]

\* A run from its claim on: claimed, its goroutine launched but not begun,
\* working, closing (RunFull is over, the last save is not), ended.
\* What an ended run had in memory is forgotten.
Phase == {"none", "claimed", "launched", "working", "closing", "ended"}
Busy  == {"claimed", "launched", "working"}
NoRun == [phase |-> "none", proc |-> NoOne, status |-> "none"]
Gone  == [NoRun EXCEPT !.phase = "ended"]

\* The scheduler's start is followed by nextTriggerTime ("peek").
Job(at, slot, run, seen) == [at |-> at, slot |-> slot, run |-> run, seen |-> seen]
NoJob == Job("rest", 0, 0, NoRow)
At    == {"rest", "restart", "claim", "launch", "peek"}
Idle  == [at |-> "waiting", seen |-> NoRow]

Latest == Cardinality({r \in Run : runs[r].phase # "none"})
Up(p)  == up[p] = "up"

TypeOK ==
    /\ owner \in Process \cup {NoOne} /\ leader \in Process \cup {NoOne}
    /\ believes \subseteq Process
    /\ up \in [Process -> {"new", "up", "dead"}]
    /\ now \in 0 .. MaxSlot
    /\ row \in Row
    /\ job \in [Process -> [Starter -> [at : At, slot : 0 .. MaxSlot,
                                         run : 0 .. MaxRuns, seen : Row]]]
    /\ recovery \in [Process -> [at : {"waiting", "listed", "done"}, seen : Row]]
    /\ retried \in [Process -> SUBSET Slot]
    /\ runs \in [Run -> [phase : Phase, proc : Process \cup {NoOne}, status : Status]]
    /\ current \in [Process -> 0 .. MaxRuns]
    /\ starts \in 0 .. MaxStarts
    /\ outages \in 0 .. MaxOutages
    /\ claims \in [Slot -> 0 .. MaxRuns]
    /\ breach \subseteq {"lost touch", "turned back", "written off", "late snapshot"}

Init ==
    /\ Lease!Init
    /\ up = [p \in Process |-> "new"]
    /\ now = 0
    /\ row = NoRow
    /\ job = [p \in Process |-> [k \in Starter |-> NoJob]]
    /\ recovery = [p \in Process |-> Idle]
    /\ retried = [p \in Process |-> {}]
    /\ runs = [r \in Run |-> NoRun]
    /\ current = [p \in Process |-> 0]
    /\ starts = 0 /\ outages = 0
    /\ claims = [s \in Slot |-> 0]
    /\ breach = {}

\* A statement fails, or its answer is lost.
Outage == outages < MaxOutages /\ outages' = outages + 1

-----------------------------------------------------------------------------
(* Statements on the row *)

\* Mutant: the last writer's status wins.
MergeLastWriter(r, status) ==
    /\ row' = [row EXCEPT !.status = status]
    /\ UNCHANGED breach

\* mergeWorkflowRun: a final status survives a status that is not final;
\* started_at survives; the recovery error survives unless the snapshot of
\* the run has a result for the same step, which only a failed row shows.
Merge(r, status) ==
    /\ \E rec \in {row.rec, row.rec /\ status # "failed"} :
           row' = [row EXCEPT
                      !.status = IF row.status \in Terminal /\ status \notin Terminal
                                 THEN @ ELSE status,
                      !.rec = rec]
    /\ breach' = IF r = Latest THEN breach ELSE breach \cup {"late snapshot"}

\* An unconditional Update of the row from a copy read earlier.
WriteOff(seen, status, rec) ==
    /\ row' = [status |-> status, slot |-> seen.slot, rec |-> rec]
    /\ breach' = IF row # seen \/ \E r \in Run : runs[r].phase \in Busy
                 THEN breach \cup {"written off"} ELSE breach

\* Mutant: a claim takes any row.
ReusableAny == Status

\* ClaimManualStart's ON CONFLICT ... WHERE status IN (...).
Reusable == {"none", "failed"} \cup Terminal
Claimable == row.status \in Reusable

-----------------------------------------------------------------------------
(* The scheduler loop *)

\* Mutants: no check that a slot has come yet; the candidate slot compared
\* with started_at the wrong way at equality.
NeedsRetryWithoutSlot(p) ==
    /\ now \notin retried[p]
    /\ row.status = "failed" /\ row.rec /\ row.slot >= now
DueAtOwnSlot(p) == now \in Slot /\ row.status # "running" /\ row.slot <= now

\* findCatchUpSlot and the dedupe by started_at.  A row failed by recovery
\* may be fired again for its own slot, once per process.
NeedsRetry(p) ==
    /\ now \in Slot /\ now \notin retried[p]
    /\ row.status = "failed" /\ row.rec /\ row.slot >= now

Due(p) ==
    \/ now \in Slot /\ row.status # "running" /\ row.slot < now
    \/ NeedsRetry(p)

\* claimRecoveryRetry, called whenever nextFundStart is evaluated.
SpendRetry(p) ==
    retried' = [retried EXCEPT ![p] = IF NeedsRetry(p) THEN @ \cup {now} ELSE @]

\* The registered runtime has a state and its status is running.
ActiveLocally(p) ==
    current[p] # 0 /\ LET run == runs[current[p]]
                      IN  run.phase = "working" /\ run.status = "running"

SetJob(p, k, new) == job' = [job EXCEPT ![p][k] = new]
Goto(p, k, at) == SetJob(p, k, Job(at, 0, 0, NoRow))

\* triggerDueFunds finds the fund due: its run is active here and its state
\* is saved again; or the start is refused (quota, failed read); or the
\* scheduler goes on to claim the slot.  Not being due changes nothing.
Decide(p) ==
    /\ Up(p) /\ p \in believes /\ job[p]["scheduler"].at = "rest"
    /\ Due(p)
    /\ SpendRetry(p)
    /\ \/ UNCHANGED <<row, breach>> /\ Goto(p, "scheduler", "peek")
       \/ /\ ActiveLocally(p)
          /\ Merge(current[p], "running")
          /\ Goto(p, "scheduler", "peek")
       \/ /\ ~ActiveLocally(p)
          /\ UNCHANGED <<row, breach>>
          /\ SetJob(p, "scheduler", Job("claim", now, 0, NoRow))
    /\ UNCHANGED <<owner, leader, believes, up, now, recovery, runs, current,
                   starts, outages, claims>>

\* nextTriggerTime evaluates nextFundStart again before the loop sleeps,
\* after a start and after triggerDueFunds found nothing due.
Peek(p) ==
    /\ Up(p)
    /\ \/ job[p]["scheduler"].at = "peek"
       \/ job[p]["scheduler"].at = "rest" /\ p \in believes
    /\ SpendRetry(p)
    /\ Goto(p, "scheduler", "rest")
    /\ UNCHANGED <<owner, leader, believes, up, now, row, recovery, runs, current,
                   starts, outages, claims, breach>>

-----------------------------------------------------------------------------
(* Starts: by the scheduler, or by a user or admin on any process *)

\* shouldRestartWorkflowRunForManualStart: no runtime is registered here, or
\* the row's last update is old; the row of a run about to begin is fresh.
MayRestart(p) ==
    row.status = "running" /\ (current[p] # 0 => runs[current[p]].phase # "launched")

\* startWorkflowForFundWithMode with forceImmediate, up to the claim.
ManualStart(p) ==
    /\ Up(p) /\ job[p]["user"].at = "rest"
    /\ starts < MaxStarts /\ starts' = starts + 1
    /\ \/ /\ ActiveLocally(p)
          /\ Merge(current[p], "running")
          /\ UNCHANGED job
       \/ /\ ~ActiveLocally(p)
          /\ UNCHANGED <<row, breach>>
          /\ \E restart \in BOOLEAN :
                /\ restart => MayRestart(p)
                /\ ~restart => row.status # "running" \/ current[p] # 0
                /\ SetJob(p, "user", IF restart THEN Job("restart", now, 0, row)
                                              ELSE Job("claim", now, 0, NoRow))
    /\ UNCHANGED <<owner, leader, believes, up, now, recovery, retried, runs, current,
                   outages, claims>>

\* restartStaleWorkflowRunIfNeeded cancels the row.
RestartStale(p) ==
    /\ job[p]["user"].at = "restart"
    /\ WriteOff(job[p]["user"].seen, "cancelled", job[p]["user"].seen.rec)
    /\ SetJob(p, "user", Job("claim", job[p]["user"].slot, 0, NoRow))
    /\ UNCHANGED <<owner, leader, believes, up, now, recovery, retried, runs, current,
                   starts, outages, claims>>

Resting(k) == IF k = "scheduler" THEN "peek" ELSE "rest"

\* The claim is won and its answer arrives or is lost.
ClaimWon(p, k) ==
    LET slot == job[p][k].slot
        r == Latest + 1
    IN  /\ job[p][k].at = "claim" /\ Claimable /\ Latest < MaxRuns
        /\ row' = [status |-> "running", slot |-> slot, rec |-> FALSE]
        /\ claims' = IF k = "scheduler" THEN [claims EXCEPT ![slot] = @ + 1] ELSE claims
        /\ breach' = IF slot < row.slot THEN breach \cup {"turned back"} ELSE breach
        /\ \/ /\ runs' = [runs EXCEPT ![r] = [phase |-> "claimed", proc |-> p,
                                              status |-> "running"]]
              /\ SetJob(p, k, Job("launch", 0, r, NoRow))
              /\ UNCHANGED outages
           \/ /\ runs' = [runs EXCEPT ![r] = Gone]
              /\ Goto(p, k, Resting(k))
              /\ Outage
        /\ UNCHANGED <<owner, leader, believes, up, now, recovery, retried, current,
                       starts>>

ClaimLost(p, k) ==
    /\ job[p][k].at = "claim" /\ ~Claimable
    /\ Goto(p, k, Resting(k))
    /\ UNCHANGED <<owner, leader, believes, up, now, row, recovery, retried, runs,
                   current, starts, outages, claims, breach>>

\* cancelRuntime(takeRuntime()), getRuntime, go runFullWorkflow.  Cancel
\* marks a state that exists; a run whose goroutine has not begun has none.
Launch(p, k) ==
    LET old == current[p]
        r   == job[p][k].run
        cancelled == IF old # 0 /\ runs[old].phase \in {"working", "closing"}
                     THEN {old} ELSE {}
    IN  /\ job[p][k].at = "launch"
        /\ runs' = [x \in Run |->
                       IF x = r THEN [runs[x] EXCEPT !.phase = "launched"]
                       ELSE IF x \in cancelled THEN [runs[x] EXCEPT !.status = "cancelled"]
                       ELSE runs[x]]
        /\ current' = [current EXCEPT ![p] = r]
        /\ Goto(p, k, Resting(k))
        /\ UNCHANGED <<owner, leader, believes, up, now, row, recovery, retried,
                       starts, outages, claims, breach>>

-----------------------------------------------------------------------------
(* Runs *)

RunStep(r, from, run) ==
    /\ runs[r].phase = from
    /\ runs' = [runs EXCEPT ![r] = run]
    /\ UNCHANGED <<owner, leader, believes, up, now, job, recovery, retried, current,
                   starts, claims>>

\* RunFull begins: fresh state and cancel function, event run_started.
Begin(r) ==
    /\ RunStep(r, "launched", [runs[r] EXCEPT !.phase = "working"])
    /\ Merge(r, "running")
    /\ UNCHANGED outages

\* A step event; the snapshot it carries is saved whoever is registered.
Progress(r) ==
    /\ RunStep(r, "working", runs[r])
    /\ Merge(r, runs[r].status)
    /\ UNCHANGED outages

\* run_completed, run_failed or run_rejected.  A save that fails is only
\* logged.  A cancelled run ends here as well: the waits of an immediate
\* run do not look at the context.
Finish(r) ==
    \E status \in {"completed", "failed", "rejected"} :
        /\ RunStep(r, "working", [runs[r] EXCEPT !.phase = "closing", !.status = status])
        /\ \/ Merge(r, status) /\ UNCHANGED outages
           \/ UNCHANGED <<row, breach>> /\ Outage

\* persistRuntimeStateIfCurrent after RunFull has returned.
FinalPersist(r) ==
    /\ RunStep(r, "closing", Gone)
    /\ \/ /\ current[runs[r].proc] = r
          /\ Merge(r, runs[r].status) /\ UNCHANGED outages
       \/ current[runs[r].proc] # r /\ UNCHANGED <<row, breach, outages>>
       \/ UNCHANGED <<row, breach>> /\ Outage

-----------------------------------------------------------------------------
(* Recovery at startup *)

\* Mutant: a process that does not lead when it looks gives up.
ListIncompleteAtBoot(p) ==
    /\ Up(p) /\ recovery[p].at = "waiting"
    /\ recovery' = [recovery EXCEPT ![p] =
                       IF p \in believes /\ row.status = "running"
                       THEN [at |-> "listed", seen |-> row]
                       ELSE [at |-> "done", seen |-> NoRow]]
    /\ UNCHANGED <<owner, leader, believes, up, now, row, job, retried, runs, current,
                   starts, outages, claims, breach>>

\* RecoverIncompleteWorkflows runs once, when the process first leads.
ListIncomplete(p) ==
    /\ Up(p) /\ p \in believes /\ recovery[p].at = "waiting"
    /\ recovery' = [recovery EXCEPT ![p] =
                       IF row.status = "running" THEN [at |-> "listed", seen |-> row]
                       ELSE [at |-> "done", seen |-> NoRow]]
    /\ UNCHANGED <<owner, leader, believes, up, now, row, job, retried, runs, current,
                   starts, outages, claims, breach>>

\* markRunInterrupted; an Update that fails is only logged.
MarkRunInterrupted(p) ==
    /\ recovery[p].at = "listed"
    /\ recovery' = [recovery EXCEPT ![p] = [at |-> "done", seen |-> NoRow]]
    /\ \/ WriteOff(recovery[p].seen, "failed", TRUE) /\ UNCHANGED outages
       \/ UNCHANGED <<row, breach>> /\ Outage
    /\ UNCHANGED <<owner, leader, believes, up, now, job, retried, runs, current,
                   starts, claims>>

-----------------------------------------------------------------------------
(* Processes, lease, time *)

ProcessVars == <<now, row, job, recovery, retried, runs, current, starts, claims>>

Boot(p) ==
    /\ up[p] = "new" /\ up' = [up EXCEPT ![p] = "up"]
    /\ UNCHANGED <<leaseVars, ProcessVars, outages, breach>>

Crash(p) ==
    /\ Up(p) /\ up' = [up EXCEPT ![p] = "dead"]
    /\ \/ Lease!StepDown(p)
       \/ Lease!Forget(p)
       \/ leader # p /\ p \notin believes /\ UNCHANGED leaseVars
    /\ job' = [job EXCEPT ![p] = [k \in Starter |-> NoJob]]
    /\ recovery' = [recovery EXCEPT ![p] = Idle]
    /\ retried' = [retried EXCEPT ![p] = {}]
    /\ runs' = [r \in Run |-> IF runs[r].proc = p THEN Gone ELSE runs[r]]
    /\ current' = [current EXCEPT ![p] = 0]
    /\ UNCHANGED <<now, row, starts, outages, claims, breach>>

\* The renew loop, as LeaderTenure allows it: renewals of a live leader
\* fail only in an outage.
AcquireLease(p) == Up(p) /\ Lease!Grant(p) /\ UNCHANGED <<up, ProcessVars, outages, breach>>
LearnLead(p)    == Up(p) /\ Lease!Act(p) /\ UNCHANGED <<up, ProcessVars, outages, breach>>
LearnLoss(p)    == /\ Up(p) /\ owner # p /\ Lease!Forget(p)
                   /\ UNCHANGED <<up, ProcessVars, outages, breach>>
LoseTouch(p) ==
    /\ Up(p) /\ Lease!LoseTouch(p) /\ Outage
    /\ breach' = breach \cup {"lost touch"}
    /\ UNCHANGED <<up, ProcessVars>>
Expire(p) ==
    /\ ~Up(p) \/ p \in believes
    /\ Lease!Vacate(p)
    /\ UNCHANGED <<up, ProcessVars, outages, breach>>

NextSlot ==
    /\ now < MaxSlot /\ now' = now + 1
    /\ UNCHANGED <<leaseVars, up, row, job, recovery, retried, runs, current,
                   starts, outages, claims, breach>>

-----------------------------------------------------------------------------

StartStep(p, k) == ClaimWon(p, k) \/ ClaimLost(p, k) \/ Launch(p, k)

Goroutine(p) ==
    \/ Decide(p) \/ Peek(p) \/ RestartStale(p)
    \/ \E k \in Starter : StartStep(p, k)

RunSteps(r) == Begin(r) \/ Finish(r) \/ FinalPersist(r)

RecoveryStep(p) == ListIncomplete(p) \/ MarkRunInterrupted(p)

LeaseStep(p) == AcquireLease(p) \/ LearnLead(p) \/ LearnLoss(p) \/ Expire(p)

Next ==
    \/ \E p \in Process : \/ Goroutine(p) \/ RecoveryStep(p) \/ LeaseStep(p)
                          \/ ManualStart(p) \/ LoseTouch(p) \/ Boot(p) \/ Crash(p)
    \/ \E r \in Run : RunSteps(r) \/ Progress(r)
    \/ NextSlot

Spec == Init /\ [][Next]_vars

\* The goroutines of a process run, its runs come to an end (each step has
\* its timeout), and the lease goes round among the processes that are up.
Fairness ==
    /\ \A p \in Process : /\ WF_vars(Goroutine(p)) /\ WF_vars(RecoveryStep(p))
                          /\ WF_vars(LeaseStep(p))
    /\ \A r \in Run : WF_vars(RunSteps(r))

FairSpec == Spec /\ Fairness

-----------------------------------------------------------------------------
(* Properties *)

\* fund_repo.go:2380 and workflow_scheduler.go:616: the row is the lock.
\* As long as nobody wrote the row off under a live run and no older run
\* saved over a newer claim, only the run of the latest claim is busy, and
\* while it works the row says so.
RowIsTheLock ==
    breach \subseteq {"lost touch", "turned back"} =>
        /\ \A r \in Run : runs[r].phase \in Busy => r = Latest
        /\ \A r \in Run : runs[r].phase \in Busy => row.status = "running"

\* workflow_scheduler.go:727: one claim per slot is the contract.  While
\* exclusiveness was not given up, the scheduler claims a slot once, and
\* once more for every process that spent its retry on the slot.  A process
\* that died forgets what it spent, but then its run was written off.
OneClaimPerSlot ==
    breach = {} =>
        \A s \in Slot :
            claims[s] <= 1 + Cardinality({p \in Process : s \in retried[p] \/ up[p] = "dead"})

\* fund_repo.go:3071: a day whose run has ended comes back to running only
\* by a new claim, never by a snapshot of an older run.
TerminalIsFinal ==
    [][row.status \in Terminal /\ row'.status = "running" => Latest' > Latest]_vars

\* A row that says running though no run is busy and none is about to be.
Stuck == row.status = "running" /\ \A r \in Run : runs[r].phase \notin Busy

SomeUp == \E p \in Process : Up(p)
AllFresh == \A p \in Process : Up(p) => recovery[p].at = "waiting"

\* workflow_recovery.go:357: a run whose process died is written off once
\* a process leads that has not run its recovery yet, while the database
\* answers.
FreshLeaderClears ==
    [](outages = 0) => ((Stuck /\ SomeUp /\ AllFresh) ~> (~Stuck \/ ~SomeUp))
=============================================================================
