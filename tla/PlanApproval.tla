------------------------------ MODULE PlanApproval ------------------------------
(***************************************************************************)
(* A fund's plan of the day from the moment it waits for its user: the     *)
(* run that waits for the decision, approve and reject, resume on the row  *)
(* of the run, the recovery of a paused run after a restart, and the       *)
(* execution of the plan's actions (runtimeTradingEngine.Execute).         *)
(*                                                                         *)
(* Plan, run, actions, trades, lots and holdings are rows of the database; *)
(* every variable of a run and of a handler dies with its process.  Each   *)
(* step is one statement, or several that nothing can come between.  What  *)
(* the code lets happen although it breaks one of the properties is noted  *)
(* in breach, at the step where it happens.                                *)
(***************************************************************************)
EXTENDS Naturals, FiniteSets

CONSTANTS
    Process,      \* replicas of the server
    First,        \* the replica whose run waits for the decision
    User,         \* each decides one thing at a time, on any replica
    Action,       \* the plan's actions, each of them a buy
    MaxWorkers,   \* bound: runs in memory at a time
    MaxClicks,    \* bound: decisions
    MaxBounces,   \* bound: actions whose price has drifted too far
    MaxRefusals,  \* bound: actions a hard rule refuses
    MaxFaults     \* bound: crashes, failed statements, executions over their time

ASSUME PlanApprovalAssumption ==
    /\ First \in Process
    /\ MaxWorkers \in Nat \ {0}
    /\ {MaxClicks, MaxBounces, MaxRefusals, MaxFaults} \subseteq Nat

VARIABLES
    plan,                  \* investment_plans.status
    run,                   \* workflow_runs.status of the day
    status,                \* plan_actions.execution_status
    trades, lots,          \* trade_executions by key; position_lots per action
    held,                  \* holding_positions, in units of the action's quantity
    up,                    \* per replica: alive
    rec,                   \* per replica: its one recovery, and what it has read
    current,               \* per replica: the run in its registry, 0 if none
    worker,                \* the runs in memory
    job,                   \* the request of each user
    refused,               \* a rejection has been answered
    breach,                \* history: what the properties do not stand
    clicks, bounces, refusals, faults

rows == <<plan, run, status, trades, lots, held>>
bounds == <<clicks, bounces, refusals, faults>>
vars == <<rows, up, rec, current, worker, job, refused, breach, bounds>>

Worker == 1 .. MaxWorkers
PlanStatus == {"pending", "approved", "executing", "completed", "rejected"}
RunStatus == {"paused", "running", "completed", "rejected", "cancelled", "failed"}

\* late: a run is launched on a row or a plan that has changed since it was read.
\* unsaved: one is launched on a row that still waits, over books a pass has written.
\* beside: one is launched while another may execute.
\* contested: a decision is written over another one.
\* gaveup: nobody may be left to pick an approval up: a wait that ended, a statement
\* that failed, a plan sent back by a run that does not wait again.
Breach == {"late", "unsaved", "beside", "contested", "gaveup"}
Terminal == {"completed", "rejected", "cancelled"}
Decided == {"approved", "executing", "completed"}

\* "idle" is a run put back into the registry with no goroutine behind it.
Idle == {"none", "idle", "over"}
Executing == {"loading", "reading", "trading", "syncing", "wiping", "saving", "finishing"}
At == Idle \cup {"waiting", "launched", "decided", "scheduled", "closing"} \cup Executing

NoWorker == [proc |-> First, at |-> "none", state |-> "paused", knows |-> FALSE,
             stop |-> FALSE, todo |-> {}, base |-> [a \in Action |-> 0], done |-> {},
             verdict |-> "completed"]
NoJob == [at |-> "rest", proc |-> First]
NoRead == [at |-> "due", plan |-> "pending"]

TypeOK ==
    /\ plan \in PlanStatus
    /\ run \in RunStatus
    /\ status \in [Action -> {"pending", "filled", "rejected"}]
    /\ trades \subseteq Action
    /\ {lots, held} \subseteq [Action -> Nat]
    /\ up \in [Process -> BOOLEAN]
    /\ rec \in [Process -> [at : {"due", "running", "paused", "read", "over"},
                            plan : PlanStatus]]
    /\ current \in [Process -> 0 .. MaxWorkers]
    /\ worker \in [Worker ->
           [proc : Process, at : At, state : RunStatus, knows : BOOLEAN, stop : BOOLEAN,
            todo : SUBSET Action, base : [Action -> Nat], done : SUBSET Action,
            verdict : {"completed", "pending", "rejected"}]]
    /\ job \in [User -> [proc : Process,
           at : {"rest", "approving", "resuming", "taking", "undoing",
                 "rejecting", "cancelling", "saving"}]]
    /\ refused \in BOOLEAN /\ breach \subseteq Breach
    /\ clicks \in 0 .. MaxClicks /\ bounces \in 0 .. MaxBounces
    /\ refusals \in 0 .. MaxRefusals /\ faults \in 0 .. MaxFaults

\* RequestApproval is done and the run waits for the user; its row says so, unless
\* the save of awaiting_user failed.  A replica has recovered, or has yet to lead.
Init ==
    /\ plan = "pending" /\ run \in {"paused", "running"}
    /\ status = [a \in Action |-> "pending"]
    /\ trades = {} /\ lots = [a \in Action |-> 0] /\ held = [a \in Action |-> 0]
    /\ up = [p \in Process |-> TRUE]
    /\ rec \in [Process -> {NoRead, [NoRead EXCEPT !.at = "over"]}]
    /\ current = [p \in Process |-> IF p = First THEN 1 ELSE 0]
    /\ worker = [w \in Worker |-> IF w = 1 THEN [NoWorker EXCEPT !.at = "waiting", !.knows = TRUE]
                                           ELSE NoWorker]
    /\ job = [u \in User |-> NoJob]
    /\ refused = FALSE /\ breach = {}
    /\ clicks = 0 /\ bounces = 0 /\ refusals = 0 /\ faults = 0

-----------------------------------------------------------------------------
(* The row of the run and the registry *)

\* mergeWorkflowRun: a terminal status survives one that is not.
Merged(s) == IF run \in Terminal /\ s \notin Terminal THEN run ELSE s

\* An event's snapshot is saved, whoever is registered; a save that fails is logged.
SaveRow(s) == run' \in {run, Merged(s)}

\* workflowRunAwaitingApproval: of the rows it takes this part has only the paused.
Awaiting == run = "paused"

\* Mutant: a run put back by recovery counts as the owner of the plan.
OwnsAny(p) ==
    current[p] # 0 /\ worker[current[p]].state \in {"paused", "running", "completed"}

\* currentRuntimeOwnsPlan
Owns(p) ==
    /\ current[p] # 0
    /\ worker[current[p]].knows /\ worker[current[p]].state \in {"paused", "running", "completed"}

Unused == {w \in Worker : worker[w].at \in Idle /\ \A p \in Process : current[p] # w}
Fresh == {w \in Unused : \A v \in Unused : w <= v}

\* takeRuntime and Cancel: a goroutine that has not begun yet is not stopped.
Stopped(p) ==
    [w \in Worker |->
        IF current[p] # w THEN worker[w]
        ELSE IF worker[w].at \in Idle THEN NoWorker
        ELSE [worker[w] EXCEPT !.state = "cancelled", !.stop = worker[w].at # "launched"]]

\* The registered run is cancelled and a new one, restored from the row, takes its place.
Replace(p, at, knows) ==
    \E w \in Fresh :
        /\ worker' = [Stopped(p) EXCEPT ![w] = [NoWorker EXCEPT !.proc = p, !.at = at,
                                                                !.knows = knows]]
        /\ current' = [current EXCEPT ![p] = w]

\* A run that executes, stopped or not, or that may come to.
Engaged(r) == r.at \in Executing \/ (r.at \notin Idle /\ ~r.stop)

\* No pass has written anything yet.
Untouched ==
    trades = {} /\ \A a \in Action : held[a] = 0 /\ status[a] = "pending"

\* The new run executes the plan; what it was launched on may not hold any more.
Launch(p, late) ==
    /\ Replace(p, "launched", TRUE)
    /\ breach' = breach \cup
           {b \in {"late", "unsaved", "beside"} :
               \/ b = "late" /\ late
               \/ b = "unsaved" /\ run = "paused" /\ ~Untouched
               \/ b = "beside" /\ \E v \in Worker : v # current'[p] /\ Engaged(worker'[v])}

-----------------------------------------------------------------------------
(* Approve *)

Goto(u, at) ==
    job' = [job EXCEPT ![u] = IF at = "rest" THEN NoJob ELSE [@ EXCEPT !.at = at]]

Asks(u, p) == job[u].at = "rest" /\ up[p] /\ clicks < MaxClicks

\* A decision is written over the plan's status, whatever it has become.
Contested(s) ==
    breach' = breach \cup IF plan \in {"pending", s} THEN {} ELSE {"contested"}

\* The run goes on to execute if nothing stops it.
Capable(w) ==
    ~worker[w].stop /\ worker[w].at \in {"launched", "decided", "scheduled"} \cup Executing

\* GetByID, the guards and validateApprovePlanResume.  A plan that is decided, or
\* that nobody can resume, is left alone.
Approve(u, p) ==
    /\ Asks(u, p)
    /\ plan = "pending" /\ (Owns(p) \/ Awaiting)
    /\ clicks' = clicks + 1
    /\ job' = [job EXCEPT ![u] = [at |-> "approving", proc |-> p]]
    /\ UNCHANGED <<rows, up, rec, current, worker, refused, breach, bounces, refusals, faults>>

\* Two unconditional updates: to approved, and back when there is nothing to resume.
WriteApproved(u) ==
    /\ job[u].at = "approving"
    /\ plan' = "approved" /\ Contested("approved")
    /\ Goto(u, "resuming")
    /\ UNCHANGED <<run, status, trades, lots, held, up, rec, current, worker, refused, bounds>>

Undo(u) ==
    /\ job[u].at = "undoing"
    /\ plan' = "pending"
    /\ breach' = breach \cup IF plan = "approved" /\ ~\E w \in Worker : Capable(w)
                             THEN {} ELSE {"contested"}
    /\ Goto(u, "rest")
    /\ UNCHANGED <<run, status, trades, lots, held, up, rec, current, worker, refused, bounds>>

\* ResumeApprovedPlan reads the plan and the run again.
Resume(u) ==
    /\ job[u].at = "resuming"
    /\ Goto(u, IF plan \notin Decided THEN "undoing"
               ELSE IF run \in {"completed", "rejected"} \/ Owns(job[u].proc) THEN "rest"
               ELSE IF Awaiting THEN "taking" ELSE "undoing")
    /\ UNCHANGED <<rows, up, rec, current, worker, refused, breach, bounds>>

Take(u) ==
    /\ job[u].at = "taking"
    /\ Launch(job[u].proc, run # "paused" \/ plan \notin Decided)
    /\ Goto(u, "rest")
    /\ UNCHANGED <<rows, up, rec, refused, bounds>>

-----------------------------------------------------------------------------
(* Reject *)

Reject(u, p) ==
    /\ Asks(u, p)
    /\ plan = "pending"
    /\ clicks' = clicks + 1
    /\ job' = [job EXCEPT ![u] = [at |-> "rejecting", proc |-> p]]
    /\ UNCHANGED <<rows, up, rec, current, worker, refused, breach, bounces, refusals, faults>>

WriteRejected(u) ==
    /\ job[u].at = "rejecting"
    /\ plan' = "rejected" /\ Contested("rejected")
    /\ Goto(u, "cancelling")
    /\ UNCHANGED <<run, status, trades, lots, held, up, rec, current, worker, refused, bounds>>

\* RejectAwaitingPlan reads the run and, if it waits, cancels the run in this replica's registry.
CancelAwaiting(u) ==
    /\ job[u].at = "cancelling"
    /\ IF Awaiting
       THEN /\ worker' = Stopped(job[u].proc)
            /\ current' = [current EXCEPT ![job[u].proc] = 0]
            /\ Goto(u, "saving")
            /\ UNCHANGED refused
       ELSE /\ refused' = TRUE
            /\ Goto(u, "rest")
            /\ UNCHANGED <<current, worker>>
    /\ UNCHANGED <<rows, up, rec, breach, bounds>>

SaveRejected(u) ==
    /\ job[u].at = "saving"
    /\ run' = Merged("rejected")
    /\ refused' = TRUE
    /\ Goto(u, "rest")
    /\ UNCHANGED <<plan, status, trades, lots, held, up, rec, current, worker, breach, bounds>>

\* A statement of the handler fails or its answer is lost, and the user sees an
\* error: a resume that fails is undone, whatever else has been done stays.
Fails(u) ==
    /\ faults < MaxFaults
    /\ faults' = faults + 1
    /\ \/ /\ job[u].at \in {"approving", "rejecting", "cancelling", "saving"}
          /\ Goto(u, "rest")
          /\ UNCHANGED <<plan, run, breach>>
       \/ /\ job[u].at = "approving"
          /\ plan' = "approved"
          /\ breach' = breach \cup {"gaveup"} \cup
                          IF plan \in {"pending", "approved"} THEN {} ELSE {"contested"}
          /\ Goto(u, "rest")
          /\ UNCHANGED run
       \/ /\ job[u].at = "resuming"
          /\ Goto(u, "undoing")
          /\ UNCHANGED <<plan, run, breach>>
       \/ /\ job[u].at = "undoing"
          /\ breach' = breach \cup {"gaveup"}
          /\ Goto(u, "rest")
          /\ UNCHANGED <<plan, run>>
       \/ /\ job[u].at = "rejecting"
          /\ plan' = "rejected" /\ Contested("rejected")
          /\ Goto(u, "rest")
          /\ UNCHANGED run
       \/ /\ job[u].at = "saving"
          /\ run' = Merged("rejected")
          /\ Goto(u, "rest")
          /\ UNCHANGED <<plan, breach>>
    /\ UNCHANGED <<status, trades, lots, held, up, rec, current, worker, refused,
                   clicks, bounces, refusals>>

Handle(u) ==
    \/ WriteApproved(u) \/ Resume(u) \/ Take(u) \/ Undo(u)
    \/ WriteRejected(u) \/ CancelAwaiting(u) \/ SaveRejected(u)

-----------------------------------------------------------------------------
(* The goroutine of a run *)

Move(w, at) == worker' = [worker EXCEPT ![w].at = at]
Over(w, state) ==
    worker' = [worker EXCEPT ![w] =
                  IF current[worker[w].proc] # w THEN NoWorker
                  ELSE [NoWorker EXCEPT !.proc = worker[w].proc, !.at = "over",
                                        !.state = state, !.knows = worker[w].knows]]

\* Execute returns, and its variables with it.
Return(w) ==
    worker' = [worker EXCEPT ![w] = [NoWorker EXCEPT !.proc = worker[w].proc, !.at = "closing",
                                        !.state = worker[w].state, !.knows = worker[w].knows]]
Alive(w, at) == worker[w].at = at /\ ~worker[w].stop

\* Cancelled, or replaced: the next call on its context fails, and step_paused or
\* step_failed may save the cancelled state on the row.
Quit(w) ==
    /\ worker[w].at \notin Idle
    /\ worker[w].stop \/ (worker[w].at = "waiting" /\ current[worker[w].proc] # w)
    /\ SaveRow("cancelled")
    /\ Over(w, "cancelled")
    /\ UNCHANGED <<plan, status, trades, lots, held, up, rec, current, job, refused, breach, bounds>>

\* Mutant: whatever is not pending any more counts as approved.
ApprovesAny == plan # "pending"

\* What WaitForDecision takes for an approval.
Approved == plan \in Decided

\* WaitForDecision polls the plan; rejected ends the run.
Decide(w) ==
    /\ Alive(w, "waiting") /\ current[worker[w].proc] = w
    /\ \/ Approved /\ Move(w, "decided") /\ UNCHANGED run
       \/ ~Approved /\ plan = "rejected" /\ SaveRow("rejected") /\ Over(w, "rejected")
    /\ UNCHANGED <<plan, status, trades, lots, held, up, rec, current, job, refused, breach, bounds>>

\* A poll that fails ends the wait: step_failed still saves paused, run_failed failed.
PollFails(w) ==
    /\ Alive(w, "waiting")
    /\ run' \in {run, Merged("paused"), Merged("failed")}
    /\ Over(w, "failed")
    /\ breach' = breach \cup {"gaveup"}
    /\ UNCHANGED <<plan, status, trades, lots, held, up, rec, current, job, refused, bounds>>

\* The run's 24 hours are over while it waits for its user or sleeps until the next
\* step's time: the goroutine returns, its run stays registered as it was.
Overdue(w) ==
    /\ worker[w].at \in {"waiting", "scheduled", "closing"} /\ ~worker[w].stop
    /\ SaveRow(worker[w].state)
    /\ Over(w, worker[w].state)
    /\ breach' = breach \cup IF worker[w].at = "closing" THEN {} ELSE {"gaveup"}
    /\ UNCHANGED <<plan, status, trades, lots, held, up, rec, current, job, refused, bounds>>

\* step_completed of the approval, or run_resumed: the row should say running; then
\* the run sleeps until the trading window.
Mark(w) ==
    /\ Alive(w, "decided") \/ Alive(w, "launched")
    /\ SaveRow("running")
    /\ worker' = [worker EXCEPT ![w] = [@ EXCEPT !.at = "scheduled", !.state = "running"]]
    /\ UNCHANGED <<plan, status, trades, lots, held, up, rec, current, job, refused, breach, bounds>>

\* step_started, saved like Mark's event, and the plan's status.
SubmitForExecution(w) ==
    /\ Alive(w, "scheduled")
    /\ SaveRow("running")
    /\ plan' = "executing"
    /\ Move(w, "loading")
    /\ UNCHANGED <<status, trades, lots, held, up, rec, current, job, refused, breach, bounds>>

\* Execute reads the actions, skipping those that are final, and then the positions.
LoadActions(w) ==
    /\ Alive(w, "loading")
    /\ worker' = [worker EXCEPT ![w] =
                     [@ EXCEPT !.at = "reading", !.todo = {a \in Action : status[a] = "pending"}]]
    /\ UNCHANGED <<rows, up, rec, current, job, refused, breach, bounds>>

LoadPositions(w) ==
    /\ Alive(w, "reading")
    /\ worker' = [worker EXCEPT ![w] = [@ EXCEPT !.at = "trading", !.base = held]]
    /\ UNCHANGED <<rows, up, rec, current, job, refused, breach, bounds>>

\* tradeRepoCreateAndFill: the trade's key collapses a second insert; the lot has none.
Fill(w, a) ==
    /\ Alive(w, "trading") /\ a \in worker[w].todo
    /\ trades' = trades \cup {a}
    /\ lots' = [lots EXCEPT ![a] = @ + 1]
    /\ worker' = [worker EXCEPT ![w] =
                     [@ EXCEPT !.todo = worker[w].todo \ {a}, !.done = worker[w].done \cup {a}]]
    /\ UNCHANGED <<plan, run, status, held, up, rec, current, job, refused, breach, bounds>>

\* SlippageGuard sends the plan back to its user; the actions after this one do not run.
Bounce(w) ==
    /\ Alive(w, "trading") /\ worker[w].todo # {} /\ bounces < MaxBounces
    /\ bounces' = bounces + 1
    /\ worker' = [worker EXCEPT ![w] =
                     [@ EXCEPT !.at = "syncing", !.verdict = "pending", !.todo = {}]]
    /\ UNCHANGED <<rows, up, rec, current, job, refused, breach, clicks, refusals, faults>>

\* A hard rule refuses an action: its status is kept in todo until the sync.
Refuse(w, a) ==
    /\ Alive(w, "trading") /\ a \in worker[w].todo /\ refusals < MaxRefusals
    /\ refusals' = refusals + 1
    /\ worker' = [worker EXCEPT ![w] =
                     [@ EXCEPT !.at = "syncing", !.verdict = "rejected", !.todo = {a}]]
    /\ UNCHANGED <<rows, up, rec, current, job, refused, breach, clicks, bounces, faults>>

AllDone(w) ==
    /\ Alive(w, "trading") /\ worker[w].todo = {}
    /\ Move(w, "syncing")
    /\ UNCHANGED <<rows, up, rec, current, job, refused, breach, bounds>>

\* syncPlanActionStatuses; a refusal goes straight to the plan's status.
Sync(w) ==
    /\ Alive(w, "syncing")
    /\ status' = [a \in Action |-> IF a \in worker[w].done THEN "filled"
                                   ELSE IF a \in worker[w].todo THEN "rejected" ELSE status[a]]
    /\ Move(w, IF worker[w].verdict = "rejected" THEN "finishing" ELSE "wiping")
    /\ UNCHANGED <<plan, run, trades, lots, held, up, rec, current, job, refused, breach, bounds>>

\* persistPortfolioState deletes the fund's positions and then inserts those in memory.
Wipe(w) ==
    /\ Alive(w, "wiping")
    /\ held' = [a \in Action |-> 0]
    /\ Move(w, "saving")
    /\ UNCHANGED <<plan, run, status, trades, lots, up, rec, current, job, refused, breach, bounds>>

\* Mutant: the positions as they were loaded.
SaveLoaded(w) ==
    /\ Alive(w, "saving")
    /\ held' = worker[w].base
    /\ Move(w, "finishing")
    /\ UNCHANGED <<plan, run, status, trades, lots, up, rec, current, job, refused, breach, bounds>>

Save(w) ==
    /\ Alive(w, "saving")
    /\ held' = [a \in Action |-> worker[w].base[a] + IF a \in worker[w].done THEN 1 ELSE 0]
    /\ Move(w, "finishing")
    /\ UNCHANGED <<plan, run, status, trades, lots, up, rec, current, job, refused, breach, bounds>>

\* Mutant: the plan gets the status of the run.
FinishAsRun(w) ==
    /\ Alive(w, "finishing")
    /\ plan' = worker[w].state
    /\ SaveRow("running")
    /\ Return(w)
    /\ UNCHANGED <<status, trades, lots, held, up, rec, current, job, refused, breach, bounds>>

\* The plan's status, and step_completed.  The run that sends its plan back ends
\* with the day: no run waits for the next decision.
Finish(w) ==
    /\ Alive(w, "finishing")
    /\ plan' = worker[w].verdict
    /\ breach' = breach \cup IF worker[w].verdict = "pending" THEN {"gaveup"} ELSE {}
    /\ SaveRow("running")
    /\ Return(w)
    /\ UNCHANGED <<status, trades, lots, held, up, rec, current, job, refused, bounds>>

\* The step's three minutes are over, or a statement failed: the rest of the step
\* fails, which step_failed saves, and the run goes on; a plan that could not be
\* submitted stays approved.
Abandon(w) ==
    /\ worker[w].at \in Executing \cup {"scheduled"} /\ ~worker[w].stop /\ faults < MaxFaults
    /\ faults' = faults + 1
    /\ SaveRow("running")
    /\ Return(w)
    /\ breach' = breach \cup IF worker[w].at = "scheduled" THEN {"gaveup"} ELSE {}
    /\ UNCHANGED <<plan, status, trades, lots, held, up, rec, current, job, refused,
                   clicks, bounces, refusals>>

\* Settlement and review, whatever came of the execution; the last save may be lost too.
Close(w) ==
    /\ Alive(w, "closing")
    /\ run' \in {run, Merged("running"), Merged("completed")}
    /\ Over(w, "completed")
    /\ UNCHANGED <<plan, status, trades, lots, held, up, rec, current, job, refused, breach, bounds>>

Step(w) ==
    \/ Quit(w) \/ Decide(w) \/ Mark(w) \/ SubmitForExecution(w)
    \/ LoadActions(w) \/ LoadPositions(w) \/ (\E a \in Action : Fill(w, a)) \/ AllDone(w)
    \/ Sync(w) \/ Wipe(w) \/ Save(w) \/ Finish(w) \/ Close(w)

-----------------------------------------------------------------------------
(* Crash, restart and recovery *)

Crash(p) ==
    /\ up[p] /\ faults < MaxFaults
    /\ faults' = faults + 1
    /\ up' = [up EXCEPT ![p] = FALSE]
    /\ current' = [current EXCEPT ![p] = 0]
    /\ worker' = [w \in Worker |->
                     IF worker[w].proc = p THEN NoWorker ELSE worker[w]]
    /\ job' = [u \in User |-> IF job[u].proc = p THEN NoJob ELSE job[u]]
    /\ UNCHANGED <<rows, rec, refused, breach, clicks, bounces, refusals>>

Restart(p) ==
    /\ ~up[p]
    /\ up' = [up EXCEPT ![p] = TRUE]
    /\ rec' = [rec EXCEPT ![p] = NoRead]
    /\ UNCHANGED <<rows, current, worker, job, refused, breach, bounds>>

Recovers(p, at) == rec' = [rec EXCEPT ![p] = [NoRead EXCEPT !.at = at]]

\* RecoverIncompleteWorkflows, once in a process's life, when it comes to lead:
\* which may be long after its boot, with runs of its own and of others under way.
RecoverList(p) ==
    /\ up[p] /\ rec[p].at = "due"
    /\ Recovers(p, IF run \in {"running", "paused"} THEN run ELSE "over")
    /\ UNCHANGED <<rows, up, current, worker, job, refused, breach, bounds>>

\* markRunInterrupted: the row as it was listed is written over what it has become;
\* an error is logged.
MarkInterrupted(p) ==
    /\ up[p] /\ rec[p].at = "running"
    /\ run' \in {run, "failed"}
    /\ Recovers(p, "over")
    /\ UNCHANGED <<plan, status, trades, lots, held, up, current, worker, job, refused, breach, bounds>>

ReadPlan(p) ==
    /\ up[p] /\ rec[p].at = "paused"
    /\ rec' = [rec EXCEPT ![p] = [at |-> "read", plan |-> plan]]
    /\ UNCHANGED <<rows, up, current, worker, job, refused, breach, bounds>>

\* recoverPausedRun: launched again, put back into the registry, or rejected, on
\* the plan and the row as they were read.
RecoverPlan(p) ==
    /\ up[p] /\ rec[p].at = "read"
    /\ LET late == run # "paused" \/ plan # rec[p].plan
       IN  \/ /\ rec[p].plan \in {"approved", "executing"}
              /\ Launch(p, late)
              /\ UNCHANGED run
           \/ /\ rec[p].plan = "pending"
              /\ Replace(p, "idle", FALSE)
              /\ breach' = breach \cup IF late THEN {"late"} ELSE {}
              /\ UNCHANGED run
           \/ /\ rec[p].plan = "rejected"
              /\ run' \in {run, "rejected"}
              /\ UNCHANGED <<current, worker, breach>>
           \/ /\ rec[p].plan = "completed"
              /\ UNCHANGED <<run, current, worker, breach>>
    /\ Recovers(p, "over")
    /\ UNCHANGED <<plan, status, trades, lots, held, up, job, refused, bounds>>

\* The list or the plan cannot be read: the run is left where it is, for good.
RecoverySkips(p) ==
    /\ up[p] /\ rec[p].at \in {"due", "paused"} /\ faults < MaxFaults
    /\ faults' = faults + 1
    /\ breach' = breach \cup {"gaveup"}
    /\ Recovers(p, "over")
    /\ UNCHANGED <<rows, up, current, worker, job, refused, clicks, bounces, refusals>>

Recover(p) == RecoverList(p) \/ MarkInterrupted(p) \/ ReadPlan(p) \/ RecoverPlan(p)

-----------------------------------------------------------------------------

Next ==
    \/ \E u \in User : Handle(u) \/ Fails(u) \/ \E p \in Process : Approve(u, p) \/ Reject(u, p)
    \/ \E w \in Worker : Step(w) \/ PollFails(w) \/ Overdue(w) \/ Bounce(w) \/ Abandon(w)
    \/ \E w \in Worker, a \in Action : Refuse(w, a)
    \/ \E p \in Process : Crash(p) \/ Restart(p) \/ Recover(p) \/ RecoverySkips(p)

\* Goroutines and handlers run, a dead replica is restarted, and it leads in the
\* end: runRecoveryWhenLeader polls until it does.
Fairness ==
    /\ \A u \in User : WF_vars(Handle(u))
    /\ \A w \in Worker : WF_vars(Step(w))
    /\ \A p \in Process : WF_vars(Restart(p)) /\ WF_vars(Recover(p))

Spec == Init /\ [][Next]_vars /\ Fairness

-----------------------------------------------------------------------------
(* Properties *)

\* A completed plan is in the books: the fund holds what the plan's trades bought,
\* neither lost by a crash, a bounce, a decision that comes again or a save that
\* failed, nor counted twice; as long as no run was launched late, beside another,
\* or on a row that still waits although a pass has written the books.
CompletedIsBooked ==
    plan = "completed" /\ breach \cap {"late", "unsaved", "beside"} = {} =>
        /\ \A a \in Action : held[a] = IF a \in trades THEN 1 ELSE 0
        /\ \A a \in Action : status[a] = "filled" <=> a \in trades

\* Once a user has been told that the plan is rejected, no run, resume or recovery
\* trades for it any more; as long as no decision was written over another one and
\* no run was launched late or beside another.
RejectedNeverTrades ==
    [][refused /\ breach \cap {"late", "beside", "contested"} = {} => trades' = trades]_trades

\* A run has gone on from the approval.
PickedUp == \E w \in Worker : worker[w].at \in {"scheduled", "closing"} \cup Executing

\* An approved plan whose run still waits is picked up, by the run that waits, by
\* the approval's own resume or by recovery after a crash: it does not sit there;
\* unless a wait, a statement or the recovery gave up, or a decision or a run was
\* put over another one.
ApprovedResumes ==
    plan = "approved" /\ run = "paused" /\ breach \subseteq {"unsaved"}
        ~> plan # "approved" \/ run # "paused" \/ PickedUp \/ ~(breach \subseteq {"unsaved"})

\* "Each row is one buy execution": an action is executed once, so it opens one lot.
OneLotPerBuy == \A a \in Action : lots[a] <= 1

=============================================================================
