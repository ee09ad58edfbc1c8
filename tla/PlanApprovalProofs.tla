------------------------ MODULE PlanApprovalProofs ------------------------
(***************************************************************************)
(* Proofs about PlanApproval, for every set of replicas, users and         *)
(* actions: its types; that a completed plan is in the books; and that a   *)
(* plan whose rejection was answered never trades; each as long as none of *)
(* the steps it names in breach has happened.                              *)
(***************************************************************************)
EXTENDS PlanApproval, TLAPS

\* No run was launched late, over written books or beside another.
Clean == breach \cap {"late", "unsaved", "beside"} = {}

\* No run was launched late or beside another, and no decision was overruled.
Sound == breach \cap {"late", "beside", "contested"} = {}

\* A run that goes on.
Working(r) == r.at \notin Idle /\ ~r.stop

Journaled == \A a \in Action : status[a] = "filled" <=> a \in trades
Booked == Journaled /\ \A a \in Action : held[a] = IF a \in trades THEN 1 ELSE 0

\* A goroutine that has not begun is never stopped.
BegunIfStopped == \A w \in Worker : worker[w].stop => worker[w].at # "launched"

\* One run at a time executes or may come to.
OneEngaged ==
    "beside" \notin breach =>
        \A v, w \in Worker : Engaged(worker[v]) /\ Engaged(worker[w]) => v = w

\* A run that goes on past the approval has a plan that is decided.
DecidedIfCapable == Sound => \A w \in Worker : Capable(w) => plan \in Decided

\* A rejection that is on its way or answered stays in the plan.
RejectedStays ==
    Sound =>
        /\ refused => plan = "rejected"
        /\ \A u \in User : job[u].at \in {"cancelling", "saving"} => plan = "rejected"

\* How far the books are at each stage of the execution.
Stage(r) ==
    /\ r.at \in {"waiting", "launched", "decided", "scheduled", "loading", "reading"} =>
           Untouched /\ r.done = {} /\ r.verdict = "completed"
    /\ r.at \in {"trading", "syncing"} =>
           /\ r.done = trades
           /\ \A a \in Action : held[a] = 0 /\ status[a] = "pending"
    /\ r.at \in {"trading", "syncing", "wiping", "saving"} =>
           \A a \in Action : r.base[a] = 0
    /\ r.at = "trading" => r.verdict = "completed"
    /\ r.at = "syncing" /\ r.verdict = "completed" => r.todo = {}
    /\ r.at \in {"wiping", "saving"} /\ r.verdict = "completed" =>
           r.done = trades /\ Journaled
    /\ r.at = "finishing" /\ r.verdict = "completed" => Booked
Staged == Clean => \A w \in Worker : Working(worker[w]) => Stage(worker[w])

\* A completed plan's books are closed, and no run is at them.
CompletedIsLate ==
    Clean /\ plan = "completed" =>
        Booked /\ \A w \in Worker : Working(worker[w]) => worker[w].at \notin Executing

IInv ==
    /\ TypeOK
    /\ BegunIfStopped /\ OneEngaged /\ DecidedIfCapable /\ RejectedStays
    /\ Staged /\ CompletedIsLate

-----------------------------------------------------------------------------
(* Type correctness *)

WorkerRecord ==
    [proc : Process, at : At, state : RunStatus, knows : BOOLEAN, stop : BOOLEAN,
     todo : SUBSET Action, base : [Action -> Nat], done : SUBSET Action,
     verdict : {"completed", "pending", "rejected"}]
JobRecord ==
    [proc : Process, at : {"rest", "approving", "resuming", "taking", "undoing",
                           "rejecting", "cancelling", "saving"}]
ReadRecord == [at : {"due", "running", "paused", "read", "over"}, plan : PlanStatus]

\* The bounds are natural numbers.
LEMMA Bounds ==
    /\ First \in Process
    /\ MaxWorkers \in Nat /\ MaxClicks \in Nat /\ MaxBounces \in Nat
    /\ MaxRefusals \in Nat /\ MaxFaults \in Nat
  BY PlanApprovalAssumption

\* The records that reset a run and a request have their types.
LEMMA ConstantTypes ==
    /\ NoWorker \in WorkerRecord
    /\ NoJob \in JobRecord
    /\ NoRead \in ReadRecord
<1>1. [a \in Action |-> 0] \in [Action -> Nat]
  OBVIOUS
<1> QED BY <1>1, Bounds DEF NoWorker, WorkerRecord, NoJob, JobRecord, NoRead,
       ReadRecord, PlanStatus, At, Idle, Executing, RunStatus

\* Every step that moves a run keeps its type and leaves the others alone.
LEMMA WorkerType ==
    ASSUME TypeOK, NEW w \in Worker, NEW new \in WorkerRecord,
           worker' = [worker EXCEPT ![w] = new]
    PROVE  /\ worker' \in [Worker -> WorkerRecord]
           /\ worker'[w] = new
           /\ \A v \in Worker : v # w => worker'[v] = worker[v]
  BY DEF TypeOK, WorkerRecord

\* A run is one of its records.
LEMMA RecordOf ==
    ASSUME TypeOK, NEW w \in Worker
    PROVE  worker[w] \in WorkerRecord
  BY DEF TypeOK, WorkerRecord

\* A run moves to its next stage.
LEMMA MoveType ==
    ASSUME TypeOK, NEW w \in Worker, NEW at \in At, Move(w, at)
    PROVE  /\ worker' \in [Worker -> WorkerRecord]
           /\ worker'[w] = [worker[w] EXCEPT !.at = at]
           /\ \A v \in Worker : v # w => worker'[v] = worker[v]
<1>1. [worker[w] EXCEPT !.at = at] \in WorkerRecord
  BY RecordOf DEF WorkerRecord
<1> QED BY <1>1, WorkerType DEF Move

\* Execute returns.
LEMMA ReturnType ==
    ASSUME TypeOK, NEW w \in Worker, Return(w)
    PROVE  /\ worker' \in [Worker -> WorkerRecord]
           /\ worker'[w].at = "closing" /\ worker'[w].stop = FALSE
           /\ \A v \in Worker : v # w => worker'[v] = worker[v]
<1> DEFINE new == [NoWorker EXCEPT !.proc = worker[w].proc, !.at = "closing",
                                   !.state = worker[w].state, !.knows = worker[w].knows]
<1>1. /\ worker[w].proc \in Process /\ worker[w].knows \in BOOLEAN
      /\ worker[w].state \in RunStatus
  BY RecordOf DEF WorkerRecord
<1>2. new \in WorkerRecord
  BY <1>1, ConstantTypes DEF WorkerRecord, At
<1>3. new.at = "closing" /\ new.stop = FALSE
  BY DEF NoWorker
<1>4. worker' = [worker EXCEPT ![w] = new]
  BY DEF Return
<1> HIDE DEF new
<1> QED BY <1>2, <1>3, <1>4, WorkerType

\* A run ends.
LEMMA OverType ==
    ASSUME TypeOK, NEW w \in Worker, NEW state \in RunStatus, Over(w, state)
    PROVE  worker' \in [Worker -> WorkerRecord]
<1>1. worker[w].proc \in Process /\ worker[w].knows \in BOOLEAN
  BY RecordOf DEF WorkerRecord
<1>2. [NoWorker EXCEPT !.proc = worker[w].proc, !.at = "over", !.state = state,
                       !.knows = worker[w].knows] \in WorkerRecord
  BY <1>1, ConstantTypes DEF WorkerRecord, At, Idle
<1> QED BY <1>2, ConstantTypes, WorkerType DEF Over

\* The registered run is cancelled.
LEMMA StoppedType ==
    ASSUME TypeOK, NEW p
    PROVE  Stopped(p) \in [Worker -> WorkerRecord]
<1>1. ASSUME NEW w \in Worker
      PROVE  [worker[w] EXCEPT !.state = "cancelled", !.stop = worker[w].at # "launched"]
             \in WorkerRecord
  BY RecordOf DEF WorkerRecord, RunStatus
<1> QED BY <1>1, RecordOf, ConstantTypes DEF Stopped

\* A run restored from the row takes its place.
LEMMA ReplaceType ==
    ASSUME TypeOK, NEW p \in Process, NEW at \in At, NEW knows \in BOOLEAN,
           Replace(p, at, knows)
    PROVE  /\ worker' \in [Worker -> WorkerRecord]
           /\ current' \in [Process -> 0 .. MaxWorkers]
<1> PICK w \in Fresh :
        /\ worker' = [Stopped(p) EXCEPT ![w] = [NoWorker EXCEPT !.proc = p, !.at = at,
                                                                !.knows = knows]]
        /\ current' = [current EXCEPT ![p] = w]
  BY DEF Replace
<1>1. w \in Worker
  BY DEF Fresh, Unused
<1>2. [NoWorker EXCEPT !.proc = p, !.at = at, !.knows = knows] \in WorkerRecord
  BY ConstantTypes DEF WorkerRecord
<1>3. w \in 0 .. MaxWorkers
  BY <1>1, Bounds DEF Worker
<1> QED BY <1>1, <1>2, <1>3, StoppedType DEF TypeOK

\* What is noted of a launch.
LEMMA LaunchType ==
    ASSUME TypeOK, NEW p \in Process, NEW late, Launch(p, late)
    PROVE  /\ worker' \in [Worker -> WorkerRecord]
           /\ current' \in [Process -> 0 .. MaxWorkers]
           /\ breach' \subseteq Breach
<1>1. Replace(p, "launched", TRUE) /\ "launched" \in At
  BY DEF Launch, At
<1>2. breach' \subseteq Breach
  BY DEF Launch, TypeOK, Breach
<1> QED BY <1>1, <1>2, ReplaceType

\* A merge is a status of a run.
LEMMA SavedType ==
    ASSUME TypeOK
    PROVE  \A s \in RunStatus : Merged(s) \in RunStatus /\ (SaveRow(s) => run' \in RunStatus)
  BY DEF TypeOK, Merged, SaveRow

\* A request moves on; the others stay where they are.
LEMMA GotoType ==
    ASSUME TypeOK, NEW u \in User,
           NEW at \in {"rest", "approving", "resuming", "taking", "undoing",
                       "rejecting", "cancelling", "saving"},
           Goto(u, at)
    PROVE  /\ job' \in [User -> JobRecord]
           /\ job'[u].at = at
           /\ \A v \in User : v # u => job'[v] = job[v]
<1>1. job \in [User -> JobRecord]
  BY DEF TypeOK, JobRecord
<1>2. [job[u] EXCEPT !.at = at] \in JobRecord /\ [job[u] EXCEPT !.at = at].at = at
  BY <1>1 DEF JobRecord
<1>3. NoJob.at = "rest"
  BY DEF NoJob
<1> QED BY <1>1, <1>2, <1>3, ConstantTypes DEF Goto

\* The variables keep their types in the initial state.
LEMMA InitType == Init => TypeOK
<1> SUFFICES ASSUME Init PROVE TypeOK
  OBVIOUS
<1>1. worker \in [Worker -> WorkerRecord]
  <2>1. [NoWorker EXCEPT !.at = "waiting", !.knows = TRUE] \in WorkerRecord
    BY ConstantTypes DEF WorkerRecord, At
  <2> QED BY <2>1, ConstantTypes DEF Init
<1>2. job \in [User -> JobRecord]
  BY ConstantTypes DEF Init
<1>3. current \in [Process -> 0 .. MaxWorkers]
  <2>1. 0 \in 0 .. MaxWorkers /\ 1 \in 0 .. MaxWorkers
    BY PlanApprovalAssumption
  <2> QED BY <2>1 DEF Init
<1>4. /\ clicks \in 0 .. MaxClicks /\ bounces \in 0 .. MaxBounces
      /\ refusals \in 0 .. MaxRefusals /\ faults \in 0 .. MaxFaults
  BY Bounds DEF Init
<1>5. {lots, held} \subseteq [Action -> Nat]
  BY DEF Init
<1>6. status \in [Action -> {"pending", "filled", "rejected"}] /\ run \in RunStatus
  BY DEF Init, RunStatus
<1>7. rec \in [Process -> ReadRecord]
  <2>1. [NoRead EXCEPT !.at = "over"] \in ReadRecord
    BY ConstantTypes DEF ReadRecord
  <2>2. {NoRead, [NoRead EXCEPT !.at = "over"]} \subseteq ReadRecord
    BY <2>1, ConstantTypes
  <2> HIDE DEF ReadRecord
  <2> QED BY <2>2 DEF Init
<1>8. breach \subseteq Breach /\ plan \in PlanStatus /\ up \in [Process -> BOOLEAN]
  BY DEF Init, PlanStatus
<1> QED BY <1>1, <1>2, <1>3, <1>4, <1>5, <1>6, <1>7, <1>8
        DEF Init, TypeOK, WorkerRecord, JobRecord, ReadRecord

\* A counter that is below its bound may go up by one.
LEMMA CountUp ==
    ASSUME NEW n, NEW bound \in Nat, n \in 0 .. bound, n < bound
    PROVE  n + 1 \in 0 .. bound
  OBVIOUS

\* The handlers keep the types.
LEMMA HandlerTypes ==
    ASSUME TypeOK, NEW u \in User,
           Handle(u) \/ Fails(u) \/ \E p \in Process : Approve(u, p) \/ Reject(u, p)
    PROVE  TypeOK'
<1>0. /\ job[u].proc \in Process /\ Merged("rejected") \in RunStatus
      /\ \A s : Contested(s) => breach' \subseteq Breach
      /\ {"pending", "approved", "rejected"} \subseteq PlanStatus
  BY DEF TypeOK, Merged, RunStatus, Contested, Breach, PlanStatus
<1>1. ASSUME NEW p \in Process, Approve(u, p) \/ Reject(u, p) PROVE TypeOK'
  <2>1. clicks' \in 0 .. MaxClicks
    <3>1. clicks \in 0 .. MaxClicks /\ clicks < MaxClicks /\ clicks' = clicks + 1
      BY <1>1 DEF TypeOK, Approve, Reject, Asks
    <3> QED BY <3>1, CountUp, Bounds
  <2>2. job' \in [User -> JobRecord]
    BY <1>1 DEF Approve, Reject, TypeOK, JobRecord
  <2> QED BY <1>1, <2>1, <2>2 DEF Approve, Reject, TypeOK, rows, JobRecord
<1>2. CASE WriteApproved(u)
  BY <1>0, <1>2, GotoType DEF WriteApproved, TypeOK, bounds, JobRecord
<1>3. CASE Undo(u)
  <2>1. breach' \subseteq Breach
    BY <1>3 DEF Undo, TypeOK, Breach
  <2> QED BY <1>0, <1>3, <2>1, GotoType DEF Undo, TypeOK, bounds, JobRecord
<1>4. CASE Resume(u)
  BY <1>4, GotoType DEF Resume, TypeOK, rows, bounds, JobRecord
<1>5. CASE Take(u)
  <2>1. /\ worker' \in [Worker -> WorkerRecord]
        /\ current' \in [Process -> 0 .. MaxWorkers]
        /\ breach' \subseteq Breach
    BY <1>0, <1>5, LaunchType DEF Take
  <2>2. job' \in [User -> JobRecord]
    BY <1>5, GotoType DEF Take
  <2> QED BY <1>5, <2>1, <2>2 DEF Take, TypeOK, rows, bounds, JobRecord, WorkerRecord
<1>6. CASE WriteRejected(u)
  BY <1>0, <1>6, GotoType DEF WriteRejected, TypeOK, bounds, JobRecord
<1>7. CASE CancelAwaiting(u)
  <2>1. worker' \in [Worker -> WorkerRecord]
    BY <1>7, StoppedType DEF CancelAwaiting, TypeOK, WorkerRecord
  <2>2. job' \in [User -> JobRecord]
    BY <1>7, GotoType DEF CancelAwaiting
  <2>3. current' \in [Process -> 0 .. MaxWorkers] /\ refused' \in BOOLEAN
    <3>1. 0 \in 0 .. MaxWorkers
      BY Bounds
    <3>2. current' \in [Process -> 0 .. MaxWorkers]
      BY <1>7, <3>1 DEF CancelAwaiting, TypeOK
    <3>3. CASE Awaiting
      BY <1>7, <3>2, <3>3 DEF CancelAwaiting, TypeOK
    <3>4. CASE ~Awaiting
      BY <1>7, <3>2, <3>4 DEF CancelAwaiting, TypeOK
    <3> QED BY <3>3, <3>4
  <2> QED BY <1>7, <2>1, <2>2, <2>3 DEF CancelAwaiting, TypeOK, rows, bounds, JobRecord, WorkerRecord
<1>8. CASE SaveRejected(u)
  BY <1>0, <1>8, GotoType DEF SaveRejected, TypeOK, bounds, JobRecord
<1>9. CASE Fails(u)
  <2>1. faults' \in 0 .. MaxFaults
    <3>1. faults \in 0 .. MaxFaults /\ faults < MaxFaults /\ faults' = faults + 1
      BY <1>9 DEF Fails, TypeOK
    <3> QED BY <3>1, CountUp, Bounds
  <2>2. job' \in [User -> JobRecord]
    BY <1>9, GotoType DEF Fails
  <2>3. breach' \subseteq Breach
    BY <1>9 DEF Fails, Contested, TypeOK, Breach
  <2>4. plan' \in PlanStatus /\ run' \in RunStatus
    BY <1>0, <1>9 DEF Fails, TypeOK
  <2> QED BY <1>9, <2>1, <2>2, <2>3, <2>4 DEF Fails, TypeOK, JobRecord
<1> QED BY <1>1, <1>2, <1>3, <1>4, <1>5, <1>6, <1>7, <1>8, <1>9 DEF Handle

\* A step of a run that leaves most variables alone keeps the types if the
\* others do.
LEMMA RunTypes ==
    ASSUME TypeOK, NEW w \in Worker,
           \/ Step(w) \/ PollFails(w) \/ Overdue(w) \/ Bounce(w) \/ Abandon(w)
           \/ \E a \in Action : Refuse(w, a)
    PROVE  TypeOK'
<1>0. worker[w] \in WorkerRecord
  BY RecordOf
<1> DEFINE Workers == [Worker -> WorkerRecord]
<1>1. \A s \in RunStatus : Merged(s) \in RunStatus /\ (SaveRow(s) => run' \in RunStatus)
  BY SavedType
<1>2. CASE Quit(w)
  <2>1. worker' \in Workers
    BY <1>2, OverType DEF Quit, RunStatus
  <2>2. run' \in RunStatus
    BY <1>1, <1>2 DEF Quit, TypeOK, RunStatus
  <2> QED BY <1>2, <2>1, <2>2 DEF Quit, TypeOK, WorkerRecord, bounds
<1>3. CASE Decide(w)
  <2>1. worker' \in Workers
    BY <1>3, OverType, MoveType DEF Decide, RunStatus, At
  <2>2. run' \in RunStatus
    BY <1>1, <1>3 DEF Decide, TypeOK, RunStatus
  <2> QED BY <1>3, <2>1, <2>2 DEF Decide, TypeOK, WorkerRecord, bounds
<1>4. CASE Mark(w)
  <2>1. [worker[w] EXCEPT !.at = "scheduled", !.state = "running"] \in WorkerRecord
    BY <1>0 DEF WorkerRecord, At, RunStatus
  <2>2. worker' \in Workers
    BY <1>4, <2>1, WorkerType DEF Mark
  <2>3. run' \in RunStatus
    BY <1>1, <1>4 DEF Mark, RunStatus
  <2> QED BY <1>4, <2>2, <2>3 DEF Mark, TypeOK, WorkerRecord, bounds
<1>5. CASE SubmitForExecution(w)
  <2>1. worker' \in Workers
    BY <1>5, MoveType DEF SubmitForExecution, At, Executing
  <2>2. run' \in RunStatus /\ plan' \in PlanStatus
    BY <1>1, <1>5 DEF SubmitForExecution, RunStatus, PlanStatus
  <2> QED BY <1>5, <2>1, <2>2 DEF SubmitForExecution, TypeOK, WorkerRecord, bounds
<1>6. CASE LoadActions(w)
  <2>1. [worker[w] EXCEPT !.at = "reading", !.todo = {a \in Action : status[a] = "pending"}]
        \in WorkerRecord
    BY <1>0 DEF WorkerRecord, At, Executing
  <2>2. worker' \in Workers
    BY <1>6, <2>1, WorkerType DEF LoadActions
  <2> QED BY <1>6, <2>2 DEF LoadActions, TypeOK, WorkerRecord, bounds, rows
<1>7. CASE LoadPositions(w)
  <2>1. [worker[w] EXCEPT !.at = "trading", !.base = held] \in WorkerRecord
    BY <1>0 DEF WorkerRecord, At, Executing, TypeOK
  <2>2. worker' \in Workers
    BY <1>7, <2>1, WorkerType DEF LoadPositions
  <2> QED BY <1>7, <2>2 DEF LoadPositions, TypeOK, WorkerRecord, bounds, rows
<1>8. ASSUME NEW a \in Action, Fill(w, a) PROVE TypeOK'
  <2>1. [worker[w] EXCEPT !.todo = worker[w].todo \ {a}, !.done = worker[w].done \cup {a}]
        \in WorkerRecord
    BY <1>0 DEF WorkerRecord
  <2>2. worker' \in Workers
    BY <1>8, <2>1, WorkerType DEF Fill
  <2>3. lots' \in [Action -> Nat] /\ trades' \subseteq Action
    BY <1>8 DEF Fill, TypeOK
  <2> QED BY <1>8, <2>2, <2>3 DEF Fill, TypeOK, WorkerRecord, bounds
<1>9. CASE AllDone(w)
  <2>1. worker' \in Workers
    BY <1>9, MoveType DEF AllDone, At, Executing
  <2> QED BY <1>9, <2>1 DEF AllDone, TypeOK, WorkerRecord, bounds, rows
<1>10. CASE Sync(w)
  <2>1. worker' \in Workers
    BY <1>10, MoveType DEF Sync, At, Executing
  <2>2. status' \in [Action -> {"pending", "filled", "rejected"}]
    BY <1>10 DEF Sync, TypeOK
  <2> QED BY <1>10, <2>1, <2>2 DEF Sync, TypeOK, WorkerRecord, bounds
<1>11. CASE Wipe(w)
  <2>1. worker' \in Workers
    BY <1>11, MoveType DEF Wipe, At, Executing
  <2>2. held' \in [Action -> Nat]
    BY <1>11 DEF Wipe
  <2> QED BY <1>11, <2>1, <2>2 DEF Wipe, TypeOK, WorkerRecord, bounds
<1>12. CASE Save(w)
  <2>1. worker' \in Workers
    BY <1>12, MoveType DEF Save, At, Executing
  <2>2. held' \in [Action -> Nat]
    <3>1. worker[w].base \in [Action -> Nat]
      BY <1>0 DEF WorkerRecord
    <3> QED BY <1>12, <3>1 DEF Save
  <2> QED BY <1>12, <2>1, <2>2 DEF Save, TypeOK, WorkerRecord, bounds
<1>13. CASE Finish(w)
  <2>1. worker' \in Workers
    BY <1>13, ReturnType DEF Finish
  <2>2. plan' \in PlanStatus /\ run' \in RunStatus
    BY <1>0, <1>1, <1>13 DEF Finish, WorkerRecord, PlanStatus, RunStatus
  <2>3. breach' \subseteq Breach
    BY <1>13 DEF Finish, TypeOK, Breach
  <2> QED BY <1>13, <2>1, <2>2, <2>3 DEF Finish, TypeOK, WorkerRecord, bounds
<1>14. CASE Close(w)
  <2>1. worker' \in Workers
    BY <1>14, OverType DEF Close, RunStatus
  <2>2. run' \in RunStatus
    BY <1>1, <1>14 DEF Close, TypeOK, RunStatus
  <2> QED BY <1>14, <2>1, <2>2 DEF Close, TypeOK, WorkerRecord, bounds
<1>15. CASE PollFails(w) \/ Overdue(w)
  <2>0. worker[w].state \in RunStatus /\ "failed" \in RunStatus /\ "paused" \in RunStatus
    BY <1>0 DEF WorkerRecord, RunStatus
  <2>1. worker' \in Workers
    BY <1>15, <2>0, OverType DEF PollFails, Overdue
  <2>2. run' \in RunStatus
    BY <1>1, <1>15, <2>0 DEF PollFails, Overdue, TypeOK
  <2>3. breach' \subseteq Breach
    BY <1>15 DEF PollFails, Overdue, TypeOK, Breach
  <2> QED BY <1>15, <2>1, <2>2, <2>3 DEF PollFails, Overdue, TypeOK, WorkerRecord, bounds
<1>16. CASE Bounce(w)
  <2>1. [worker[w] EXCEPT !.at = "syncing", !.verdict = "pending", !.todo = {}] \in WorkerRecord
    BY <1>0 DEF WorkerRecord, At, Executing
  <2>2. worker' \in Workers
    BY <1>16, <2>1, WorkerType DEF Bounce
  <2>3. bounces' \in 0 .. MaxBounces
    <3>1. bounces \in 0 .. MaxBounces /\ bounces < MaxBounces /\ bounces' = bounces + 1
      BY <1>16 DEF Bounce, TypeOK
    <3> QED BY <3>1, CountUp, Bounds
  <2> QED BY <1>16, <2>2, <2>3 DEF Bounce, TypeOK, WorkerRecord, rows
<1>17. ASSUME NEW a \in Action, Refuse(w, a) PROVE TypeOK'
  <2>1. [worker[w] EXCEPT !.at = "syncing", !.verdict = "rejected", !.todo = {a}]
        \in WorkerRecord
    BY <1>0 DEF WorkerRecord, At, Executing
  <2>2. worker' \in Workers
    BY <1>17, <2>1, WorkerType DEF Refuse
  <2>3. refusals' \in 0 .. MaxRefusals
    <3>1. refusals \in 0 .. MaxRefusals /\ refusals < MaxRefusals /\ refusals' = refusals + 1
      BY <1>17 DEF Refuse, TypeOK
    <3> QED BY <3>1, CountUp, Bounds
  <2> QED BY <1>17, <2>2, <2>3 DEF Refuse, TypeOK, WorkerRecord, rows
<1>18. CASE Abandon(w)
  <2>1. worker' \in Workers
    BY <1>18, ReturnType DEF Abandon
  <2>2. faults' \in 0 .. MaxFaults
    <3>1. faults \in 0 .. MaxFaults /\ faults < MaxFaults /\ faults' = faults + 1
      BY <1>18 DEF Abandon, TypeOK
    <3> QED BY <3>1, CountUp, Bounds
  <2>3. run' \in RunStatus /\ breach' \subseteq Breach
    BY <1>1, <1>18 DEF Abandon, TypeOK, RunStatus, Breach
  <2> QED BY <1>18, <2>1, <2>2, <2>3 DEF Abandon, TypeOK, WorkerRecord
<1> QED BY <1>2, <1>3, <1>4, <1>5, <1>6, <1>7, <1>8, <1>9, <1>10, <1>11, <1>12, <1>13, <1>14,
           <1>15, <1>16, <1>17, <1>18 DEF Step

\* Crash, restart and recovery keep the types.
LEMMA ProcessTypes ==
    ASSUME TypeOK, NEW p \in Process,
           Crash(p) \/ Restart(p) \/ Recover(p) \/ RecoverySkips(p)
    PROVE  TypeOK'
<1>0. rec \in [Process -> ReadRecord] /\ plan \in PlanStatus
  BY DEF TypeOK, ReadRecord
<1>1. CASE Crash(p)
  <2>1. faults' \in 0 .. MaxFaults
    <3>1. faults \in 0 .. MaxFaults /\ faults < MaxFaults /\ faults' = faults + 1
      BY <1>1 DEF Crash, TypeOK
    <3> QED BY <3>1, CountUp, Bounds
  <2>2. worker' \in [Worker -> WorkerRecord] /\ job' \in [User -> JobRecord]
    BY <1>1, ConstantTypes DEF Crash, TypeOK, WorkerRecord, JobRecord
  <2>3. current' \in [Process -> 0 .. MaxWorkers] /\ up' \in [Process -> BOOLEAN]
    <3>1. 0 \in 0 .. MaxWorkers
      BY Bounds
    <3> QED BY <1>1, <3>1 DEF Crash, TypeOK
  <2> QED BY <1>1, <2>1, <2>2, <2>3 DEF Crash, TypeOK, rows, WorkerRecord, JobRecord
<1>2. CASE Restart(p)
  <2>1. rec' \in [Process -> ReadRecord]
    BY <1>0, <1>2, ConstantTypes DEF Restart
  <2> QED BY <1>2, <2>1 DEF Restart, TypeOK, rows, bounds, ReadRecord
<1>3. ASSUME NEW at \in {"due", "running", "paused", "read", "over"}, Recovers(p, at)
      PROVE  rec' \in [Process -> ReadRecord]
  <2>1. [NoRead EXCEPT !.at = at] \in ReadRecord
    BY ConstantTypes DEF ReadRecord
  <2> HIDE DEF ReadRecord
  <2> QED BY <1>0, <1>3, <2>1 DEF Recovers
<1>4. CASE RecoverList(p) \/ MarkInterrupted(p)
  <2>1. rec' \in [Process -> ReadRecord]
    BY <1>3, <1>4 DEF RecoverList, MarkInterrupted
  <2>2. run' \in RunStatus
    BY <1>4 DEF RecoverList, MarkInterrupted, TypeOK, RunStatus, rows
  <2> QED BY <1>4, <2>1, <2>2 DEF RecoverList, MarkInterrupted, TypeOK, rows, bounds, ReadRecord
<1>5. CASE ReadPlan(p)
  <2>1. [at |-> "read", plan |-> plan] \in ReadRecord
    BY <1>0 DEF ReadRecord
  <2>2. rec' \in [Process -> ReadRecord]
    BY <1>0, <1>5, <2>1 DEF ReadPlan
  <2> QED BY <1>5, <2>2 DEF ReadPlan, TypeOK, rows, bounds, ReadRecord
<1>6. CASE RecoverPlan(p)
  <2>1. rec' \in [Process -> ReadRecord]
    BY <1>3, <1>6 DEF RecoverPlan
  <2>2. /\ worker' \in [Worker -> WorkerRecord] /\ current' \in [Process -> 0 .. MaxWorkers]
        /\ breach' \subseteq Breach /\ run' \in RunStatus
    <3>1. ASSUME NEW late, Launch(p, late), UNCHANGED run PROVE <2>2!:
      BY <3>1, LaunchType DEF TypeOK
    <3>2. ASSUME NEW late, Replace(p, "idle", FALSE), UNCHANGED run,
                 breach' = breach \cup IF late THEN {"late"} ELSE {}
          PROVE  <2>2!:
      BY <3>2, ReplaceType DEF TypeOK, At, Idle, Breach
    <3>3. ASSUME UNCHANGED <<current, worker, breach>>, run' \in {run, "rejected"}
          PROVE  <2>2!:
      BY <3>3 DEF TypeOK, WorkerRecord, RunStatus
    <3> QED BY <1>6, <3>1, <3>2, <3>3 DEF RecoverPlan
  <2> QED BY <1>6, <2>1, <2>2 DEF RecoverPlan, TypeOK, bounds, ReadRecord, WorkerRecord
<1>7. CASE RecoverySkips(p)
  <2>1. faults' \in 0 .. MaxFaults
    <3>1. faults \in 0 .. MaxFaults /\ faults < MaxFaults /\ faults' = faults + 1
      BY <1>7 DEF RecoverySkips, TypeOK
    <3> QED BY <3>1, CountUp, Bounds
  <2>2. rec' \in [Process -> ReadRecord] /\ breach' \subseteq Breach
    BY <1>3, <1>7 DEF RecoverySkips, TypeOK, Breach
  <2> QED BY <1>7, <2>1, <2>2 DEF RecoverySkips, TypeOK, rows, ReadRecord
<1> QED BY <1>1, <1>2, <1>4, <1>5, <1>6, <1>7 DEF Recover

\* Every step keeps the types.
LEMMA NextType == TypeOK /\ [Next]_vars => TypeOK'
<1> SUFFICES ASSUME TypeOK, [Next]_vars PROVE TypeOK'
  OBVIOUS
<1>1. CASE UNCHANGED vars
  BY <1>1 DEF vars, rows, bounds, TypeOK
<1> QED BY <1>1, HandlerTypes, RunTypes, ProcessTypes DEF Next

\* Whatever replicas and users there are, plans, runs, actions, positions,
\* registries and requests keep their types: no pass of the execution
\* leaves the plan a status of the run's, and no counter passes its bound.
THEOREM TypeCorrect == Spec => []TypeOK
  BY InitType, NextType, PTL DEF Spec

-----------------------------------------------------------------------------
(* The inductive invariant *)

\* It holds in the initial state.
LEMMA InitIInv == Init => IInv
<1> SUFFICES ASSUME Init PROVE IInv
  OBVIOUS
<1>1. TypeOK
  BY InitType
<1>2. /\ plan = "pending" /\ ~refused /\ Untouched
      /\ \A u \in User : job[u].at = "rest"
  BY DEF Init, NoJob, Untouched
<1>3. ASSUME NEW w \in Worker
      PROVE  /\ worker[w].stop = FALSE /\ worker[w].at \in {"waiting", "none"}
             /\ worker[w].at = "waiting" => w = 1
             /\ worker[w].done = {} /\ worker[w].verdict = "completed"
  <2>1. CASE w = 1
    <3>1. worker[w] = [NoWorker EXCEPT !.at = "waiting", !.knows = TRUE]
      BY <2>1 DEF Init
    <3> QED BY <2>1, <3>1 DEF NoWorker
  <2>2. CASE w # 1
    <3>1. worker[w] = NoWorker
      BY <2>2 DEF Init
    <3> QED BY <3>1 DEF NoWorker
  <2> QED BY <2>1, <2>2
<1>4. BegunIfStopped
  BY <1>3 DEF BegunIfStopped
<1>5. OneEngaged
  BY <1>3 DEF OneEngaged, Engaged, Idle, Executing
<1>6. DecidedIfCapable
  BY <1>3 DEF DecidedIfCapable, Capable, Executing
<1>7. Staged
  BY <1>2, <1>3 DEF Staged, Stage, Working, Idle
<1>8. RejectedStays /\ CompletedIsLate
  BY <1>2 DEF RejectedStays, CompletedIsLate
<1> QED BY <1>1, <1>4, <1>5, <1>6, <1>7, <1>8 DEF IInv

\* A run that works is engaged, and so is one that goes on to execute.
LEMMA AreEngaged ==
    ASSUME NEW w \in Worker
    PROVE  /\ Working(worker[w]) => Engaged(worker[w])
           /\ Capable(w) => Engaged(worker[w]) /\ Working(worker[w])
           /\ Working(worker[w])' => Engaged(worker[w])'
           /\ Capable(w)' => Engaged(worker[w])' /\ Working(worker[w])'
  BY DEF Working, Engaged, Capable, Idle, Executing

\* What has been noted stays noted.
LEMMA NotedStays ==
    ASSUME breach \subseteq breach'
    PROVE  /\ Clean' => Clean
           /\ Sound' => Sound
           /\ Clean \/ Sound => "beside" \notin breach
           /\ Clean' \/ Sound' => "beside" \notin breach'
           /\ "beside" \notin breach' => "beside" \notin breach
<1>1. Clean' => Clean
  BY DEF Clean
<1>2. Sound' => Sound
  BY DEF Sound
<1>3. /\ Clean \/ Sound => "beside" \notin breach
      /\ Clean' \/ Sound' => "beside" \notin breach'
  BY DEF Clean, Sound
<1> QED BY <1>1, <1>2, <1>3

\* A run is left alone, ends, is stopped, or is cancelled before it has begun.
Quietens(v) ==
    \/ worker'[v] = worker[v]
    \/ worker'[v].at \in Idle /\ ~worker'[v].stop
    \/ worker'[v].at = worker[v].at /\ worker'[v].stop /\ worker[v].at # "launched"
    \/ /\ worker[v].at = "launched" /\ worker'[v].at = "launched"
       /\ worker'[v].stop = worker[v].stop
       /\ worker'[v].done = worker[v].done /\ worker'[v].verdict = worker[v].verdict

\* Nobody begins to work, to execute or to trade by that.
LEMMA Quieted ==
    ASSUME TypeOK, NEW v \in Worker, Quietens(v)
    PROVE  /\ Working(worker[v])' => /\ Working(worker[v])
                                     /\ worker'[v].at = worker[v].at
           /\ Engaged(worker[v])' => Engaged(worker[v])
           /\ Capable(v)' => Capable(v)
<1>1. CASE worker'[v] = worker[v]
  BY <1>1 DEF Working, Engaged, Capable
<1>2. CASE worker'[v].at \in Idle /\ ~worker'[v].stop
  BY <1>2 DEF Working, Engaged, Capable, Idle, Executing
<1>3. CASE worker'[v].at = worker[v].at /\ worker'[v].stop /\ worker[v].at # "launched"
  BY <1>3 DEF Working, Engaged, Capable, Idle, Executing
<1>4. CASE /\ worker[v].at = "launched" /\ worker'[v].at = "launched"
           /\ worker'[v].stop = worker[v].stop
  BY <1>4 DEF Working, Engaged, Capable, Idle, Executing
<1> QED BY <1>1, <1>2, <1>3, <1>4 DEF Quietens

\* A step that leaves the books alone and lets nobody begin keeps the invariant,
\* as long as it does not complete the plan or take it from under a run or a rejection.
LEMMA Quiet ==
    ASSUME IInv, TypeOK', breach \subseteq breach',
           UNCHANGED <<status, trades, held>>,
           \A v \in Worker : Quietens(v),
           plan' = plan \/ plan' # "completed",
           Sound' /\ (\E v \in Worker : Capable(v)) => plan' \in Decided,
           RejectedStays'
    PROVE  IInv'
<1>1. TypeOK /\ BegunIfStopped /\ OneEngaged /\ DecidedIfCapable /\ Staged /\ CompletedIsLate
  BY DEF IInv
<1>2. BegunIfStopped'
  <2>1. ASSUME NEW v \in Worker, worker'[v].stop PROVE worker'[v].at # "launched"
    <3>1. worker[v].stop => worker[v].at # "launched"
      BY <1>1 DEF BegunIfStopped
    <3> QED BY <2>1, <3>1 DEF Quietens
  <2> QED BY <2>1 DEF BegunIfStopped
<1>3. OneEngaged'
  BY <1>1, Quieted, NotedStays DEF OneEngaged
<1>4. DecidedIfCapable'
  BY <1>1, Quieted, NotedStays DEF DecidedIfCapable
<1>5. Untouched' = Untouched /\ Journaled' = Journaled /\ Booked' = Booked
  BY DEF Untouched, Journaled, Booked
<1>6. Staged'
  <2> SUFFICES ASSUME Clean', NEW v \in Worker, Working(worker[v])'
               PROVE  Stage(worker[v])'
    BY DEF Staged
  <2>1. Working(worker[v]) /\ worker'[v].at = worker[v].at
    BY <1>1, Quieted
  <2>2. Stage(worker[v])
    BY <1>1, <2>1, NotedStays DEF Staged
  <2>3. CASE worker'[v] = worker[v]
    BY <1>5, <2>2, <2>3 DEF Stage
  <2>4. CASE /\ worker'[v].at = "launched" /\ worker[v].at = "launched"
             /\ worker'[v].done = worker[v].done /\ worker'[v].verdict = worker[v].verdict
    BY <1>5, <2>2, <2>4 DEF Stage
  <2>5. worker'[v].at \notin Idle /\ ~worker'[v].stop
    BY DEF Working
  <2> QED BY <2>3, <2>4, <2>5 DEF Quietens
<1>7. CompletedIsLate'
  <2> SUFFICES ASSUME Clean', plan' = "completed"
               PROVE  Booked' /\ \A w \in Worker :
                          Working(worker[w])' => worker'[w].at \notin Executing
    BY DEF CompletedIsLate
  <2>1. Booked /\ \A w \in Worker : Working(worker[w]) => worker[w].at \notin Executing
    BY <1>1, NotedStays DEF CompletedIsLate
  <2> QED BY <1>1, <1>5, <2>1, Quieted
<1> QED BY <1>2, <1>3, <1>4, <1>6, <1>7 DEF IInv

\* A step of a run that works keeps it if the books are as far as its new stage
\* says: nobody else works, unless one run was launched beside another.
LEMMA Works ==
    ASSUME IInv, TypeOK', breach \subseteq breach', NEW w \in Worker, Working(worker[w]),
           UNCHANGED <<job, refused>>,
           \A v \in Worker : v # w => worker'[v] = worker[v],
           ~worker'[w].stop,
           Clean => Stage(worker[w])',
           Clean /\ plan' = "completed" => Booked' /\ worker'[w].at \notin Executing,
           Sound /\ plan = "rejected" => plan' = "rejected",
           Sound /\ Capable(w)' => plan' \in Decided
    PROVE  IInv'
<1>1. TypeOK /\ BegunIfStopped /\ OneEngaged /\ RejectedStays
  BY DEF IInv
<1>2. ASSUME NEW v \in Worker, Engaged(worker[v])', "beside" \notin breach PROVE v = w
  <2>1. CASE v # w
    <3>1. Engaged(worker[v])
      BY <1>2, <2>1 DEF Engaged
    <3> QED BY <1>1, <1>2, <3>1, AreEngaged DEF OneEngaged
  <2> QED BY <2>1
<1>3. BegunIfStopped'
  BY <1>1 DEF BegunIfStopped
<1>4. OneEngaged'
  BY <1>2, NotedStays DEF OneEngaged
<1>5. DecidedIfCapable'
  BY <1>2, NotedStays, AreEngaged DEF DecidedIfCapable
<1>6. RejectedStays'
  BY <1>1, NotedStays DEF RejectedStays
<1>7. Staged'
  BY <1>2, NotedStays, AreEngaged DEF Staged
<1>8. CompletedIsLate'
  BY <1>2, NotedStays, AreEngaged DEF CompletedIsLate
<1> QED BY <1>3, <1>4, <1>5, <1>6, <1>7, <1>8 DEF IInv

\* A run that moves keeps all but its stage.
LEMMA Moved ==
    ASSUME TypeOK, NEW w \in Worker, NEW at \in At, Move(w, at), ~worker[w].stop
    PROVE  /\ \A v \in Worker : v # w => worker'[v] = worker[v]
           /\ worker'[w].at = at /\ ~worker'[w].stop
           /\ worker'[w].todo = worker[w].todo /\ worker'[w].done = worker[w].done
           /\ worker'[w].base = worker[w].base /\ worker'[w].verdict = worker[w].verdict
<1>1. worker'[w] = [worker[w] EXCEPT !.at = at] /\ worker[w] \in WorkerRecord
  BY MoveType, RecordOf
<1>2. \A v \in Worker : v # w => worker'[v] = worker[v]
  BY MoveType
<1> QED BY <1>1, <1>2 DEF WorkerRecord

\* While a run executes the plan is decided, and not complete.
LEMMA WhileExecuting ==
    ASSUME IInv, NEW w \in Worker, ~worker[w].stop,
           worker[w].at \in Executing \cup {"launched", "decided", "scheduled"}
    PROVE  /\ Working(worker[w]) /\ Capable(w)
           /\ Sound => plan \in Decided
           /\ Clean => Stage(worker[w])
           /\ Clean /\ worker[w].at \in Executing => plan # "completed"
<1>1. Working(worker[w]) /\ Capable(w)
  BY DEF Working, Capable, Idle, Executing
<1> QED BY <1>1 DEF IInv, DecidedIfCapable, Staged, CompletedIsLate
\* The steps of a run from its approval to the reading of the positions.
LEMMA EarlySteps ==
    ASSUME IInv, TypeOK', breach \subseteq breach', NEW w \in Worker,
           \/ (Decide(w) /\ Approved) \/ Mark(w) \/ SubmitForExecution(w)
           \/ LoadActions(w) \/ LoadPositions(w)
    PROVE  IInv'
<1>0. TypeOK /\ Staged /\ CompletedIsLate /\ worker[w] \in WorkerRecord
  BY RecordOf DEF IInv
<1>1. CASE Decide(w) /\ Approved
  <2>1. worker[w].at = "waiting" /\ ~worker[w].stop /\ Working(worker[w])
    BY <1>1 DEF Decide, Alive, Working, Idle
  <2>2. /\ Move(w, "decided") /\ plan \in Decided
        /\ UNCHANGED <<plan, run, status, trades, held, job, refused>>
    BY <1>1 DEF Decide, Approved
  <2>3. ASSUME Clean PROVE Stage(worker[w])'
    <3>1. Stage(worker[w]) /\ Untouched
      BY <1>0, <2>1, <2>3 DEF Staged, Stage
    <3>2. Untouched'
      BY <2>2, <3>1 DEF Untouched
    <3> QED BY <1>0, <2>1, <2>2, <3>1, <3>2, Moved DEF Stage, At
  <2>4. worker'[w].at = "decided" /\ ~worker'[w].stop
        /\ \A v \in Worker : v # w => worker'[v] = worker[v]
    BY <1>0, <2>1, <2>2, Moved DEF At
  <2>5. Clean /\ plan' = "completed" => Booked'
    BY <1>0, <2>2 DEF CompletedIsLate, Booked, Journaled
  <2>6. "decided" \notin Executing /\ "rejected" \notin Decided
    BY DEF Executing, Decided
  <2> QED BY <2>1, <2>2, <2>3, <2>4, <2>5, <2>6, Works
<1>2. CASE Mark(w)
  <2>1. /\ worker[w].at \in {"decided", "launched"} /\ ~worker[w].stop
        /\ UNCHANGED <<plan, status, trades, held, job, refused>>
        /\ worker' = [worker EXCEPT ![w] = [@ EXCEPT !.at = "scheduled", !.state = "running"]]
    BY <1>2 DEF Mark, Alive
  <2>2. /\ Working(worker[w]) /\ (Sound => plan \in Decided)
        /\ Clean => Stage(worker[w])
    BY <2>1, WhileExecuting
  <2>3. [worker[w] EXCEPT !.at = "scheduled", !.state = "running"] \in WorkerRecord
    BY <1>0 DEF WorkerRecord, At, RunStatus
  <2>4. /\ worker'[w] = [worker[w] EXCEPT !.at = "scheduled", !.state = "running"]
        /\ \A v \in Worker : v # w => worker'[v] = worker[v]
    BY <1>0, <2>1, <2>3, WorkerType
  <2>5. /\ worker'[w].at = "scheduled" /\ worker'[w].stop = worker[w].stop
        /\ worker'[w].done = worker[w].done /\ worker'[w].verdict = worker[w].verdict
    BY <1>0, <2>4 DEF WorkerRecord
  <2>6. ASSUME Clean PROVE Stage(worker[w])'
    <3>1. Stage(worker[w]) /\ Untouched
      BY <2>1, <2>2, <2>6 DEF Stage
    <3>2. Untouched'
      BY <2>1, <3>1 DEF Untouched
    <3> QED BY <2>1, <2>5, <3>1, <3>2 DEF Stage
  <2>7. Clean /\ plan' = "completed" => Booked'
    BY <1>0, <2>1 DEF CompletedIsLate, Booked, Journaled
  <2>8. "scheduled" \notin Executing /\ "rejected" \notin Decided
    BY DEF Executing, Decided
  <2> QED BY <2>1, <2>2, <2>4, <2>5, <2>6, <2>7, <2>8, Works
<1>3. CASE SubmitForExecution(w)
  <2>1. /\ worker[w].at = "scheduled" /\ ~worker[w].stop
        /\ UNCHANGED <<status, trades, held, job, refused>>
        /\ plan' = "executing" /\ Move(w, "loading")
    BY <1>3 DEF SubmitForExecution, Alive
  <2>2. /\ Working(worker[w]) /\ (Sound => plan \in Decided)
        /\ Clean => Stage(worker[w])
    BY <2>1, WhileExecuting
  <2>3. ASSUME Clean PROVE Stage(worker[w])'
    <3>1. Stage(worker[w]) /\ Untouched
      BY <2>1, <2>2, <2>3 DEF Stage
    <3>2. Untouched'
      BY <2>1, <3>1 DEF Untouched
    <3> QED BY <1>0, <2>1, <3>1, <3>2, Moved DEF Stage, At, Executing
  <2>4. ~worker'[w].stop /\ \A v \in Worker : v # w => worker'[v] = worker[v]
    BY <1>0, <2>1, Moved DEF At, Executing
  <2>5. "rejected" \notin Decided /\ "executing" \in Decided
    BY DEF Decided
  <2> QED BY <2>1, <2>2, <2>3, <2>4, <2>5, Works
<1>4. CASE LoadActions(w)
  <2> DEFINE new == [worker[w] EXCEPT !.at = "reading",
                                      !.todo = {a \in Action : status[a] = "pending"}]
  <2>1. /\ worker[w].at = "loading" /\ ~worker[w].stop
        /\ UNCHANGED <<plan, status, trades, held, job, refused>>
        /\ worker' = [worker EXCEPT ![w] = new]
    BY <1>4 DEF LoadActions, Alive, rows
  <2>2. /\ Working(worker[w]) /\ (Sound => plan \in Decided)
        /\ Clean => Stage(worker[w]) /\ plan # "completed"
    BY <2>1, WhileExecuting DEF Executing
  <2>3. new \in WorkerRecord
    BY <1>0 DEF WorkerRecord, At, Executing
  <2>4. worker'[w] = new /\ \A v \in Worker : v # w => worker'[v] = worker[v]
    BY <1>0, <2>1, <2>3, WorkerType
  <2>5. /\ worker'[w].at = "reading" /\ worker'[w].stop = worker[w].stop
        /\ worker'[w].done = worker[w].done /\ worker'[w].verdict = worker[w].verdict
    BY <1>0, <2>4 DEF WorkerRecord
  <2>6. ASSUME Clean PROVE Stage(worker[w])'
    <3>1. Stage(worker[w]) /\ Untouched
      BY <2>1, <2>2, <2>6 DEF Stage
    <3>2. Untouched'
      BY <2>1, <3>1 DEF Untouched
    <3> QED BY <2>1, <2>5, <3>1, <3>2 DEF Stage
  <2> HIDE DEF new
  <2> QED BY <2>1, <2>2, <2>4, <2>5, <2>6, Works
<1>5. CASE LoadPositions(w)
  <2> DEFINE new == [worker[w] EXCEPT !.at = "trading", !.base = held]
  <2>1. /\ worker[w].at = "reading" /\ ~worker[w].stop
        /\ UNCHANGED <<plan, status, trades, held, job, refused>>
        /\ worker' = [worker EXCEPT ![w] = new]
    BY <1>5 DEF LoadPositions, Alive, rows
  <2>2. /\ Working(worker[w]) /\ (Sound => plan \in Decided)
        /\ Clean => Stage(worker[w]) /\ plan # "completed"
    BY <2>1, WhileExecuting DEF Executing
  <2>3. new \in WorkerRecord
    BY <1>0 DEF WorkerRecord, At, Executing, TypeOK
  <2>4. worker'[w] = new /\ \A v \in Worker : v # w => worker'[v] = worker[v]
    BY <1>0, <2>1, <2>3, WorkerType
  <2>5. /\ worker'[w].at = "trading" /\ worker'[w].stop = worker[w].stop
        /\ worker'[w].done = worker[w].done /\ worker'[w].verdict = worker[w].verdict
        /\ worker'[w].base = held
    BY <1>0, <2>4 DEF WorkerRecord
  <2>6. ASSUME Clean PROVE Stage(worker[w])'
    <3>1. Untouched /\ worker[w].done = {} /\ worker[w].verdict = "completed"
      BY <2>1, <2>2, <2>6 DEF Stage
    <3> QED BY <2>1, <2>5, <3>1 DEF Stage, Untouched
  <2> HIDE DEF new
  <2> QED BY <2>1, <2>2, <2>4, <2>5, <2>6, Works
<1> QED BY <1>1, <1>2, <1>3, <1>4, <1>5

\* The trades, and what ends them.
LEMMA TradingSteps ==
    ASSUME IInv, TypeOK', breach \subseteq breach', NEW w \in Worker,
           \/ \E a \in Action : Fill(w, a) \/ Refuse(w, a)
           \/ Bounce(w) \/ AllDone(w)
    PROVE  IInv'
<1>0. TypeOK /\ worker[w] \in WorkerRecord
  BY RecordOf DEF IInv
<1>1. /\ worker[w].at = "trading" /\ ~worker[w].stop
      /\ UNCHANGED <<plan, status, held, job, refused>>
  BY DEF Fill, Refuse, Bounce, AllDone, Alive, rows
<1>2. /\ Working(worker[w]) /\ (Sound => plan \in Decided)
      /\ Clean => Stage(worker[w]) /\ plan # "completed"
  BY <1>1, WhileExecuting DEF Executing
<1>3. Clean =>
        /\ worker[w].done = trades /\ worker[w].verdict = "completed"
        /\ \A a \in Action : held[a] = 0 /\ status[a] = "pending" /\ worker[w].base[a] = 0
  BY <1>1, <1>2 DEF Stage
<1>4. ASSUME NEW new \in WorkerRecord, worker' = [worker EXCEPT ![w] = new],
             new.at \in {"trading", "syncing"}, new.stop = worker[w].stop,
             new.base = worker[w].base, Clean => new.done = trades',
             Clean /\ new.at = "trading" => new.verdict = "completed",
             new.at = "syncing" /\ new.verdict = "completed" => new.todo = {}
      PROVE  IInv'
  <2>1. worker'[w] = new /\ \A v \in Worker : v # w => worker'[v] = worker[v]
    BY <1>0, <1>4, WorkerType
  <2>2. Clean => Stage(worker[w])'
    BY <1>1, <1>3, <1>4, <2>1 DEF Stage
  <2> QED BY <1>1, <1>2, <1>4, <2>1, <2>2, Works
<1>5. ASSUME NEW a \in Action, Fill(w, a) PROVE IInv'
  <2> DEFINE new == [worker[w] EXCEPT !.todo = worker[w].todo \ {a},
                                      !.done = worker[w].done \cup {a}]
  <2>1. new \in WorkerRecord
    BY <1>0 DEF WorkerRecord
  <2>2. /\ new.at = "trading" /\ new.verdict = worker[w].verdict
        /\ new.stop = worker[w].stop /\ new.base = worker[w].base
        /\ new.done = worker[w].done \cup {a}
    BY <1>0, <1>1 DEF WorkerRecord
  <2>3. worker' = [worker EXCEPT ![w] = new] /\ trades' = trades \cup {a}
    BY <1>5 DEF Fill
  <2> HIDE DEF new
  <2> QED BY <1>3, <1>4, <2>1, <2>2, <2>3
<1>6. ASSUME NEW a \in Action, Refuse(w, a) PROVE IInv'
  <2> DEFINE new == [worker[w] EXCEPT !.at = "syncing", !.verdict = "rejected", !.todo = {a}]
  <2>1. new \in WorkerRecord
    BY <1>0 DEF WorkerRecord, At, Executing
  <2>2. /\ new.at = "syncing" /\ new.verdict = "rejected"
        /\ new.stop = worker[w].stop /\ new.base = worker[w].base
        /\ new.done = worker[w].done
    BY <1>0 DEF WorkerRecord
  <2>3. worker' = [worker EXCEPT ![w] = new] /\ trades' = trades
    BY <1>6 DEF Refuse, rows
  <2> HIDE DEF new
  <2> QED BY <1>3, <1>4, <2>1, <2>2, <2>3
<1>7. CASE Bounce(w)
  <2> DEFINE new == [worker[w] EXCEPT !.at = "syncing", !.verdict = "pending", !.todo = {}]
  <2>1. new \in WorkerRecord
    BY <1>0 DEF WorkerRecord, At, Executing
  <2>2. /\ new.at = "syncing" /\ new.verdict = "pending"
        /\ new.stop = worker[w].stop /\ new.base = worker[w].base
        /\ new.done = worker[w].done
    BY <1>0 DEF WorkerRecord
  <2>3. worker' = [worker EXCEPT ![w] = new] /\ trades' = trades
    BY <1>7 DEF Bounce, rows
  <2> HIDE DEF new
  <2> QED BY <1>3, <1>4, <2>1, <2>2, <2>3
<1>8. CASE AllDone(w)
  <2> DEFINE new == [worker[w] EXCEPT !.at = "syncing"]
  <2>1. new \in WorkerRecord
    BY <1>0 DEF WorkerRecord, At, Executing
  <2>2. /\ new.at = "syncing"
        /\ new.stop = worker[w].stop /\ new.base = worker[w].base
        /\ new.done = worker[w].done /\ new.todo = worker[w].todo
    BY <1>0 DEF WorkerRecord
  <2>3. /\ worker'[w] = new /\ worker' \in [Worker -> WorkerRecord]
        /\ \A v \in Worker : v # w => worker'[v] = worker[v]
    BY <1>0, <1>8, MoveType DEF AllDone, At, Executing
  <2>4. worker' = [worker EXCEPT ![w] = new]
    BY <1>0, <2>3 DEF TypeOK
  <2>5. worker[w].todo = {} /\ trades' = trades
    BY <1>8 DEF AllDone, rows
  <2> HIDE DEF new
  <2> QED BY <1>3, <1>4, <2>1, <2>2, <2>4, <2>5
<1> QED BY <1>5, <1>6, <1>7, <1>8

\* The books: statuses, positions and the verdict; or none of the rest.
LEMMA BookSteps ==
    ASSUME IInv, TypeOK', breach \subseteq breach', NEW w \in Worker,
           Sync(w) \/ Wipe(w) \/ Save(w) \/ Finish(w) \/ Abandon(w)
    PROVE  IInv'
<1>0. TypeOK /\ worker[w] \in WorkerRecord
  BY RecordOf DEF IInv
<1>1. /\ worker[w].at \in Executing \cup {"scheduled"} /\ ~worker[w].stop
      /\ UNCHANGED <<trades, job, refused>>
  BY DEF Sync, Wipe, Save, Finish, Abandon, Alive, Executing, rows
<1>2. /\ Working(worker[w]) /\ (Sound => plan \in Decided)
      /\ Clean => Stage(worker[w])
      /\ Clean /\ worker[w].at \in Executing => plan # "completed"
  BY <1>1, WhileExecuting
<1>3. "rejected" \notin Decided
  BY DEF Decided
<1>4. ASSUME NEW at \in At, Move(w, at), Clean => Stage(worker[w])',
             UNCHANGED plan, worker[w].at \in Executing
      PROVE  IInv'
  <2>1. ~worker'[w].stop /\ \A v \in Worker : v # w => worker'[v] = worker[v]
    BY <1>0, <1>1, <1>4, Moved
  <2> QED BY <1>1, <1>2, <1>3, <1>4, <2>1, Works
<1>5. CASE Sync(w)
  <2> DEFINE at == IF worker[w].verdict = "rejected" THEN "finishing" ELSE "wiping"
  <2>1. /\ worker[w].at = "syncing" /\ Move(w, at) /\ UNCHANGED <<plan, held>>
        /\ status' = [a \in Action |-> IF a \in worker[w].done THEN "filled"
                                       ELSE IF a \in worker[w].todo THEN "rejected"
                                       ELSE status[a]]
    BY <1>5 DEF Sync, Alive
  <2>2. at \in At /\ at \in {"finishing", "wiping"} /\ "syncing" \in Executing
    BY DEF At, Executing
  <2>3. ASSUME Clean PROVE Stage(worker[w])'
    <3>1. /\ worker[w].done = trades /\ worker[w].verdict \in {"completed", "pending", "rejected"}
          /\ \A a \in Action : status[a] = "pending" /\ worker[w].base[a] = 0
          /\ worker[w].verdict = "completed" => worker[w].todo = {}
      BY <1>0, <1>2, <2>1, <2>3 DEF Stage, WorkerRecord
    <3>2. worker[w].verdict = "completed" => at = "wiping" /\ Journaled'
      BY <1>1, <2>1, <3>1 DEF Journaled
    <3>3. /\ worker'[w].at = at /\ worker'[w].done = worker[w].done
          /\ worker'[w].base = worker[w].base /\ worker'[w].verdict = worker[w].verdict
      BY <1>0, <1>1, <2>1, <2>2, Moved
    <3> QED BY <1>1, <2>2, <3>1, <3>2, <3>3 DEF Stage
  <2> QED BY <1>4, <2>1, <2>2, <2>3
<1>6. CASE Wipe(w)
  <2>1. worker[w].at = "wiping" /\ Move(w, "saving") /\ UNCHANGED <<plan, status>>
    BY <1>6 DEF Wipe, Alive
  <2>2. "saving" \in At /\ "wiping" \in Executing
    BY DEF At, Executing
  <2>3. /\ worker'[w].at = "saving" /\ worker'[w].done = worker[w].done
        /\ worker'[w].base = worker[w].base /\ worker'[w].verdict = worker[w].verdict
    BY <1>0, <1>1, <2>1, <2>2, Moved
  <2>4. Clean => Stage(worker[w])'
    BY <1>1, <1>2, <2>1, <2>3 DEF Stage, Journaled
  <2> QED BY <1>4, <2>1, <2>2, <2>4
<1>7. CASE Save(w)
  <2>1. /\ worker[w].at = "saving" /\ Move(w, "finishing") /\ UNCHANGED <<plan, status>>
        /\ held' = [a \in Action |-> worker[w].base[a] + IF a \in worker[w].done THEN 1 ELSE 0]
    BY <1>7 DEF Save, Alive
  <2>2. "finishing" \in At /\ "saving" \in Executing
    BY DEF At, Executing
  <2>3. worker'[w].at = "finishing" /\ worker'[w].verdict = worker[w].verdict
    BY <1>0, <1>1, <2>1, <2>2, Moved
  <2>4. ASSUME Clean, worker[w].verdict = "completed" PROVE Booked'
    <3>1. worker[w].done = trades /\ Journaled /\ \A a \in Action : worker[w].base[a] = 0
      BY <1>2, <2>1, <2>4 DEF Stage
    <3>2. \A a \in Action : held'[a] = IF a \in trades THEN 1 ELSE 0
      BY <2>1, <3>1
    <3> QED BY <1>1, <2>1, <3>1, <3>2 DEF Booked, Journaled
  <2>5. Clean => Stage(worker[w])'
    BY <2>3, <2>4 DEF Stage
  <2> QED BY <1>4, <2>1, <2>2, <2>5
<1>8. CASE Finish(w)
  <2>1. /\ worker[w].at = "finishing" /\ Return(w) /\ UNCHANGED <<status, held>>
        /\ plan' = worker[w].verdict
    BY <1>8 DEF Finish, Alive
  <2>2. /\ worker'[w].at = "closing" /\ ~worker'[w].stop
        /\ \A v \in Worker : v # w => worker'[v] = worker[v]
    BY <1>0, <2>1, ReturnType
  <2>3. Clean /\ plan' = "completed" => Booked'
    BY <1>1, <1>2, <2>1 DEF Stage, Booked, Journaled
  <2>4. Stage(worker[w])' /\ "closing" \notin Executing
    BY <2>2 DEF Stage, Executing
  <2>5. ~Capable(w)'
    BY <2>2 DEF Capable, Executing
  <2> QED BY <1>1, <1>2, <1>3, <2>2, <2>3, <2>4, <2>5, Works
<1>9. CASE Abandon(w)
  <2>1. Return(w) /\ UNCHANGED <<plan, status, held>>
    BY <1>9 DEF Abandon, rows
  <2>2. /\ worker'[w].at = "closing" /\ ~worker'[w].stop
        /\ \A v \in Worker : v # w => worker'[v] = worker[v]
    BY <1>0, <2>1, ReturnType
  <2>3. Clean /\ plan' = "completed" => Booked'
    BY <1>1, <2>1 DEF IInv, CompletedIsLate, Booked, Journaled
  <2>4. Stage(worker[w])' /\ "closing" \notin Executing
    BY <2>2 DEF Stage, Executing
  <2>5. ~Capable(w)'
    BY <2>2 DEF Capable, Executing
  <2> QED BY <1>1, <1>2, <1>3, <2>1, <2>2, <2>3, <2>4, <2>5, Works
<1> QED BY <1>5, <1>6, <1>7, <1>8, <1>9

\* A run that ends leaves nothing behind but its entry in the registry.
LEMMA OverEnds ==
    ASSUME TypeOK, NEW w \in Worker, NEW state \in RunStatus, Over(w, state)
    PROVE  \A v \in Worker : Quietens(v)
<1> DEFINE over == [NoWorker EXCEPT !.proc = worker[w].proc, !.at = "over", !.state = state,
                                    !.knows = worker[w].knows]
<1>1. over.at = "over" /\ over.stop = FALSE /\ NoWorker.at = "none" /\ NoWorker.stop = FALSE
  BY DEF NoWorker
<1> HIDE DEF over
<1>2. \A v \in Worker : v # w => worker'[v] = worker[v]
  BY DEF Over, TypeOK
<1>3. worker'[w] \in {over, NoWorker}
  BY DEF Over, TypeOK, over
<1> QED BY <1>1, <1>2, <1>3 DEF Quietens, Idle

\* The steps that end a run.
LEMMA EndSteps ==
    ASSUME IInv, TypeOK', breach \subseteq breach', NEW w \in Worker,
           Quit(w) \/ (Decide(w) /\ ~Approved) \/ PollFails(w) \/ Overdue(w) \/ Close(w)
    PROVE  IInv'
<1>1. PICK state \in RunStatus : Over(w, state)
  <2>1. worker[w].state \in RunStatus
    BY RecordOf DEF IInv, WorkerRecord
  <2> QED BY <2>1 DEF Quit, Decide, PollFails, Overdue, Close, RunStatus
<1>2. UNCHANGED <<plan, status, trades, held, job, refused>>
  BY DEF Quit, Decide, PollFails, Overdue, Close
<1>3. \A v \in Worker : Quietens(v)
  BY <1>1, OverEnds DEF IInv
<1>4. RejectedStays' /\ (Sound' /\ (\E v \in Worker : Capable(v)) => plan' \in Decided)
  BY <1>2, NotedStays DEF IInv, RejectedStays, DecidedIfCapable
<1> QED BY <1>2, <1>3, <1>4, Quiet

\* A cancelled run of the registry is stopped, gone, or has not begun.
LEMMA StoppedQuietens ==
    ASSUME IInv, NEW p, NEW v \in Worker, worker'[v] = Stopped(p)[v]
    PROVE  Quietens(v)
<1>1. worker[v] \in WorkerRecord /\ (worker[v].stop => worker[v].at # "launched")
  BY RecordOf DEF IInv, BegunIfStopped
<1>2. NoWorker.at \in Idle /\ NoWorker.stop = FALSE
  BY DEF NoWorker, Idle
<1>3. CASE current[p] # v
  BY <1>3 DEF Stopped, Quietens
<1>4. CASE current[p] = v /\ worker[v].at \in Idle
  BY <1>2, <1>4 DEF Stopped, Quietens
<1>5. CASE current[p] = v /\ worker[v].at \notin Idle
  <2>1. worker'[v] = [worker[v] EXCEPT !.state = "cancelled",
                                       !.stop = worker[v].at # "launched"]
    BY <1>5 DEF Stopped
  <2>2. /\ worker'[v].at = worker[v].at
        /\ worker'[v].stop = (worker[v].at # "launched")
        /\ worker'[v].done = worker[v].done /\ worker'[v].verdict = worker[v].verdict
    BY <1>1, <2>1 DEF WorkerRecord
  <2>3. CASE worker[v].at = "launched"
    <3>1. worker'[v].stop = FALSE /\ worker[v].stop = FALSE
      BY <1>1, <2>2, <2>3 DEF WorkerRecord
    <3> QED BY <2>2, <2>3, <3>1 DEF Quietens
  <2>4. CASE worker[v].at # "launched"
    BY <2>2, <2>4 DEF Quietens
  <2> QED BY <2>3, <2>4
<1> QED BY <1>3, <1>4, <1>5

\* A run put into the registry is new, and the others do not begin by that.
LEMMA Replaced ==
    ASSUME IInv, NEW p \in Process, NEW at, NEW knows,
           Replace(p, at, knows)
    PROVE  \E w \in Worker :
              /\ current'[p] = w
              /\ worker'[w].at = at /\ ~worker'[w].stop
              /\ worker'[w].done = {} /\ worker'[w].verdict = "completed"
              /\ \A v \in Worker : v # w => Quietens(v)
<1> PICK w \in Fresh :
        /\ worker' = [Stopped(p) EXCEPT ![w] = [NoWorker EXCEPT !.proc = p, !.at = at,
                                                                !.knows = knows]]
        /\ current' = [current EXCEPT ![p] = w]
  BY DEF Replace
<1> DEFINE new == [NoWorker EXCEPT !.proc = p, !.at = at, !.knows = knows]
<1>1. w \in Worker /\ TypeOK
  BY DEF Fresh, Unused, IInv
<1>2. worker'[w] = new /\ \A v \in Worker : v # w => worker'[v] = Stopped(p)[v]
  BY <1>1, StoppedType
<1>3. new.at = at /\ new.stop = FALSE /\ new.done = {} /\ new.verdict = "completed"
  BY DEF NoWorker
<1>4. current'[p] = w
  BY <1>1 DEF TypeOK
<1> HIDE DEF new
<1> QED BY <1>1, <1>2, <1>3, <1>4, StoppedQuietens

\* A run launched on the row and the plan as they are, over untouched books and
\* beside nobody, keeps the invariant; the others are noted.
LEMMA Launches ==
    ASSUME IInv, TypeOK', breach \subseteq breach', NEW p \in Process, NEW late,
           Launch(p, late), ~late => run = "paused" /\ plan \in Decided,
           UNCHANGED <<plan, status, trades, held, refused>>,
           RejectedStays'
    PROVE  IInv'
<1>0. TypeOK /\ BegunIfStopped /\ CompletedIsLate
  BY DEF IInv
<1> PICK w \in Worker :
        /\ current'[p] = w
        /\ worker'[w].at = "launched" /\ ~worker'[w].stop
        /\ worker'[w].done = {} /\ worker'[w].verdict = "completed"
        /\ \A v \in Worker : v # w => Quietens(v)
  BY Replaced DEF Launch, At
<1>1. ASSUME "beside" \notin breach', NEW v \in Worker, v # w PROVE ~Engaged(worker[v])'
  BY <1>1 DEF Launch
<1>2. ASSUME "late" \notin breach' PROVE run = "paused" /\ plan \in Decided
  BY <1>2 DEF Launch
<1>3. ASSUME "late" \notin breach', "unsaved" \notin breach' PROVE Untouched
  BY <1>2, <1>3 DEF Launch
<1>4. BegunIfStopped'
  <2>1. ASSUME NEW v \in Worker, worker'[v].stop PROVE worker'[v].at # "launched"
    <3>1. worker[v].stop => worker[v].at # "launched"
      BY <1>0 DEF BegunIfStopped
    <3> QED BY <2>1, <3>1 DEF Quietens
  <2> QED BY <2>1 DEF BegunIfStopped
<1>5. OneEngaged'
  BY <1>1 DEF OneEngaged
<1>6. DecidedIfCapable'
  <2>1. Sound' => "late" \notin breach'
    BY DEF Sound
  <2> QED BY <1>2, <2>1 DEF DecidedIfCapable
<1>7. Staged'
  <2> SUFFICES ASSUME Clean', NEW v \in Worker, Working(worker[v])'
               PROVE  Stage(worker[v])'
    BY DEF Staged
  <2>1. "late" \notin breach' /\ "unsaved" \notin breach' /\ "beside" \notin breach'
    BY DEF Clean
  <2>2. v = w
    BY <1>1, <2>1, AreEngaged
  <2>3. Untouched'
    BY <1>3, <2>1 DEF Untouched
  <2> QED BY <2>2, <2>3 DEF Stage
<1>8. CompletedIsLate'
  <2> SUFFICES ASSUME Clean', plan' = "completed"
               PROVE  Booked' /\ \A v \in Worker :
                          Working(worker[v])' => worker'[v].at \notin Executing
    BY DEF CompletedIsLate
  <2>1. Booked'
    BY <1>0, NotedStays DEF CompletedIsLate, Booked, Journaled
  <2>2. \A v \in Worker : Working(worker[v])' => v = w
    BY <1>1, AreEngaged DEF Clean
  <2> QED BY <2>1, <2>2 DEF Executing
<1> QED BY <1>4, <1>5, <1>6, <1>7, <1>8 DEF IInv

\* What the write of a decision says of the one before.
LEMMA Uncontested ==
    ASSUME NEW s, Contested(s), Sound'
    PROVE  plan \in {"pending", s}
  BY DEF Contested, Sound

\* The steps of a handler, but for the resume's launch.
LEMMA WriteSteps ==
    ASSUME IInv, TypeOK', breach \subseteq breach', NEW u \in User,
           \/ \E p \in Process : Approve(u, p) \/ Reject(u, p)
           \/ WriteApproved(u) \/ Resume(u) \/ Undo(u)
           \/ WriteRejected(u) \/ CancelAwaiting(u) \/ SaveRejected(u) \/ Fails(u)
    PROVE  IInv'
<1>0. TypeOK /\ RejectedStays /\ DecidedIfCapable
  BY DEF IInv
<1>1. UNCHANGED <<status, trades, held>>
  BY DEF Approve, Reject, WriteApproved, Resume, Undo, WriteRejected, CancelAwaiting,
         SaveRejected, Fails, rows
<1>2. \A v \in Worker : Quietens(v)
  <2>1. CASE UNCHANGED worker
    BY <2>1 DEF Quietens
  <2>2. CASE worker' = Stopped(job[u].proc)
    BY <2>2, StoppedQuietens
  <2> QED BY <2>1, <2>2 DEF Approve, Reject, WriteApproved, Resume, Undo, WriteRejected,
                           CancelAwaiting, SaveRejected, Fails
<1>3. /\ "approved" \in Decided /\ "pending" \notin Decided /\ "rejected" \notin Decided
  BY DEF Decided
<1>4. \A v \in User : v # u => job'[v] = job[v]
  <2>1. CASE \E p \in Process : Approve(u, p) \/ Reject(u, p)
    BY <1>0, <2>1 DEF Approve, Reject, TypeOK
  <2> QED BY <1>0, <2>1, GotoType DEF WriteApproved, Resume, Undo, WriteRejected,
                                 CancelAwaiting, SaveRejected, Fails
<1>5. ASSUME plan' = plan, UNCHANGED refused, job'[u].at \notin {"cancelling", "saving"}
      PROVE  IInv'
  <2>1. RejectedStays'
    BY <1>0, <1>4, <1>5, NotedStays DEF RejectedStays
  <2>2. Sound' /\ (\E v \in Worker : Capable(v)) => plan' \in Decided
    BY <1>0, <1>5, NotedStays DEF DecidedIfCapable
  <2> QED BY <1>1, <1>2, <1>5, <2>1, <2>2, Quiet
<1>6. ASSUME plan' = "approved", UNCHANGED refused, job'[u].at \notin {"cancelling", "saving"},
             Sound' => plan \in {"pending", "approved"}
      PROVE  IInv'
  <2>1. RejectedStays'
    BY <1>0, <1>4, <1>6, NotedStays DEF RejectedStays
  <2> QED BY <1>1, <1>2, <1>3, <1>6, <2>1, Quiet
<1>7. ASSUME plan' = "rejected", Sound' => plan \in {"pending", "rejected"}
      PROVE  IInv'
  <2>1. RejectedStays'
    BY <1>7 DEF RejectedStays
  <2>2. Sound' => ~\E v \in Worker : Capable(v)
    BY <1>0, <1>3, <1>7, NotedStays DEF DecidedIfCapable
  <2> QED BY <1>1, <1>2, <1>7, <2>1, <2>2, Quiet
<1>8. ASSUME plan' = plan, job[u].at \in {"cancelling", "saving"}
      PROVE  IInv'
  <2>1. Sound' => plan = "rejected"
    BY <1>0, <1>8, NotedStays DEF RejectedStays
  <2>2. RejectedStays' /\ (Sound' /\ (\E v \in Worker : Capable(v)) => plan' \in Decided)
    BY <1>0, <1>8, <2>1, NotedStays DEF RejectedStays, DecidedIfCapable
  <2> QED BY <1>1, <1>2, <1>8, <2>2, Quiet
<1>9. CASE \E p \in Process : Approve(u, p) \/ Reject(u, p)
  <2>1. job'[u].at \in {"approving", "rejecting"} /\ plan' = plan /\ UNCHANGED refused
    BY <1>0, <1>9 DEF Approve, Reject, TypeOK, rows
  <2> QED BY <1>5, <2>1
<1>10. CASE WriteApproved(u)
  <2>1. job'[u].at = "resuming" /\ plan' = "approved" /\ UNCHANGED refused
    BY <1>0, <1>10, GotoType DEF WriteApproved
  <2>2. Sound' => plan \in {"pending", "approved"}
    BY <1>10, Uncontested DEF WriteApproved
  <2> QED BY <1>6, <2>1, <2>2
<1>11. CASE Resume(u)
  <2>1. job'[u].at \in {"undoing", "rest", "taking"} /\ plan' = plan /\ UNCHANGED refused
    BY <1>0, <1>11, GotoType DEF Resume, rows
  <2> QED BY <1>5, <2>1
<1>12. CASE Undo(u)
  <2>1. job'[u].at = "rest" /\ plan' = "pending" /\ UNCHANGED refused
    BY <1>0, <1>12, GotoType DEF Undo
  <2>2. Sound' => plan = "approved" /\ ~\E v \in Worker : Capable(v)
    BY <1>12 DEF Undo, Sound
  <2>3. RejectedStays'
    BY <1>0, <1>4, <2>1, <2>2, NotedStays DEF RejectedStays
  <2> QED BY <1>1, <1>2, <2>1, <2>2, <2>3, Quiet
<1>13. CASE WriteRejected(u)
  <2>1. plan' = "rejected" /\ (Sound' => plan \in {"pending", "rejected"})
    BY <1>13, Uncontested DEF WriteRejected
  <2> QED BY <1>7, <2>1
<1>14. CASE CancelAwaiting(u) \/ SaveRejected(u)
  <2>1. job[u].at \in {"cancelling", "saving"} /\ plan' = plan
    BY <1>14 DEF CancelAwaiting, SaveRejected, rows
  <2> QED BY <1>8, <2>1
<1>15. CASE Fails(u)
  <2>1. job'[u].at \in {"rest", "undoing"} /\ UNCHANGED refused
    BY <1>0, <1>15, GotoType DEF Fails
  <2>2. \/ plan' = plan
        \/ plan' = "approved" /\ (Sound' => plan \in {"pending", "approved"})
        \/ plan' = "rejected" /\ (Sound' => plan \in {"pending", "rejected"})
    BY <1>15, Uncontested DEF Fails, Sound
  <2> QED BY <1>5, <1>6, <1>7, <2>1, <2>2
<1> QED BY <1>9, <1>10, <1>11, <1>12, <1>13, <1>14, <1>15

\* The resume takes the run's place.
LEMMA TakeStep ==
    ASSUME IInv, TypeOK', breach \subseteq breach', NEW u \in User, Take(u)
    PROVE  IInv'
<1>1. TypeOK /\ job[u].proc \in Process
  BY DEF IInv, TypeOK
<1>2. /\ Launch(job[u].proc, run # "paused" \/ plan \notin Decided)
      /\ UNCHANGED <<plan, status, trades, held, refused>>
  BY DEF Take, rows
<1>3. job'[u].at = "rest" /\ \A v \in User : v # u => job'[v] = job[v]
  BY <1>1, GotoType DEF Take
<1>4. RejectedStays'
  BY <1>2, <1>3, NotedStays DEF IInv, RejectedStays
<1> QED BY <1>1, <1>2, <1>4, Launches

\* A crash, a restart and a recovery.
LEMMA ProcessSteps ==
    ASSUME IInv, TypeOK', breach \subseteq breach', NEW p \in Process,
           Crash(p) \/ Restart(p) \/ Recover(p) \/ RecoverySkips(p)
    PROVE  IInv'
<1>0. TypeOK /\ RejectedStays /\ DecidedIfCapable
  BY DEF IInv
<1>1. UNCHANGED <<plan, status, trades, held, refused>>
  BY DEF Crash, Restart, Recover, RecoverList, MarkInterrupted, ReadPlan, RecoverPlan,
         RecoverySkips, rows
<1>2. \A u \in User : job'[u].at \in {"cancelling", "saving"} => job'[u].at = job[u].at
  <2>1. CASE UNCHANGED job
    BY <2>1
  <2>2. CASE Crash(p)
    BY <2>2 DEF Crash, NoJob
  <2> QED BY <2>1, <2>2 DEF Restart, Recover, RecoverList, MarkInterrupted, ReadPlan,
                           RecoverPlan, RecoverySkips
<1>3. RejectedStays'
  BY <1>0, <1>1, <1>2, NotedStays DEF RejectedStays
<1>4. Sound' /\ (\E v \in Worker : Capable(v)) => plan' \in Decided
  BY <1>0, <1>1, NotedStays DEF DecidedIfCapable
<1>5. ASSUME \A v \in Worker : Quietens(v) PROVE IInv'
  BY <1>1, <1>3, <1>4, <1>5, Quiet
<1>6. ASSUME UNCHANGED worker PROVE IInv'
  BY <1>5, <1>6 DEF Quietens
<1>7. CASE Crash(p)
  <2>1. NoWorker.at \in Idle /\ NoWorker.stop = FALSE
    BY DEF NoWorker, Idle
  <2>2. \A v \in Worker : worker'[v] \in {worker[v], NoWorker}
    BY <1>7 DEF Crash
  <2> QED BY <1>5, <2>1, <2>2 DEF Quietens
<1>8. ASSUME Replace(p, "idle", FALSE) PROVE IInv'
  <2>1. \E w \in Worker :
            /\ current'[p] = w
            /\ worker'[w].at = "idle" /\ ~worker'[w].stop
            /\ worker'[w].done = {} /\ worker'[w].verdict = "completed"
            /\ \A v \in Worker : v # w => Quietens(v)
    BY <1>8, Replaced
  <2>2. ASSUME NEW w \in Worker, worker'[w].at = "idle", ~worker'[w].stop PROVE Quietens(w)
    BY <2>2 DEF Quietens, Idle
  <2> QED BY <1>5, <2>1, <2>2
<1>9. ASSUME rec[p].plan \in {"approved", "executing"},
             Launch(p, run # "paused" \/ plan # rec[p].plan)
      PROVE  IInv'
  <2>1. ~(run # "paused" \/ plan # rec[p].plan) => run = "paused" /\ plan \in Decided
    BY <1>9 DEF Decided
  <2> QED BY <1>1, <1>3, <1>9, <2>1, Launches
<1>10. CASE RecoverPlan(p)
  BY <1>6, <1>8, <1>9, <1>10 DEF RecoverPlan
<1> QED BY <1>6, <1>7, <1>10 DEF Restart, Recover, RecoverList, MarkInterrupted, ReadPlan,
                               RecoverySkips

\* Nothing is ever taken out of breach.
LEMMA BreachGrows ==
    ASSUME [Next]_vars
    PROVE  breach \subseteq breach'
<1>1. ASSUME NEW u \in User,
             \/ Handle(u) \/ Fails(u)
             \/ \E p \in Process : Approve(u, p) \/ Reject(u, p)
      PROVE  breach \subseteq breach'
  BY <1>1 DEF Handle, Approve, Reject, WriteApproved, Resume, Take, Launch, Undo, WriteRejected,
              CancelAwaiting, SaveRejected, Fails, Contested
<1>2. ASSUME NEW w \in Worker,
             \/ Step(w) \/ PollFails(w) \/ Overdue(w) \/ Bounce(w) \/ Abandon(w)
             \/ \E a \in Action : Refuse(w, a)
      PROVE  breach \subseteq breach'
  BY <1>2 DEF Step, Quit, Decide, Mark, SubmitForExecution, LoadActions, LoadPositions, Fill,
              AllDone, Sync, Wipe, Save, Finish, Close, PollFails, Overdue, Bounce, Abandon, Refuse
<1>3. ASSUME NEW p \in Process, Crash(p) \/ Restart(p) \/ Recover(p) \/ RecoverySkips(p)
      PROVE  breach \subseteq breach'
  BY <1>3 DEF Crash, Restart, Recover, RecoverList, MarkInterrupted, ReadPlan, RecoverPlan,
              Launch, RecoverySkips
<1>4. CASE UNCHANGED vars
  BY <1>4 DEF vars
<1> QED BY <1>1, <1>2, <1>3, <1>4 DEF Next

\* Every step keeps the invariant.
LEMMA NextIInv == IInv /\ [Next]_vars => IInv'
<1> SUFFICES ASSUME IInv, [Next]_vars PROVE IInv'
  OBVIOUS
<1>1. TypeOK' /\ breach \subseteq breach'
  BY NextType, BreachGrows DEF IInv
<1>2. CASE UNCHANGED vars
  <2>1. UNCHANGED <<plan, status, trades, held, worker, job, refused, breach>>
    BY <1>2 DEF vars, rows
  <2>2. RejectedStays' /\ (Sound' /\ (\E v \in Worker : Capable(v)) => plan' \in Decided)
    BY <2>1 DEF IInv, RejectedStays, DecidedIfCapable, Sound
  <2>3. \A v \in Worker : Quietens(v)
    BY <2>1 DEF Quietens
  <2> QED BY <1>1, <2>1, <2>2, <2>3, Quiet
<1>3. ASSUME NEW u \in User,
             \/ Handle(u) \/ Fails(u)
             \/ \E p \in Process : Approve(u, p) \/ Reject(u, p)
      PROVE  IInv'
  BY <1>1, <1>3, WriteSteps, TakeStep DEF Handle
<1>4. ASSUME NEW w \in Worker,
             \/ Step(w) \/ PollFails(w) \/ Overdue(w) \/ Bounce(w) \/ Abandon(w)
             \/ \E a \in Action : Refuse(w, a)
      PROVE  IInv'
  <2>1. CASE Decide(w)
    BY <1>1, <2>1, EarlySteps, EndSteps
  <2> QED BY <1>1, <1>4, <2>1, EarlySteps, TradingSteps, BookSteps, EndSteps DEF Step
<1>5. ASSUME NEW p \in Process, Crash(p) \/ Restart(p) \/ Recover(p) \/ RecoverySkips(p)
      PROVE  IInv'
  BY <1>1, <1>5, ProcessSteps
<1> QED BY <1>2, <1>3, <1>4, <1>5 DEF Next

\* A completed plan's books are closed.
LEMMA IInvBooks == IInv => CompletedIsBooked
  BY DEF IInv, CompletedIsLate, Clean, Booked, Journaled, CompletedIsBooked

\* Only an execution trades, and none runs on a plan that is not decided.
LEMMA NoTradeOnceRefused ==
    ASSUME IInv, [Next]_vars, refused, Sound
    PROVE  trades' = trades
<1>1. plan = "rejected" /\ plan \notin Decided
  BY DEF IInv, RejectedStays, Decided
<1>2. ASSUME NEW w \in Worker, NEW a \in Action, Fill(w, a) PROVE FALSE
  <2>1. worker[w].at = "trading" /\ ~worker[w].stop
    BY <1>2 DEF Fill, Alive
  <2> QED BY <1>1, <2>1, WhileExecuting DEF Executing
<1>3. ASSUME NEW u \in User,
             \/ Handle(u) \/ Fails(u)
             \/ \E p \in Process : Approve(u, p) \/ Reject(u, p)
      PROVE  trades' = trades
  BY <1>3 DEF Handle, Approve, Reject, WriteApproved, Resume, Take, Undo, WriteRejected,
              CancelAwaiting, SaveRejected, Fails, rows
<1>4. ASSUME NEW w \in Worker,
             \/ Step(w) \/ PollFails(w) \/ Overdue(w) \/ Bounce(w) \/ Abandon(w)
             \/ \E a \in Action : Refuse(w, a)
      PROVE  trades' = trades
  BY <1>2, <1>4 DEF Step, Quit, Decide, Mark, SubmitForExecution, LoadActions, LoadPositions,
                    AllDone, Sync, Wipe, Save, Finish, Close, PollFails, Overdue, Bounce,
                    Abandon, Refuse, rows
<1>5. ASSUME NEW p \in Process, Crash(p) \/ Restart(p) \/ Recover(p) \/ RecoverySkips(p)
      PROVE  trades' = trades
  BY <1>5 DEF Crash, Restart, Recover, RecoverList, MarkInterrupted, ReadPlan, RecoverPlan,
              RecoverySkips, rows
<1>6. CASE UNCHANGED vars
  BY <1>6 DEF vars, rows
<1> QED BY <1>3, <1>4, <1>5, <1>6 DEF Next

\* However many replicas and users there are, however often a replica crashes,
\* whenever it recovers and whichever saves are lost, a plan that is completed is
\* in the books: the fund holds one unit of each action that was traded and its
\* statuses say the same; as long as no run was launched late, beside another, or
\* on a row that still waits over written books.
THEOREM BookedCorrect == Spec => []CompletedIsBooked
<1>1. Init => IInv
  BY InitIInv
<1>2. IInv /\ [Next]_vars => IInv'
  BY NextIInv
<1> QED BY <1>1, <1>2, IInvBooks, PTL DEF Spec

\* However many replicas and users there are, once a user has been told that the
\* plan is rejected no run, resume or recovery trades for it any more; as long as
\* no decision was written over another one and no run was launched late or
\* beside another.
THEOREM RejectedCorrect == Spec => RejectedNeverTrades
<1>1. Init => IInv
  BY InitIInv
<1>2. IInv /\ [Next]_vars => IInv'
  BY NextIInv
<1>3. IInv /\ [Next]_vars =>
          [refused /\ breach \cap {"late", "beside", "contested"} = {} => trades' = trades]_trades
  BY NoTradeOnceRefused DEF Sound
<1> QED BY <1>1, <1>2, <1>3, PTL DEF Spec, RejectedNeverTrades

=============================================================================
