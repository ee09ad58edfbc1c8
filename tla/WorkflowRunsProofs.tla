------------------------- MODULE WorkflowRunsProofs -------------------------
(***************************************************************************)
(* Proofs about WorkflowRuns, for every set of processes and all bounds:   *)
(* the row of the day is the lock of its runs, the scheduler claims a slot *)
(* once unless exclusiveness was given up, and a final row stays final     *)
(* until a new claim.                                                      *)
(***************************************************************************)
EXTENDS WorkflowRuns, FiniteSetTheorems, TLAPS

\* Claims number the runs 1, 2, ..., Latest without a gap.
ClaimedInOrder ==
    /\ Latest \in 0 .. MaxRuns
    /\ \A r \in Run : runs[r].phase # "none" <=> r <= Latest

UnclaimedIsNobodys == \A r \in Run : runs[r].phase = "none" => runs[r].proc = NoOne

Launching(p, k) == job[p][k].at = "launch"

\* A start about to launch its run is the only one that will, and the run
\* is still where the claim left it.
LaunchOwnsItsRun ==
    \A p \in Process, k \in Starter :
        Launching(p, k) =>
            /\ job[p][k].run \in Run
            /\ runs[job[p][k].run].phase = "claimed" /\ runs[job[p][k].run].proc = p
            /\ \A l \in Starter : Launching(p, l) /\ job[p][l].run = job[p][k].run => l = k

Locked == breach \subseteq {"lost touch", "turned back"}

\* Under the lock the busy run was never cancelled: only a launch cancels,
\* and it would be the launch of a second busy run.
LockedRun ==
    Locked => \A r \in Run : runs[r].phase \in Busy =>
                  r = Latest /\ row.status = "running" /\ runs[r].status = "running"

\* Without an outage of the lease only the leader believes that it leads,
\* and only the leader's scheduler has a start in progress.
OneScheduler ==
    "lost touch" \notin breach =>
        /\ believes \subseteq {leader}
        /\ \A p \in Process : job[p]["scheduler"].at # "rest" => leader = p

ClaimsAtASlot ==
    \A p \in Process : job[p]["scheduler"].at = "claim" => job[p]["scheduler"].slot \in Slot

ClaimsAreRuns == \A s \in Slot : claims[s] <= Latest

\* The processes that cannot fire slot s a second time.
Spent(s) == {p \in Process : s \in retried[p] \/ up[p] = "dead"}

Pending(s) == \E p \in Process : /\ job[p]["scheduler"].at = "claim"
                                 /\ job[p]["scheduler"].slot = s

\* A slot beyond started_at was never claimed; of the slots before, a claim
\* in preparation counts as made.
ClaimsAreSpent ==
    /\ \A s \in Slot : IsFiniteSet(Spent(s))
    /\ breach = {} =>
           \A s \in Slot : /\ row.slot < s => claims[s] = 0
                           /\ claims[s] <= 1 + Cardinality(Spent(s))
                           /\ Pending(s) => claims[s] <= Cardinality(Spent(s))

IInv ==
    /\ TypeOK
    /\ ClaimedInOrder /\ UnclaimedIsNobodys /\ LaunchOwnsItsRun
    /\ LockedRun
    /\ OneScheduler /\ ClaimsAtASlot /\ ClaimsAreRuns /\ ClaimsAreSpent

-----------------------------------------------------------------------------
(* Type correctness *)

JobRecord == [at : At, slot : 0 .. MaxSlot, run : 0 .. MaxRuns, seen : Row]
Jobs      == [Process -> [Starter -> JobRecord]]
RunRecord == [phase : Phase, proc : Process \cup {NoOne}, status : Status]
Breaches  == {"lost touch", "turned back", "written off", "late snapshot"}

\* The constant records have the types of the variables they reset.
LEMMA ConstantTypes ==
    /\ NoRow \in Row /\ NoJob \in JobRecord
    /\ NoRun \in RunRecord /\ Gone \in RunRecord
  BY BoundsAssumption
  DEF NoRow, Row, Job, NoJob, JobRecord, At, NoRun, Gone, RunRecord, Phase, Status, Terminal

\* The bounds are natural numbers.
LEMMA NatBounds ==
    MaxSlot \in Nat /\ MaxRuns \in Nat /\ MaxStarts \in Nat /\ MaxOutages \in Nat
  BY BoundsAssumption

\* The failures stay within their bound.
LEMMA OutageType ==
    ASSUME TypeOK, Outage \/ UNCHANGED outages
    PROVE  outages' \in 0 .. MaxOutages
<1>1. outages \in 0 .. MaxOutages
  BY DEF TypeOK
<1> QED BY <1>1, NatBounds DEF Outage

\* Saving a snapshot keeps the row's type and what is known of breaches.
LEMMA MergeType ==
    ASSUME TypeOK, NEW r, NEW status \in Status, Merge(r, status)
    PROVE  row' \in Row /\ breach' \subseteq Breaches /\ breach \subseteq breach'
  BY DEF TypeOK, Merge, Row, Breaches

\* So does the update that writes a run off.
LEMMA WriteOffType ==
    ASSUME TypeOK, NEW seen \in Row, NEW status \in Status, NEW rec \in BOOLEAN,
           WriteOff(seen, status, rec)
    PROVE  row' \in Row /\ breach' \subseteq Breaches /\ breach \subseteq breach'
  BY DEF TypeOK, WriteOff, Row, Breaches

\* A step of one start leaves the other starts where they are.
LEMMA StartFrame ==
    ASSUME TypeOK, NEW p \in Process, NEW k \in Starter, NEW new, SetJob(p, k, new)
    PROVE  /\ job'[p][k] = new
           /\ \A q \in Process, l \in Starter : q # p \/ l # k => job'[q][l] = job[q][l]
  BY DEF SetJob, TypeOK

\* A start moves on; the other starts stay where they are.
LEMMA StartType ==
    ASSUME TypeOK, NEW p \in Process, NEW k \in Starter, NEW new \in JobRecord,
           SetJob(p, k, new)
    PROVE  /\ job' \in Jobs
           /\ job'[p][k] = new
           /\ \A q \in Process, l \in Starter : q # p \/ l # k => job'[q][l] = job[q][l]
  BY DEF SetJob, TypeOK, Jobs, JobRecord

\* A start that is over leaves an empty job behind.
LEMMA GotoType ==
    ASSUME TypeOK, NEW p \in Process, NEW k \in Starter, NEW at \in At, Goto(p, k, at)
    PROVE  /\ job' \in Jobs
           /\ job'[p][k] = Job(at, 0, 0, NoRow)
           /\ \A q \in Process, l \in Starter : q # p \/ l # k => job'[q][l] = job[q][l]
<1>1. Job(at, 0, 0, NoRow) \in JobRecord
  BY ConstantTypes, NatBounds DEF JobRecord, Job
<1> QED BY <1>1, StartType DEF Goto

\* The variables keep their types in the initial states.
LEMMA InitType == Init => TypeOK
  BY BoundsAssumption, ConstantTypes
  DEF Init, Lease!Init, TypeOK, JobRecord, Idle, RunRecord, Phase, Status

\* The scheduler's steps, and those a start goes through.
LEMMA StartTypes ==
    ASSUME TypeOK, ClaimedInOrder, ClaimsAtASlot, ClaimsAreRuns, NEW p \in Process,
           Goroutine(p) \/ ManualStart(p)
    PROVE  TypeOK'
<1> USE ConstantTypes
<1>0. job \in Jobs /\ row \in Row
  BY DEF TypeOK, Jobs, JobRecord
<1>1. CASE Decide(p)
  <2>1. retried' \in [Process -> SUBSET Slot]
    BY <1>1 DEF Decide, SpendRetry, NeedsRetry, TypeOK
  <2>2. ActiveLocally(p) => "running" \in Status
    BY DEF Status
  <2>3. row' \in Row /\ breach' \subseteq Breaches
    <3>1. CASE Merge(current[p], "running")
      BY <3>1, MergeType DEF Status
    <3>2. CASE UNCHANGED <<row, breach>>
      BY <3>2 DEF TypeOK, Breaches
    <3> QED BY <1>1, <3>1, <3>2 DEF Decide
  <2>4. job' \in Jobs
    <3>1. CASE Goto(p, "scheduler", "peek")
      BY <3>1, GotoType DEF Starter, At
    <3>2. CASE SetJob(p, "scheduler", Job("claim", now, 0, NoRow))
      <4>1. now \in 0 .. MaxSlot
        BY DEF TypeOK
      <4>2. Job("claim", now, 0, NoRow) \in JobRecord
        BY <4>1, NatBounds DEF Job, JobRecord, At
      <4> QED BY <3>2, <4>2, StartType DEF Starter
    <3> QED BY <1>1, <3>1, <3>2 DEF Decide
  <2> QED BY <1>1, <2>1, <2>3, <2>4 DEF Decide, TypeOK, Jobs, JobRecord, Breaches
<1>2. CASE Peek(p)
  <2>1. retried' \in [Process -> SUBSET Slot]
    BY <1>2 DEF Peek, SpendRetry, NeedsRetry, TypeOK
  <2>2. job' \in Jobs
    BY <1>2, GotoType DEF Peek, Starter, At
  <2> QED BY <1>2, <2>1, <2>2 DEF Peek, TypeOK, Jobs, JobRecord
<1>3. CASE RestartStale(p)
  <2>1. job[p]["user"].seen \in Row
    BY <1>0 DEF Jobs, JobRecord, Starter
  <2>2. row' \in Row /\ breach' \subseteq Breaches
    BY <1>3, <2>1, WriteOffType DEF RestartStale, Row, Status, Terminal
  <2>3. job' \in Jobs
    <3>1. Job("claim", job[p]["user"].slot, 0, NoRow) \in JobRecord
      BY <1>0, NatBounds DEF Job, Jobs, JobRecord, At, Starter
    <3> QED BY <1>3, <3>1, StartType DEF RestartStale, Starter
  <2> QED BY <1>3, <2>2, <2>3 DEF RestartStale, TypeOK, Jobs, JobRecord, Breaches
<1>4. ASSUME NEW k \in Starter, ClaimWon(p, k) PROVE TypeOK'
  <2>0. job[p][k].slot \in 0 .. MaxSlot /\ Latest \in 0 .. MaxRuns
    BY <1>0 DEF Jobs, JobRecord, ClaimedInOrder
  <2>1. Latest + 1 \in Run /\ Latest < MaxRuns
    <3>1. Latest < MaxRuns
      BY <1>4 DEF ClaimWon
    <3> HIDE DEF Latest
    <3> QED BY <3>1, <2>0, NatBounds DEF Run
  <2>2. row' \in Row
    BY <1>4, <2>0 DEF ClaimWon, Row, Status
  <2>3. claims' \in [Slot -> 0 .. MaxRuns]
    <3>1. \A s \in Slot : claims[s] + 1 \in 0 .. MaxRuns
      <4>1. \A s \in Slot : claims[s] \in 0 .. MaxRuns /\ claims[s] <= Latest
        BY DEF ClaimsAreRuns, TypeOK
      <4> QED BY <4>1, <2>0, <2>1, NatBounds
    <3> QED BY <1>4, <3>1 DEF ClaimWon, TypeOK
  <2>4. runs' \in [Run -> RunRecord]
    <3>1. [phase |-> "claimed", proc |-> p, status |-> "running"] \in RunRecord
      BY DEF RunRecord, Phase, Status
    <3> QED BY <1>4, <2>1, <3>1 DEF ClaimWon, TypeOK, RunRecord
  <2>5. job' \in Jobs
    <3>1. CASE SetJob(p, k, Job("launch", 0, Latest + 1, NoRow))
      BY <3>1, <2>1, StartType, NatBounds DEF Job, JobRecord, At, Run
    <3>2. CASE Goto(p, k, Resting(k))
      BY <3>2, GotoType DEF Resting, At
    <3> QED BY <1>4, <3>1, <3>2 DEF ClaimWon
  <2>6. outages' \in 0 .. MaxOutages
    BY <1>4, OutageType DEF ClaimWon
  <2>7. breach' \subseteq Breaches
    BY <1>4 DEF ClaimWon, TypeOK, Breaches
  <2> QED BY <1>4, <2>2, <2>3, <2>4, <2>5, <2>6, <2>7
          DEF ClaimWon, TypeOK, Jobs, JobRecord, Breaches, RunRecord
<1>5. ASSUME NEW k \in Starter, ClaimLost(p, k) PROVE TypeOK'
  BY <1>5, GotoType DEF ClaimLost, Resting, At, TypeOK, Jobs, JobRecord
<1>6. ASSUME NEW k \in Starter, Launch(p, k) PROVE TypeOK'
  <2>1. job[p][k].run \in 0 .. MaxRuns
    BY <1>0 DEF Jobs, JobRecord
  <2>2. job' \in Jobs
    BY <1>6, GotoType DEF Launch, Resting, At
  <2>3. runs' \in [Run -> RunRecord]
    <3>1. ASSUME NEW x \in Run PROVE runs'[x] \in RunRecord
      <4>0. runs[x] \in RunRecord
        BY DEF TypeOK, RunRecord
      <4>1. /\ [runs[x] EXCEPT !.phase = "launched"] \in RunRecord
            /\ [runs[x] EXCEPT !.status = "cancelled"] \in RunRecord
        BY <4>0 DEF RunRecord, Phase, Status, Terminal
      <4> QED BY <1>6, <4>0, <4>1 DEF Launch
    <3> QED BY <1>6, <3>1 DEF Launch
  <2>4. current' \in [Process -> 0 .. MaxRuns]
    BY <1>6, <2>1 DEF Launch, TypeOK
  <2> QED BY <1>6, <2>2, <2>3, <2>4 DEF Launch, TypeOK, Jobs, JobRecord, RunRecord
<1>7. CASE ManualStart(p)
  <2>1. row' \in Row /\ breach' \subseteq Breaches
    <3>1. CASE Merge(current[p], "running")
      BY <3>1, MergeType DEF Status
    <3>2. CASE UNCHANGED <<row, breach>>
      BY <3>2 DEF TypeOK, Breaches
    <3> QED BY <1>7, <3>1, <3>2 DEF ManualStart
  <2>2. job' \in Jobs
    <3>1. Job("restart", now, 0, row) \in JobRecord /\ Job("claim", now, 0, NoRow) \in JobRecord
      <4>1. now \in 0 .. MaxSlot
        BY DEF TypeOK
      <4> QED BY <4>1, <1>0, NatBounds DEF Job, JobRecord, At
    <3> QED BY <1>7, <1>0, <3>1, StartType DEF ManualStart, Starter
  <2>3. starts' \in 0 .. MaxStarts
    <3>1. starts \in 0 .. MaxStarts
      BY DEF TypeOK
    <3> QED BY <1>7, <3>1, NatBounds DEF ManualStart
  <2> QED BY <1>7, <2>1, <2>2, <2>3 DEF ManualStart, TypeOK, Jobs, JobRecord, Breaches
<1> QED BY <1>1, <1>2, <1>3, <1>4, <1>5, <1>6, <1>7 DEF Goroutine, StartStep

\* The steps of the runs.
LEMMA RunTypes ==
    ASSUME TypeOK, NEW r \in Run, RunSteps(r) \/ Progress(r)
    PROVE  TypeOK'
<1> USE ConstantTypes
<1>0. runs[r] \in RunRecord /\ runs[r].status \in Status
  BY DEF TypeOK, RunRecord
<1>1. CASE Begin(r)
  <2>1. row' \in Row /\ breach' \subseteq Breaches
    BY <1>1, MergeType DEF Begin, Status
  <2>2. runs' \in [Run -> RunRecord]
    BY <1>1, <1>0 DEF Begin, RunStep, TypeOK, RunRecord, Phase
  <2> QED BY <1>1, <2>1, <2>2 DEF Begin, RunStep, TypeOK, RunRecord, Breaches
<1>2. CASE Progress(r)
  <2>1. row' \in Row /\ breach' \subseteq Breaches
    BY <1>2, <1>0, MergeType DEF Progress
  <2> QED BY <1>2, <2>1 DEF Progress, RunStep, TypeOK, Breaches
<1>3. CASE Finish(r)
  <2> PICK status \in {"completed", "failed", "rejected"} :
            /\ RunStep(r, "working", [runs[r] EXCEPT !.phase = "closing", !.status = status])
            /\ \/ Merge(r, status) /\ UNCHANGED outages
               \/ UNCHANGED <<row, breach>> /\ Outage
    BY <1>3 DEF Finish
  <2>0. status \in Status
    BY DEF Status, Terminal
  <2>1. row' \in Row /\ breach' \subseteq Breaches
    BY <2>0, MergeType DEF TypeOK, Breaches
  <2>2. runs' \in [Run -> RunRecord]
    BY <1>0, <2>0 DEF RunStep, TypeOK, RunRecord, Phase
  <2>3. outages' \in 0 .. MaxOutages
    BY OutageType
  <2> QED BY <2>1, <2>2, <2>3 DEF RunStep, TypeOK, RunRecord, Breaches
<1>4. CASE FinalPersist(r)
  <2>1. row' \in Row /\ breach' \subseteq Breaches
    BY <1>4, <1>0, MergeType DEF FinalPersist, TypeOK, Breaches
  <2>2. runs' \in [Run -> RunRecord]
    BY <1>4 DEF FinalPersist, RunStep, TypeOK, RunRecord
  <2>3. outages' \in 0 .. MaxOutages
    BY <1>4, OutageType DEF FinalPersist
  <2> QED BY <1>4, <2>1, <2>2, <2>3 DEF FinalPersist, RunStep, TypeOK, RunRecord, Breaches
<1> QED BY <1>1, <1>2, <1>3, <1>4 DEF RunSteps

\* Recovery, the lease, and the life of a process.
LEMMA ProcessTypes ==
    ASSUME TypeOK, NEW p \in Process,
           RecoveryStep(p) \/ LeaseStep(p) \/ LoseTouch(p) \/ Boot(p) \/ Crash(p)
    PROVE  TypeOK'
<1> USE ConstantTypes
<1>1. CASE ListIncomplete(p)
  <2>1. recovery' \in [Process -> [at : {"waiting", "listed", "done"}, seen : Row]]
    BY <1>1 DEF ListIncomplete, TypeOK
  <2> QED BY <1>1, <2>1 DEF ListIncomplete, TypeOK
<1>2. CASE MarkRunInterrupted(p)
  <2>0. recovery[p].seen \in Row
    BY DEF TypeOK
  <2>1. row' \in Row /\ breach' \subseteq Breaches
    <3>1. CASE WriteOff(recovery[p].seen, "failed", TRUE)
      BY <2>0, <3>1, WriteOffType DEF Status
    <3>2. CASE UNCHANGED <<row, breach>>
      BY <3>2 DEF TypeOK, Breaches
    <3> QED BY <1>2, <3>1, <3>2 DEF MarkRunInterrupted
  <2>2. outages' \in 0 .. MaxOutages
    BY <1>2, OutageType DEF MarkRunInterrupted
  <2>3. recovery' \in [Process -> [at : {"waiting", "listed", "done"}, seen : Row]]
    BY <1>2 DEF MarkRunInterrupted, TypeOK
  <2> QED BY <1>2, <2>1, <2>2, <2>3 DEF MarkRunInterrupted, TypeOK, Breaches
<1>3. CASE LeaseStep(p) \/ LoseTouch(p) \/ Boot(p)
  BY <1>3, OutageType
  DEF LeaseStep, AcquireLease, LearnLead, LearnLoss, Expire, LoseTouch, Boot, leaseVars,
      ProcessVars, Lease!Grant, Lease!Act, Lease!Forget, Lease!Vacate, Lease!LoseTouch,
      Outage, TypeOK
<1>4. CASE Crash(p)
  <2>1. runs' \in [Run -> RunRecord]
    BY <1>4 DEF Crash, TypeOK, RunRecord
  <2>2. job' \in Jobs
    BY <1>4 DEF Crash, TypeOK, Jobs, JobRecord
  <2>3. recovery' \in [Process -> [at : {"waiting", "listed", "done"}, seen : Row]]
    BY <1>4 DEF Crash, Idle, TypeOK
  <2>4. /\ owner' \in Process \cup {NoOne} /\ leader' \in Process \cup {NoOne}
        /\ believes' \subseteq Process
    BY <1>4 DEF Crash, Lease!StepDown, Lease!Forget, leaseVars, TypeOK
  <2>5. current' \in [Process -> 0 .. MaxRuns]
    <3>1. 0 \in 0 .. MaxRuns
      BY NatBounds
    <3> QED BY <1>4, <3>1 DEF Crash, TypeOK
  <2> QED BY <1>4, <2>1, <2>2, <2>3, <2>4, <2>5 DEF Crash, TypeOK, RunRecord, Jobs, JobRecord
<1> QED BY <1>1, <1>2, <1>3, <1>4 DEF RecoveryStep

\* Every step keeps the types.
LEMMA NextType ==
    TypeOK /\ ClaimedInOrder /\ ClaimsAtASlot /\ ClaimsAreRuns /\ [Next]_vars => TypeOK'
<1> SUFFICES ASSUME TypeOK, ClaimedInOrder, ClaimsAtASlot, ClaimsAreRuns, [Next]_vars
             PROVE  TypeOK'
  OBVIOUS
<1>1. CASE NextSlot
  <2>1. now' \in 0 .. MaxSlot
    <3>1. now \in 0 .. MaxSlot
      BY DEF TypeOK
    <3> QED BY <1>1, <3>1, NatBounds DEF NextSlot
  <2>2. UNCHANGED <<owner, leader, believes, up, row, job, recovery, retried, runs,
                    current, starts, outages, claims, breach>>
    BY <1>1 DEF NextSlot, leaseVars
  <2> QED BY <2>1, <2>2 DEF TypeOK
<1>2. CASE UNCHANGED vars
  BY <1>2 DEF vars, TypeOK
<1>3. ASSUME NEW p \in Process,
             \/ Goroutine(p) \/ RecoveryStep(p) \/ LeaseStep(p)
             \/ ManualStart(p) \/ LoseTouch(p) \/ Boot(p) \/ Crash(p)
      PROVE  TypeOK'
  BY <1>3, StartTypes, ProcessTypes
<1>4. ASSUME NEW r \in Run, RunSteps(r) \/ Progress(r) PROVE TypeOK'
  BY <1>4, RunTypes
<1> QED BY <1>1, <1>2, <1>3, <1>4 DEF Next

-----------------------------------------------------------------------------
(* The numbering of the runs and the starts that own them *)

\* The number of runs that begin an initial segment is its last number.
LEMMA CountOf ==
    ASSUME NEW f, NEW n \in 0 .. MaxRuns,
           \A r \in Run : f[r].phase # "none" <=> r <= n
    PROVE  Cardinality({r \in Run : f[r].phase # "none"}) = n
<1>1. {r \in Run : f[r].phase # "none"} = 1 .. n
  BY NatBounds DEF Run
<1>2. Cardinality(1 .. n) = n
  BY FS_Interval, NatBounds
<1> QED BY <1>1, <1>2

\* What a step may do to the runs.
LEMMA RunsChange ==
    ASSUME TypeOK, [Next]_vars
    PROVE  \/ runs' = runs
           \/ \E p \in Process, k \in Starter : ClaimWon(p, k) \/ Launch(p, k)
           \/ \E r \in Run : RunSteps(r)
           \/ \E p \in Process : Crash(p)
<1>1. ASSUME NEW p \in Process, Goroutine(p)
      PROVE  \/ runs' = runs
             \/ \E k \in Starter : ClaimWon(p, k) \/ Launch(p, k)
  BY <1>1 DEF Goroutine, StartStep, Decide, Peek, RestartStale, ClaimLost
<1>2. ASSUME NEW p \in Process, RecoveryStep(p) \/ ManualStart(p)
      PROVE  runs' = runs
  BY <1>2 DEF RecoveryStep, ListIncomplete, MarkRunInterrupted, ManualStart
<1>3. ASSUME NEW p \in Process, LeaseStep(p) \/ LoseTouch(p) \/ Boot(p)
      PROVE  runs' = runs
  BY <1>3 DEF LeaseStep, AcquireLease, LearnLead, LearnLoss, Expire, LoseTouch, Boot,
              ProcessVars
<1>4. ASSUME NEW r \in Run, Progress(r) PROVE runs' = runs
  BY <1>4 DEF Progress, RunStep, TypeOK
<1>5. NextSlot \/ UNCHANGED vars => runs' = runs
  BY DEF NextSlot, vars
<1> QED BY <1>1, <1>2, <1>3, <1>4, <1>5 DEF Next

\* A start that is to launch a run was to launch it before the step, or has
\* just claimed it.
LEMMA JobsChange ==
    ASSUME TypeOK, [Next]_vars, NEW q \in Process, NEW l \in Starter, Launching(q, l)',
           ~ClaimWon(q, l)
    PROVE  job'[q][l] = job[q][l]
<1>1. ASSUME NEW p \in Process, NEW k \in Starter, NEW at \in At \ {"launch"}, Goto(p, k, at)
      PROVE  job'[q][l] = job[q][l]
  <2>1. job'[p][k] = Job(at, 0, 0, NoRow) /\ (q # p \/ l # k => job'[q][l] = job[q][l])
    BY <1>1, GotoType
  <2> QED BY <2>1, <1>1 DEF Launching, Job
<1>2. ASSUME NEW p \in Process, NEW k \in Starter, Launch(p, k) \/ ClaimLost(p, k)
      PROVE  job'[q][l] = job[q][l]
  BY <1>1, <1>2 DEF Launch, ClaimLost, Resting, At
<1>3. ASSUME NEW p \in Process, NEW k \in Starter, ClaimWon(p, k)
      PROVE  job'[q][l] = job[q][l]
  <2>1. CASE Goto(p, k, Resting(k))
    BY <1>1, <2>1 DEF Resting, At
  <2>2. CASE SetJob(p, k, Job("launch", 0, Latest + 1, NoRow))
    <3>1. q # p \/ l # k
      BY <1>3
    <3> QED BY <2>2, <3>1 DEF SetJob, TypeOK
  <2> QED BY <1>3, <2>1, <2>2 DEF ClaimWon
<1>4. ASSUME NEW p \in Process, NEW k \in Starter, NEW slot, NEW seen, NEW at,
             at # "launch", SetJob(p, k, Job(at, slot, 0, seen))
      PROVE  job'[q][l] = job[q][l]
  BY <1>4 DEF SetJob, Launching, Job, TypeOK
<1>5. ASSUME NEW p \in Process, Decide(p) PROVE job'[q][l] = job[q][l]
  BY <1>5, <1>1, <1>4 DEF Decide, Starter, At
<1>6. ASSUME NEW p \in Process, Peek(p) PROVE job'[q][l] = job[q][l]
  BY <1>6, <1>1 DEF Peek, Starter, At
<1>7. ASSUME NEW p \in Process, RestartStale(p) PROVE job'[q][l] = job[q][l]
  BY <1>7, <1>4 DEF RestartStale, Starter
<1>8. ASSUME NEW p \in Process, ManualStart(p) PROVE job'[q][l] = job[q][l]
  BY <1>8, <1>4 DEF ManualStart, Starter
<1>9. ASSUME NEW p \in Process, Crash(p) PROVE job'[q][l] = job[q][l]
  BY <1>9 DEF Crash, Launching, NoJob, Job, TypeOK
<1>10. ASSUME NEW p \in Process, RecoveryStep(p) \/ LeaseStep(p) \/ LoseTouch(p) \/ Boot(p)
       PROVE  job' = job
  BY <1>10 DEF RecoveryStep, ListIncomplete, MarkRunInterrupted, LeaseStep, AcquireLease,
               LearnLead, LearnLoss, Expire, LoseTouch, Boot, ProcessVars
<1>11. ASSUME NEW r \in Run, RunSteps(r) \/ Progress(r) PROVE job' = job
  BY <1>11 DEF RunSteps, Begin, Finish, FinalPersist, Progress, RunStep
<1>12. NextSlot \/ UNCHANGED vars => job' = job
  BY DEF NextSlot, vars
<1>13. ASSUME NEW p \in Process, Goroutine(p) PROVE job'[q][l] = job[q][l]
  <2>1. ASSUME NEW k \in Starter, StartStep(p, k) PROVE job'[q][l] = job[q][l]
    BY <2>1, <1>2, <1>3 DEF StartStep
  <2> QED BY <1>13, <2>1, <1>5, <1>6, <1>7 DEF Goroutine
<1> QED BY <1>8, <1>9, <1>10, <1>11, <1>12, <1>13 DEF Next

\* What a winning claim does to the runs and to the starts.
LEMMA ClaimEffect ==
    ASSUME TypeOK, ClaimedInOrder, NEW p \in Process, NEW k \in Starter, ClaimWon(p, k)
    PROVE  /\ Latest + 1 \in Run /\ runs[Latest + 1].phase = "none"
           /\ \A x \in Run : x # Latest + 1 => runs'[x] = runs[x]
           /\ \A q \in Process, l \in Starter : q # p \/ l # k => job'[q][l] = job[q][l]
           /\ runs'[Latest + 1].phase # "none"
           /\ \/ runs'[Latest + 1] = Gone /\ ~Launching(p, k)'
              \/ /\ runs'[Latest + 1] = [phase |-> "claimed", proc |-> p,
                                         status |-> "running"]
                 /\ job'[p][k] = Job("launch", 0, Latest + 1, NoRow)
<1>1. Latest + 1 \in Run /\ ~(Latest + 1 <= Latest)
  <2>1. Latest \in 0 .. MaxRuns /\ Latest < MaxRuns
    BY DEF ClaimWon, ClaimedInOrder
  <2> HIDE DEF Latest
  <2> QED BY <2>1, NatBounds DEF Run
<1>2. runs[Latest + 1].phase = "none"
  BY <1>1 DEF ClaimedInOrder
<1>3. \A q \in Process, l \in Starter : q # p \/ l # k => job'[q][l] = job[q][l]
  BY StartFrame DEF ClaimWon, Goto
<1>4. CASE runs' = [runs EXCEPT ![Latest + 1] = Gone] /\ Goto(p, k, Resting(k))
  <2>1. ~Launching(p, k)'
    <3>1. Resting(k) \in At /\ Resting(k) # "launch"
      BY DEF Resting, At
    <3>2. job'[p][k] = Job(Resting(k), 0, 0, NoRow)
      BY <1>4, <3>1, GotoType
    <3> QED BY <3>1, <3>2 DEF Launching, Job
  <2> HIDE DEF Latest
  <2>2. Gone.phase # "none"
    BY DEF Gone, NoRun
  <2> QED BY <1>1, <1>2, <1>3, <1>4, <2>1, <2>2 DEF TypeOK
<1>5. CASE /\ runs' = [runs EXCEPT ![Latest + 1] = [phase |-> "claimed", proc |-> p,
                                                    status |-> "running"]]
           /\ SetJob(p, k, Job("launch", 0, Latest + 1, NoRow))
  <2>1. job'[p][k] = Job("launch", 0, Latest + 1, NoRow)
    BY <1>5 DEF SetJob, TypeOK
  <2> HIDE DEF Latest
  <2> QED BY <1>1, <1>2, <1>3, <1>5, <2>1 DEF TypeOK
<1> QED BY <1>4, <1>5 DEF ClaimWon

\* What a launch does to the runs: its own run is on its way, and at most
\* the run it replaces is marked, if that works or closes.
LEMMA LaunchEffect ==
    ASSUME TypeOK, LaunchOwnsItsRun, NEW p \in Process, NEW k \in Starter, Launch(p, k)
    PROVE  LET r == job[p][k].run
           IN  /\ r \in Run /\ runs[r].phase = "claimed" /\ runs[r].proc = p
               /\ runs'[r].phase = "launched" /\ runs'[r].status = runs[r].status
               /\ \A x \in Run : x # r =>
                      /\ runs'[x].phase = runs[x].phase /\ runs'[x].proc = runs[x].proc
                      /\ \/ runs'[x] = runs[x]
                         \/ runs[x].phase \in {"working", "closing"}
<1> DEFINE r == job[p][k].run
<1>1. r \in Run /\ runs[r].phase = "claimed" /\ runs[r].proc = p
  BY DEF Launch, LaunchOwnsItsRun, Launching
<1>2. \A x \in Run : runs[x] \in RunRecord
  BY DEF TypeOK, RunRecord
<1>3. runs'[r] = [runs[r] EXCEPT !.phase = "launched"]
  BY <1>1 DEF Launch
<1>4. ASSUME NEW x \in Run, x # r
      PROVE  \/ runs'[x] = runs[x]
             \/ /\ runs[x].phase \in {"working", "closing"}
                /\ runs'[x] = [runs[x] EXCEPT !.status = "cancelled"]
  BY <1>4 DEF Launch
<1> HIDE DEF r
<1>5. runs'[r].phase = "launched" /\ runs'[r].status = runs[r].status
  BY <1>1, <1>2, <1>3 DEF RunRecord
<1>6. ASSUME NEW x \in Run, x # r
      PROVE  runs'[x].phase = runs[x].phase /\ runs'[x].proc = runs[x].proc
  BY <1>2, <1>4, <1>6 DEF RunRecord
<1> QED BY <1>1, <1>4, <1>5, <1>6 DEF r

\* The run of a step other than a claim stays a run.
LEMMA RunStepEffect ==
    ASSUME TypeOK, NEW r \in Run, RunSteps(r)
    PROVE  /\ runs[r].phase \in {"launched", "working", "closing"}
           /\ runs'[r].phase # "none"
           /\ \A x \in Run : x # r => runs'[x] = runs[x]
<1> USE DEF TypeOK, RunStep
<1>1. CASE Begin(r)
  BY <1>1 DEF Begin
<1>2. CASE Finish(r)
  <2> PICK status \in {"completed", "failed", "rejected"} :
            RunStep(r, "working", [runs[r] EXCEPT !.phase = "closing", !.status = status])
    BY <1>2 DEF Finish
  <2>1. /\ runs[r].phase = "working"
        /\ runs' = [runs EXCEPT ![r] = [runs[r] EXCEPT !.phase = "closing", !.status = status]]
    OBVIOUS
  <2>2. runs[r] \in RunRecord
    BY DEF RunRecord
  <2>3. [runs[r] EXCEPT !.phase = "closing", !.status = status].phase = "closing"
    BY <2>2 DEF RunRecord
  <2> QED BY <2>1, <2>3
<1>3. CASE FinalPersist(r)
  <2>1. runs[r].phase = "closing" /\ runs' = [runs EXCEPT ![r] = Gone]
    BY <1>3 DEF FinalPersist
  <2> QED BY <2>1 DEF Gone, NoRun
<1> QED BY <1>1, <1>2, <1>3 DEF RunSteps

\* A claim begins the next run.
LEMMA ClaimOrder ==
    ASSUME TypeOK, ClaimedInOrder, UnclaimedIsNobodys,
           NEW p \in Process, NEW k \in Starter, ClaimWon(p, k)
    PROVE  Latest' = Latest + 1 /\ ClaimedInOrder' /\ UnclaimedIsNobodys'
<1>1. Latest \in 0 .. MaxRuns /\ Latest + 1 \in 0 .. MaxRuns
  <2>1. Latest \in 0 .. MaxRuns /\ Latest < MaxRuns
    BY DEF ClaimWon, ClaimedInOrder
  <2> HIDE DEF Latest
  <2> QED BY <2>1, NatBounds
<1>2. ASSUME NEW r \in Run PROVE runs'[r].phase # "none" <=> r <= Latest + 1
  <2>1. ASSUME r = Latest + 1 PROVE runs'[r].phase # "none"
    BY <2>1, ClaimEffect
  <2>2. r # Latest + 1 => (runs'[r].phase # "none" <=> r <= Latest)
    BY ClaimEffect DEF ClaimedInOrder
  <2> HIDE DEF Latest
  <2> QED BY <2>1, <2>2, <1>1, NatBounds DEF Run
<1>3. Latest' = Latest + 1
  <2>1. \A n \in 0 .. MaxRuns :
            (\A r \in Run : runs'[r].phase # "none" <=> r <= n)
            => Cardinality({r \in Run : runs'[r].phase # "none"}) = n
    BY CountOf
  <2>2. Cardinality({r \in Run : runs'[r].phase # "none"}) = Latest + 1
    <3> HIDE DEF Latest
    <3> QED BY <2>1, <1>1, <1>2
  <2> QED BY <2>2 DEF Latest
<1>4. UnclaimedIsNobodys'
  <2>1. ASSUME NEW r \in Run, runs'[r].phase = "none" PROVE runs'[r] = runs[r]
    <3>1. r # Latest + 1
      BY <2>1, ClaimEffect
    <3> QED BY <3>1, ClaimEffect
  <2> QED BY <2>1 DEF UnclaimedIsNobodys
<1>5. ClaimedInOrder'
  <2>1. Latest' \in 0 .. MaxRuns /\ \A r \in Run : runs'[r].phase # "none" <=> r <= Latest'
    <3> HIDE DEF Latest
    <3> QED BY <1>1, <1>2, <1>3
  <2> QED BY <2>1 DEF ClaimedInOrder
<1> QED BY <1>3, <1>4, <1>5

\* No other step begins or forgets one.
LEMMA OtherOrder ==
    ASSUME TypeOK, ClaimedInOrder, UnclaimedIsNobodys, LaunchOwnsItsRun, [Next]_vars,
           \A p \in Process, k \in Starter : ~ClaimWon(p, k)
    PROVE  Latest' = Latest /\ ClaimedInOrder' /\ UnclaimedIsNobodys'
<1>1. ASSUME NEW x \in Run
      PROVE  /\ runs'[x].phase # "none" <=> runs[x].phase # "none"
             /\ runs'[x].phase = "none" => runs'[x].proc = NoOne
  <2>1. CASE runs' = runs
    BY <2>1 DEF UnclaimedIsNobodys
  <2>2. ASSUME NEW p \in Process, NEW k \in Starter, Launch(p, k)
        PROVE  <1>1!2
    <3>1. runs[x] \in RunRecord
      BY DEF TypeOK, RunRecord
    <3>2. CASE x = job[p][k].run
      BY <2>2, <3>1, <3>2, LaunchEffect DEF RunRecord
    <3>3. CASE x # job[p][k].run
      BY <2>2, <3>1, <3>3, LaunchEffect DEF UnclaimedIsNobodys, RunRecord
    <3> QED BY <3>2, <3>3
  <2>3. ASSUME NEW r \in Run, RunSteps(r)
        PROVE  <1>1!2
    BY <2>3, RunStepEffect DEF UnclaimedIsNobodys
  <2>4. ASSUME NEW p \in Process, Crash(p)
        PROVE  <1>1!2
    BY <2>4, BoundsAssumption DEF Crash, UnclaimedIsNobodys, Gone, NoRun
  <2> QED BY <2>1, <2>2, <2>3, <2>4, RunsChange
<1>2. Latest' = Latest
  BY <1>1 DEF Latest
<1>3. ClaimedInOrder'
  <2>1. Latest' \in 0 .. MaxRuns /\ \A r \in Run : runs'[r].phase # "none" <=> r <= Latest'
    BY <1>1, <1>2 DEF ClaimedInOrder
  <2> QED BY <2>1 DEF ClaimedInOrder
<1> QED BY <1>1, <1>2, <1>3 DEF UnclaimedIsNobodys

\* Whoever is to launch a run owns it until the launch.
LEMMA LaunchStep ==
    ASSUME TypeOK, ClaimedInOrder, UnclaimedIsNobodys, LaunchOwnsItsRun, [Next]_vars
    PROVE  LaunchOwnsItsRun'
<1> DEFINE Mine(r, q) == r \in Run /\ runs'[r].phase = "claimed" /\ runs'[r].proc = q
<1>1. ASSUME NEW p \in Process, NEW k \in Starter, ClaimWon(p, k)
      PROVE  LaunchOwnsItsRun'
  <2>0. \A q \in Process, l \in Starter : q # p \/ l # k => job'[q][l] = job[q][l]
    BY <1>1, ClaimEffect
  <2>1. ASSUME NEW q \in Process, NEW l \in Starter, Launching(q, l)', q # p \/ l # k
        PROVE  /\ job'[q][l] = job[q][l] /\ Launching(q, l)
               /\ job[q][l].run # Latest + 1 /\ Mine(job[q][l].run, q)
    <3>1. job'[q][l] = job[q][l] /\ Launching(q, l)
      <4>1. job'[q][l] = job[q][l]
        BY <2>0, <2>1
      <4> QED BY <4>1, <2>1 DEF Launching
    <3>2. job[q][l].run \in Run /\ runs[job[q][l].run].phase = "claimed"
          /\ runs[job[q][l].run].proc = q
      BY <3>1 DEF LaunchOwnsItsRun
    <3>3. job[q][l].run # Latest + 1
      BY <1>1, <3>2, ClaimEffect
    <3> QED BY <1>1, <3>1, <3>2, <3>3, ClaimEffect
  <2>2. ASSUME Launching(p, k)'
        PROVE  job'[p][k].run = Latest + 1 /\ Mine(Latest + 1, p)
    <3> HIDE DEF Latest
    <3>1. /\ Latest + 1 \in Run
          /\ runs'[Latest + 1] = [phase |-> "claimed", proc |-> p, status |-> "running"]
          /\ job'[p][k] = Job("launch", 0, Latest + 1, NoRow)
      BY <1>1, <2>2, ClaimEffect
    <3> QED BY <3>1 DEF Job
  <2> HIDE DEF Latest, Launching
  <2> QED BY <2>1, <2>2 DEF LaunchOwnsItsRun
<1>2. ASSUME \A p \in Process, k \in Starter : ~ClaimWon(p, k),
             \A q \in Process, l \in Starter : Launching(q, l)' => Mine(job[q][l].run, q)
      PROVE  LaunchOwnsItsRun'
  <2>1. ASSUME NEW q \in Process, NEW l \in Starter, Launching(q, l)'
        PROVE  job'[q][l] = job[q][l] /\ Launching(q, l)
    BY <1>2, <2>1, JobsChange DEF Launching
  <2> QED BY <1>2, <2>1 DEF LaunchOwnsItsRun
<1>3. SUFFICES ASSUME \A p \in Process, k \in Starter : ~ClaimWon(p, k),
                      NEW q \in Process, NEW l \in Starter, Launching(q, l)'
               PROVE  Mine(job[q][l].run, q)
  BY <1>1, <1>2
<1> DEFINE mine == job[q][l].run
<1>4. /\ mine \in Run /\ runs[mine].phase = "claimed" /\ runs[mine].proc = q
      /\ Launching(q, l)
      /\ \A m \in Starter : Launching(q, m) /\ job[q][m].run = mine => m = l
  <2>1. job'[q][l] = job[q][l]
    BY <1>3, JobsChange
  <2>2. Launching(q, l)
    BY <1>3, <2>1 DEF Launching
  <2> QED BY <2>2 DEF LaunchOwnsItsRun
<1> HIDE DEF mine
<1>5. CASE runs' = runs
  BY <1>4, <1>5 DEF mine
<1>6. ASSUME NEW p \in Process, NEW k \in Starter, Launch(p, k)
      PROVE  Mine(mine, q)
  <2>1. job[p][k].run # mine
    <3>1. CASE p # q
      BY <1>4, <1>6, <3>1, LaunchEffect
    <3>2. CASE p = q /\ k # l
      BY <1>4, <1>6, <3>2 DEF Launch, Launching
    <3>3. CASE p = q /\ k = l
      <4>1. job'[q][l].at # "launch"
        BY <1>6, <3>3, GotoType DEF Launch, Resting, Job, At
      <4> QED BY <4>1, <1>3 DEF Launching
    <3> QED BY <3>1, <3>2, <3>3
  <2> QED BY <1>4, <1>6, <2>1, LaunchEffect
<1>7. ASSUME NEW r \in Run, RunSteps(r)
      PROVE  Mine(mine, q)
  BY <1>4, <1>7, RunStepEffect
<1>8. ASSUME NEW p \in Process, Crash(p)
      PROVE  Mine(mine, q)
  <2>1. p # q
    BY <1>3, <1>8 DEF Crash, Launching, NoJob, Job, TypeOK
  <2> QED BY <1>4, <1>8, <2>1 DEF Crash
<1> QED BY <1>3, <1>5, <1>6, <1>7, <1>8, RunsChange DEF mine

-----------------------------------------------------------------------------
(* The row and the lock *)

\* What saving a snapshot does to the row: a final status stays unless
\* another one comes, and the snapshot of an older run is a breach.
LEMMA MergeEffect ==
    ASSUME TypeOK, NEW r, NEW status \in Status, Merge(r, status)
    PROVE  /\ row'.slot = row.slot
           /\ row'.status = IF row.status \in Terminal /\ status \notin Terminal
                            THEN row.status ELSE status
           /\ \/ r = Latest /\ breach' = breach
              \/ breach' = breach \cup {"late snapshot"}
  BY DEF Merge, TypeOK, Row

\* What writing a run off does to the row: unless it is a breach, the row
\* is the one that was read and no run is busy.
LEMMA WriteOffEffect ==
    ASSUME TypeOK, NEW seen, NEW status, NEW rec, WriteOff(seen, status, rec)
    PROVE  /\ row'.status = status /\ row'.slot = seen.slot
           /\ \/ breach' = breach /\ row = seen /\ \A r \in Run : runs[r].phase \notin Busy
              \/ breach' = breach \cup {"written off"}
  BY DEF WriteOff

\* How a step that is no claim may change the row: not at all, by saving the
\* snapshot of a run that works or ends, or by writing a run off.
RowKept == row' = row /\ breach' \in {breach, breach \cup {"lost touch"}}

SavesRunning(r) ==
    /\ Merge(r, "running")
    /\ \/ runs[r].phase = "working" /\ runs[r].status = "running" /\ runs' = runs
       \/ runs[r].phase = "launched"

SavesOwn(r) == Merge(r, runs[r].status) /\ runs[r].phase = "working" /\ runs' = runs

SavesEnd(r) ==
    \E status \in Status : /\ Merge(r, status)
                           /\ runs[r].phase \in {"working", "closing"}
                           /\ runs'[r].phase \in {"closing", "ended"}

WritesOff ==
    /\ runs' = runs
    /\ \E seen \in Row, status \in {"cancelled", "failed"}, rec \in BOOLEAN :
           WriteOff(seen, status, rec)

RowChanges ==
    RowKept \/ WritesOff \/ \E r \in Run : SavesRunning(r) \/ SavesOwn(r) \/ SavesEnd(r)

\* There is no other way.
LEMMA RowChange ==
    ASSUME TypeOK, [Next]_vars, \A p \in Process, k \in Starter : ~ClaimWon(p, k)
    PROVE  RowChanges
<1>1. ASSUME NEW p \in Process, ActiveLocally(p), Merge(current[p], "running"), runs' = runs
      PROVE  RowChanges
  <2>1. current[p] \in Run
    <3>1. current[p] \in 0 .. MaxRuns /\ current[p] # 0
      BY <1>1 DEF ActiveLocally, TypeOK
    <3> QED BY <3>1, NatBounds DEF Run
  <2> QED BY <1>1, <2>1 DEF ActiveLocally, RowChanges, SavesRunning
<1>2. ASSUME NEW p \in Process, Decide(p) PROVE RowChanges
  BY <1>1, <1>2 DEF Decide, RowChanges, RowKept
<1>3. ASSUME NEW p \in Process, ManualStart(p) PROVE RowChanges
  BY <1>1, <1>3 DEF ManualStart, RowChanges, RowKept
<1>4. ASSUME NEW p \in Process, RestartStale(p) PROVE RowChanges
  <2>1. job[p]["user"].seen \in Row
    <3>1. job \in Jobs
      BY DEF TypeOK, Jobs, JobRecord
    <3> QED BY <3>1 DEF Jobs, JobRecord, Starter
  <2> HIDE DEF Row
  <2>2. job[p]["user"].seen.rec \in BOOLEAN
    BY <2>1 DEF Row
  <2> QED BY <1>4, <2>1, <2>2 DEF RestartStale, RowChanges, WritesOff
<1>5. ASSUME NEW p \in Process, MarkRunInterrupted(p) PROVE RowChanges
  <2>1. recovery[p].seen \in Row
    BY DEF TypeOK
  <2> QED BY <1>5, <2>1 DEF MarkRunInterrupted, RowChanges, WritesOff, RowKept
<1>6. ASSUME NEW p \in Process, NEW k \in Starter, ClaimLost(p, k) \/ Launch(p, k)
      PROVE  RowChanges
  BY <1>6 DEF ClaimLost, Launch, RowChanges, RowKept
<1>7. ASSUME NEW p \in Process, Peek(p) \/ ListIncomplete(p) \/ Boot(p) \/ Crash(p)
      PROVE  RowChanges
  BY <1>7 DEF Peek, ListIncomplete, Boot, Crash, ProcessVars, RowChanges, RowKept
<1>8. ASSUME NEW p \in Process, LeaseStep(p) \/ LoseTouch(p) PROVE RowChanges
  BY <1>8 DEF LeaseStep, AcquireLease, LearnLead, LearnLoss, Expire, LoseTouch, ProcessVars,
              RowChanges, RowKept
<1>9. ASSUME NEW r \in Run, Begin(r) PROVE RowChanges
  BY <1>9 DEF Begin, RunStep, RowChanges, SavesRunning
<1>10. ASSUME NEW r \in Run, Progress(r) PROVE RowChanges
  BY <1>10 DEF Progress, RunStep, RowChanges, SavesOwn, TypeOK
<1>11. ASSUME NEW r \in Run, Finish(r) PROVE RowChanges
  <2> PICK status \in {"completed", "failed", "rejected"} :
            /\ RunStep(r, "working", [runs[r] EXCEPT !.phase = "closing", !.status = status])
            /\ \/ Merge(r, status) /\ UNCHANGED outages
               \/ UNCHANGED <<row, breach>> /\ Outage
    BY <1>11 DEF Finish
  <2>1. runs[r] \in RunRecord
    BY DEF TypeOK, RunRecord
  <2>2. runs[r].phase = "working" /\ runs'[r].phase = "closing"
    BY <2>1 DEF RunStep, TypeOK, RunRecord
  <2>3. status \in Status
    BY DEF Status, Terminal
  <2> QED BY <2>2, <2>3 DEF RowChanges, SavesEnd, RowKept
<1>12. ASSUME NEW r \in Run, FinalPersist(r) PROVE RowChanges
  <2>1. runs[r].phase = "closing" /\ runs'[r].phase = "ended" /\ runs[r].status \in Status
    BY <1>12 DEF FinalPersist, RunStep, Gone, NoRun, TypeOK
  <2> QED BY <1>12, <2>1 DEF FinalPersist, RowChanges, SavesEnd, RowKept
<1>13. NextSlot \/ UNCHANGED vars => RowChanges
  BY DEF NextSlot, vars, RowChanges, RowKept
<1>14. ASSUME NEW p \in Process, Goroutine(p) PROVE RowChanges
  BY <1>2, <1>4, <1>6, <1>7, <1>14 DEF Goroutine, StartStep
<1>15. ASSUME NEW r \in Run, RunSteps(r) \/ Progress(r) PROVE RowChanges
  BY <1>9, <1>10, <1>11, <1>12, <1>15 DEF RunSteps
<1> QED BY <1>3, <1>5, <1>7, <1>8, <1>13, <1>14, <1>15 DEF Next, RecoveryStep

\* Breaches are not forgotten.
LEMMA BreachGrows ==
    ASSUME TypeOK, [Next]_vars
    PROVE  breach \subseteq breach'
<1>1. ASSUME NEW p \in Process, NEW k \in Starter, ClaimWon(p, k)
      PROVE  breach \subseteq breach'
  BY <1>1 DEF ClaimWon
<1>2. ASSUME RowChanges PROVE breach \subseteq breach'
  <2>1. ASSUME NEW r, NEW status, Merge(r, status) PROVE breach \subseteq breach'
    BY <2>1 DEF Merge
  <2>2. ASSUME WritesOff PROVE breach \subseteq breach'
    BY <2>2 DEF WritesOff, WriteOff
  <2> QED BY <1>2, <2>1, <2>2 DEF RowChanges, RowKept, SavesRunning, SavesOwn, SavesEnd
<1> QED BY <1>1, <1>2, RowChange

\* No step but a claim makes a run busy, and under the lock none touches
\* the status of the busy one.
LEMMA BusyStep ==
    ASSUME TypeOK, LaunchOwnsItsRun, LockedRun, [Next]_vars,
           \A p \in Process, k \in Starter : ~ClaimWon(p, k),
           NEW x \in Run, runs'[x].phase \in Busy
    PROVE  /\ runs[x].phase \in Busy
           /\ Locked => runs'[x].status = runs[x].status
<1>1. CASE runs' = runs
  BY <1>1
<1>2. ASSUME NEW p \in Process, NEW k \in Starter, Launch(p, k)
      PROVE  /\ runs[x].phase \in Busy
             /\ Locked => runs'[x].status = runs[x].status
  <2> DEFINE r == job[p][k].run
  <2>1. CASE x = r
    BY <1>2, <2>1, LaunchEffect DEF Busy
  <2>2. CASE x # r
    <3>1. runs'[x].phase = runs[x].phase
      BY <1>2, <2>2, LaunchEffect
    <3>2. ASSUME Locked PROVE runs'[x] = runs[x]
      <4>1. r \in Run /\ runs[r].phase \in Busy
        BY <1>2, LaunchEffect DEF Busy
      <4>2. x = Latest /\ r = Latest
        BY <3>1, <3>2, <4>1 DEF LockedRun
      <4> QED BY <2>2, <4>2
    <3> QED BY <3>1, <3>2
  <2> QED BY <2>1, <2>2
<1>3. ASSUME NEW r \in Run, RunSteps(r)
      PROVE  /\ runs[x].phase \in Busy
             /\ Locked => runs'[x].status = runs[x].status
  <2>1. CASE x # r
    BY <1>3, <2>1, RunStepEffect
  <2>2. CASE x = r /\ Begin(r)
    <3>1. runs[x] \in RunRecord
      BY DEF TypeOK, RunRecord
    <3>2. runs[x].phase = "launched" /\ runs'[x] = [runs[x] EXCEPT !.phase = "working"]
      BY <2>2 DEF Begin, RunStep, TypeOK
    <3> QED BY <3>1, <3>2 DEF RunRecord, Busy
  <2>3. CASE x = r /\ Finish(r)
    <3> PICK status \in {"completed", "failed", "rejected"} :
            RunStep(r, "working", [runs[r] EXCEPT !.phase = "closing", !.status = status])
      BY <2>3 DEF Finish
    <3>1. runs[r].phase = "working"
      BY DEF RunStep
    <3>2. runs[x] \in RunRecord
      BY DEF TypeOK, RunRecord
    <3>3. runs'[x].phase = "closing"
      BY <2>3, <3>2 DEF RunStep, TypeOK, RunRecord
    <3> QED BY <3>3 DEF Busy
  <2>4. CASE x = r /\ FinalPersist(r)
    BY <2>4 DEF FinalPersist, RunStep, TypeOK, Gone, NoRun, Busy
  <2> QED BY <1>3, <2>1, <2>2, <2>3, <2>4 DEF RunSteps
<1>4. ASSUME NEW p \in Process, Crash(p)
      PROVE  /\ runs[x].phase \in Busy
             /\ Locked => runs'[x].status = runs[x].status
  BY <1>4 DEF Crash, Gone, NoRun, Busy
<1> QED BY <1>1, <1>2, <1>3, <1>4, RunsChange

\* The lock holds from one step to the next.
LEMMA LockStep ==
    ASSUME TypeOK, ClaimedInOrder, UnclaimedIsNobodys, LaunchOwnsItsRun, LockedRun,
           [Next]_vars
    PROVE  LockedRun'
<1>0. SUFFICES ASSUME Locked', NEW x \in Run, runs'[x].phase \in Busy
               PROVE  x = Latest' /\ row'.status = "running" /\ runs'[x].status = "running"
  BY DEF LockedRun
<1>1. Locked
  BY <1>0, BreachGrows DEF Locked
<1>2. ASSUME NEW p \in Process, NEW k \in Starter, ClaimWon(p, k)
      PROVE  x = Latest' /\ row'.status = "running" /\ runs'[x].status = "running"
  <2>1. row'.status = "running" /\ \A r \in Run : runs[r].phase \notin Busy
    BY <1>1, <1>2 DEF ClaimWon, Claimable, Reusable, Terminal, LockedRun
  <2>2. x = Latest + 1
    BY <1>0, <1>2, <2>1, ClaimEffect
  <2>3. runs'[x].status = "running"
    <3>1. \/ runs'[Latest + 1] = Gone
          \/ runs'[Latest + 1] = [phase |-> "claimed", proc |-> p, status |-> "running"]
      BY <1>2, ClaimEffect
    <3>2. \/ runs'[x] = Gone
          \/ runs'[x] = [phase |-> "claimed", proc |-> p, status |-> "running"]
      BY <2>2, <3>1
    <3> QED BY <1>0, <3>2 DEF Gone, NoRun, Busy
  <2> QED BY <1>2, <2>1, <2>2, <2>3, ClaimOrder
<1>3. ASSUME \A p \in Process, k \in Starter : ~ClaimWon(p, k)
      PROVE  x = Latest' /\ row'.status = "running" /\ runs'[x].status = "running"
  <2>1. /\ x = Latest /\ Latest' = Latest
        /\ runs[x].phase \in Busy /\ row.status = "running" /\ runs[x].status = "running"
        /\ runs'[x].status = "running"
    BY <1>0, <1>1, <1>3, BusyStep, OtherOrder DEF LockedRun
  <2>2. ASSUME NEW r \in Run, NEW status \in Status, Merge(r, status) PROVE r = x
    <3>1. r = Latest \/ breach' = breach \cup {"late snapshot"}
      BY <2>2, MergeEffect
    <3>2. "late snapshot" \notin breach'
      BY <1>0 DEF Locked
    <3> QED BY <2>1, <3>1, <3>2
  <2>3. ASSUME NEW r \in Run, SavesRunning(r) PROVE row'.status = "running"
    BY <2>1, <2>3, MergeEffect DEF SavesRunning, Status, Terminal
  <2>4. ASSUME NEW r \in Run, SavesOwn(r) PROVE row'.status = "running"
    BY <2>1, <2>2, <2>4, MergeEffect DEF SavesOwn, TypeOK, Status, Terminal
  <2>5. ASSUME NEW r \in Run PROVE ~SavesEnd(r)
    BY <1>0, <2>2 DEF SavesEnd, Busy
  <2>6. ~WritesOff
    <3>1. "written off" \notin breach'
      BY <1>0 DEF Locked
    <3>2. ASSUME NEW seen, NEW status, NEW rec, WriteOff(seen, status, rec) PROVE FALSE
      BY <2>1, <3>1, <3>2, WriteOffEffect
    <3> QED BY <3>2 DEF WritesOff
  <2> QED BY <1>3, <2>1, <2>3, <2>4, <2>5, <2>6, RowChange DEF RowChanges, RowKept
<1> QED BY <1>2, <1>3

-----------------------------------------------------------------------------
(* The scheduler's claims *)

\* The scheduler's start leaves its rest only in a process that believes
\* that it leads, and it comes to claim only by deciding that a slot is due.
LEMMA SchedulerJobs ==
    ASSUME TypeOK, [Next]_vars, NEW q \in Process
    PROVE  /\ job'[q]["scheduler"].at # "rest" =>
                  job[q]["scheduler"].at # "rest" \/ q \in believes
           /\ job'[q]["scheduler"].at = "claim" =>
                  \/ job'[q]["scheduler"] = job[q]["scheduler"]
                  \/ Decide(q) /\ job'[q]["scheduler"].slot = now
<1> DEFINE Fine ==
        /\ job'[q]["scheduler"].at # "rest" =>
               job[q]["scheduler"].at # "rest" \/ q \in believes
        /\ job'[q]["scheduler"].at = "claim" =>
               \/ job'[q]["scheduler"] = job[q]["scheduler"]
               \/ Decide(q) /\ job'[q]["scheduler"].slot = now
<1>1. ASSUME job'[q]["scheduler"] = job[q]["scheduler"] PROVE Fine
  BY <1>1
<1>2. ASSUME NEW p \in Process, NEW k \in Starter, NEW new, SetJob(p, k, new),
             p # q \/ k # "scheduler"
      PROVE  Fine
  BY <1>1, <1>2, StartFrame DEF Starter
<1>3. ASSUME Decide(q) PROVE Fine
  <2>1. CASE Goto(q, "scheduler", "peek")
    BY <1>3, <2>1, StartFrame DEF Goto, Job, Starter, Decide
  <2>2. CASE SetJob(q, "scheduler", Job("claim", now, 0, NoRow))
    BY <1>3, <2>2, StartFrame DEF Job, Starter, Decide
  <2> QED BY <1>3, <2>1, <2>2 DEF Decide
<1>4. ASSUME Peek(q) PROVE Fine
  BY <1>4, StartFrame DEF Peek, Goto, Job, Starter
<1>5. ASSUME StartStep(q, "scheduler") PROVE Fine
  <2>1. job[q]["scheduler"].at \in {"claim", "launch"}
    BY <1>5 DEF StartStep, ClaimWon, ClaimLost, Launch
  <2>2. \/ Goto(q, "scheduler", "peek")
        \/ \E r : SetJob(q, "scheduler", Job("launch", 0, r, NoRow))
    BY <1>5 DEF StartStep, ClaimWon, ClaimLost, Launch, Resting
  <2>3. job'[q]["scheduler"].at # "claim"
    <3>1. CASE Goto(q, "scheduler", "peek")
      BY <3>1, StartFrame DEF Goto, Job, Starter
    <3>2. ASSUME NEW r, SetJob(q, "scheduler", Job("launch", 0, r, NoRow))
          PROVE  job'[q]["scheduler"].at # "claim"
      <4>1. job'[q]["scheduler"] = Job("launch", 0, r, NoRow)
        BY <3>2, StartFrame DEF Starter
      <4> QED BY <4>1 DEF Job
    <3> QED BY <2>2, <3>1, <3>2
  <2> QED BY <2>1, <2>3
<1>6. ASSUME NEW p \in Process, NEW k \in Starter, StartStep(p, k), p # q \/ k # "scheduler"
      PROVE  Fine
  <2>1. \E new : SetJob(p, k, new)
    BY <1>6 DEF StartStep, ClaimWon, ClaimLost, Launch, Goto
  <2> QED BY <1>2, <1>6, <2>1
<1>7. ASSUME NEW p \in Process, RestartStale(p) PROVE Fine
  BY <1>7, <1>2 DEF RestartStale, Starter
<1>8. ASSUME NEW p \in Process, ManualStart(p) PROVE Fine
  <2>1. job' = job \/ \E new : SetJob(p, "user", new)
    BY <1>8 DEF ManualStart
  <2> QED BY <1>1, <1>2, <2>1 DEF Starter
<1>9. ASSUME NEW p \in Process, p # q, Decide(p) \/ Peek(p) PROVE Fine
  <2>1. \E new : SetJob(p, "scheduler", new)
    BY <1>9 DEF Decide, Peek, Goto
  <2> QED BY <1>2, <1>9, <2>1 DEF Starter
<1>10. ASSUME NEW p \in Process, Crash(p) PROVE Fine
  BY <1>10 DEF Crash, NoJob, Job, TypeOK, Starter
<1>11. ASSUME NEW p \in Process, RecoveryStep(p) \/ LeaseStep(p) \/ LoseTouch(p) \/ Boot(p)
       PROVE  Fine
  BY <1>11, <1>1 DEF RecoveryStep, ListIncomplete, MarkRunInterrupted, LeaseStep,
     AcquireLease, LearnLead, LearnLoss, Expire, LoseTouch, Boot, ProcessVars
<1>12. ASSUME NEW r \in Run, RunSteps(r) \/ Progress(r) PROVE Fine
  BY <1>12, <1>1 DEF RunSteps, Begin, Finish, FinalPersist, Progress, RunStep
<1>13. NextSlot \/ UNCHANGED vars => Fine
  BY <1>1 DEF NextSlot, vars
<1>14. ASSUME NEW p \in Process, Goroutine(p) PROVE Fine
  BY <1>14, <1>3, <1>4, <1>5, <1>6, <1>7, <1>9 DEF Goroutine
<1> HIDE DEF Fine
<1>15. Fine
  BY <1>8, <1>10, <1>11, <1>12, <1>13, <1>14 DEF Next
<1> QED BY <1>15 DEF Fine

\* Leadership changes only in the renew loop and in a crash.
LEMMA LeaseChange ==
    ASSUME [Next]_vars
    PROVE  \/ UNCHANGED <<leader, believes>>
           \/ \E p \in Process : LearnLead(p) \/ LearnLoss(p) \/ LoseTouch(p) \/ Crash(p)
<1>1. ASSUME NEW p \in Process, Goroutine(p) \/ RecoveryStep(p) \/ ManualStart(p)
      PROVE  UNCHANGED <<leader, believes>>
  BY <1>1 DEF Goroutine, StartStep, Decide, Peek, RestartStale, ClaimWon, ClaimLost, Launch,
              RecoveryStep, ListIncomplete, MarkRunInterrupted, ManualStart
<1>2. ASSUME NEW p \in Process, Boot(p) \/ AcquireLease(p) \/ Expire(p)
      PROVE  UNCHANGED <<leader, believes>>
  BY <1>2 DEF Boot, AcquireLease, Expire, leaseVars, Lease!Grant, Lease!Vacate
<1>3. ASSUME NEW r \in Run, RunSteps(r) \/ Progress(r)
      PROVE  UNCHANGED <<leader, believes>>
  BY <1>3 DEF RunSteps, Begin, Finish, FinalPersist, Progress, RunStep
<1>4. NextSlot \/ UNCHANGED vars => UNCHANGED <<leader, believes>>
  BY DEF NextSlot, vars, leaseVars
<1> QED BY <1>1, <1>2, <1>3, <1>4 DEF Next, LeaseStep

\* As long as no leader loses touch, the schedulers of the others rest.
LEMMA SchedulerStep ==
    ASSUME TypeOK, OneScheduler, [Next]_vars
    PROVE  OneScheduler'
<1>0. SUFFICES ASSUME "lost touch" \notin breach'
               PROVE  /\ believes' \subseteq {leader'}
                      /\ \A q \in Process : job'[q]["scheduler"].at # "rest" => leader' = q
  BY DEF OneScheduler
<1>1. /\ believes \subseteq {leader}
      /\ \A q \in Process : job[q]["scheduler"].at # "rest" => leader = q
  BY <1>0, BreachGrows DEF OneScheduler
<1>2. \A q \in Process : job'[q]["scheduler"].at # "rest" => leader = q
  BY <1>1, SchedulerJobs
<1>3. CASE UNCHANGED <<leader, believes>>
  BY <1>1, <1>2, <1>3
<1>4. ASSUME NEW p \in Process, LearnLead(p)
      PROVE  /\ believes' \subseteq {leader'}
             /\ \A q \in Process : job'[q]["scheduler"].at # "rest" => leader' = q
  BY <1>1, <1>2, <1>4, BoundsAssumption DEF LearnLead, Lease!Act, TypeOK
<1>5. ASSUME NEW p \in Process, LearnLoss(p) \/ LoseTouch(p) PROVE FALSE
  BY <1>0, <1>1, <1>5 DEF LearnLoss, Lease!Forget, LoseTouch
<1>6. ASSUME NEW p \in Process, Crash(p)
      PROVE  /\ believes' \subseteq {leader'}
             /\ \A q \in Process : job'[q]["scheduler"].at # "rest" => leader' = q
  <2>1. job'[p]["scheduler"].at = "rest"
    BY <1>6 DEF Crash, NoJob, Job, TypeOK, Starter
  <2> QED BY <1>1, <1>2, <1>6, <2>1 DEF Crash, Lease!StepDown, Lease!Forget, leaseVars
<1> QED BY <1>3, <1>4, <1>5, <1>6, LeaseChange

\* A claim that the scheduler prepares is for a slot of the day.
LEMMA SlotStep ==
    ASSUME TypeOK, ClaimsAtASlot, [Next]_vars
    PROVE  ClaimsAtASlot'
  BY SchedulerJobs DEF ClaimsAtASlot, Decide, Due, NeedsRetry

\* What a step may do to the scheduler's claims and to the slots spent.
LEMMA ClaimsChange ==
    ASSUME [Next]_vars, \A p \in Process, k \in Starter : ~ClaimWon(p, k)
    PROVE  claims' = claims
<1>1. ASSUME NEW p \in Process, Goroutine(p) \/ RecoveryStep(p) \/ ManualStart(p)
      PROVE  claims' = claims
  BY <1>1 DEF Goroutine, StartStep, Decide, Peek, RestartStale, ClaimLost, Launch,
              RecoveryStep, ListIncomplete, MarkRunInterrupted, ManualStart
<1>2. ASSUME NEW p \in Process, Boot(p) \/ LeaseStep(p) \/ LoseTouch(p) \/ Crash(p)
      PROVE  claims' = claims
  BY <1>2 DEF Boot, LeaseStep, AcquireLease, LearnLead, LearnLoss, Expire, LoseTouch, Crash,
              ProcessVars
<1>3. ASSUME NEW r \in Run, RunSteps(r) \/ Progress(r) PROVE claims' = claims
  BY <1>3 DEF RunSteps, Begin, Finish, FinalPersist, Progress, RunStep
<1>4. NextSlot \/ UNCHANGED vars => claims' = claims
  BY DEF NextSlot, vars
<1> QED BY <1>1, <1>2, <1>3, <1>4 DEF Next

\* The claims of a slot never outnumber the runs.
LEMMA ClaimsStep ==
    ASSUME TypeOK, ClaimedInOrder, UnclaimedIsNobodys, LaunchOwnsItsRun, ClaimsAreRuns,
           [Next]_vars
    PROVE  ClaimsAreRuns'
<1>1. ASSUME NEW p \in Process, NEW k \in Starter, ClaimWon(p, k)
      PROVE  ClaimsAreRuns'
  <2>1. \A s \in Slot : claims'[s] = claims[s] \/ claims'[s] = claims[s] + 1
    BY <1>1 DEF ClaimWon, TypeOK
  <2>2. \A s \in Slot : claims[s] <= Latest
    BY DEF ClaimsAreRuns
  <2>3. Latest' = Latest + 1 /\ Latest \in 0 .. MaxRuns
    BY <1>1, ClaimOrder DEF ClaimedInOrder
  <2>4. \A s \in Slot : claims[s] \in 0 .. MaxRuns
    BY DEF TypeOK
  <2> HIDE DEF Latest
  <2>5. \A s \in Slot : claims'[s] <= Latest'
    BY <2>1, <2>2, <2>3, <2>4, NatBounds
  <2> QED BY <2>5 DEF ClaimsAreRuns
<1>2. ASSUME \A p \in Process, k \in Starter : ~ClaimWon(p, k)
      PROVE  ClaimsAreRuns'
  BY <1>2, ClaimsChange, OtherOrder DEF ClaimsAreRuns
<1> QED BY <1>1, <1>2

\* A step spends a slot for one process at most, and takes no spending back:
\* a process that dies counts as having spent every slot.
LEMMA SpentChange ==
    ASSUME TypeOK, [Next]_vars, NEW s \in Slot
    PROVE  \E q : Spent(s) \subseteq Spent(s)' /\ Spent(s)' \subseteq Spent(s) \cup {q}
<1> DEFINE Good == \E q : Spent(s) \subseteq Spent(s)' /\ Spent(s)' \subseteq Spent(s) \cup {q}
<1>1. ASSUME retried' = retried, up' = up PROVE Good
  BY <1>1 DEF Spent
<1>2. ASSUME NEW p \in Process, SpendRetry(p), up' = up PROVE Good
  <2>1. \A q \in Process : q # p => retried'[q] = retried[q]
    BY <1>2 DEF SpendRetry, TypeOK
  <2>2. retried[p] \subseteq retried'[p]
    BY <1>2 DEF SpendRetry, TypeOK
  <2> QED BY <1>2, <2>1, <2>2 DEF Spent
<1>3. ASSUME NEW p \in Process, Boot(p) PROVE Good
  <2>1. \A q \in Process : up'[q] = "dead" <=> up[q] = "dead"
    BY <1>3 DEF Boot, TypeOK
  <2> QED BY <1>3, <2>1 DEF Boot, ProcessVars, Spent
<1>4. ASSUME NEW p \in Process, Crash(p) PROVE Good
  <2>1. \A q \in Process : q # p => retried'[q] = retried[q] /\ up'[q] = up[q]
    BY <1>4 DEF Crash, TypeOK
  <2>2. up'[p] = "dead"
    BY <1>4 DEF Crash, TypeOK
  <2> QED BY <2>1, <2>2 DEF Spent
<1>5. ASSUME NEW p \in Process, Decide(p) \/ Peek(p) PROVE Good
  BY <1>2, <1>5 DEF Decide, Peek
<1> HIDE DEF Good
<1>6. ASSUME NEW p \in Process, RestartStale(p) \/ RecoveryStep(p) \/ ManualStart(p)
      PROVE  Good
  BY <1>1, <1>6 DEF RestartStale, RecoveryStep, ListIncomplete, MarkRunInterrupted, ManualStart
<1>7. ASSUME NEW p \in Process, LeaseStep(p) \/ LoseTouch(p) PROVE Good
  BY <1>1, <1>7 DEF LeaseStep, AcquireLease, LearnLead, LearnLoss, Expire, LoseTouch, ProcessVars
<1>8. ASSUME NEW p \in Process, NEW k \in Starter, StartStep(p, k) PROVE Good
  BY <1>1, <1>8 DEF StartStep, ClaimWon, ClaimLost, Launch
<1>9. ASSUME NEW r \in Run, RunSteps(r) \/ Progress(r) PROVE Good
  BY <1>1, <1>9 DEF RunSteps, Begin, Finish, FinalPersist, Progress, RunStep
<1>10. NextSlot \/ UNCHANGED vars => Good
  BY <1>1 DEF NextSlot, vars
<1>11. ASSUME NEW p \in Process, Goroutine(p) PROVE Good
  BY <1>11, <1>5, <1>6, <1>8 DEF Goroutine
<1>12. Good
  BY <1>3, <1>4, <1>6, <1>7, <1>9, <1>10, <1>11 DEF Next
<1> QED BY <1>12 DEF Good

\* So the count of those that spent a slot only grows.
LEMMA SpentGrows ==
    ASSUME TypeOK, [Next]_vars, NEW s \in Slot, IsFiniteSet(Spent(s))
    PROVE  /\ IsFiniteSet(Spent(s)')
           /\ Spent(s) \subseteq Spent(s)'
           /\ Cardinality(Spent(s)) \in Nat /\ Cardinality(Spent(s)') \in Nat
           /\ Cardinality(Spent(s)) <= Cardinality(Spent(s)')
<1> DEFINE S == Spent(s) T == Spent(s)'
<1>1. PICK q : S \subseteq T /\ T \subseteq S \cup {q}
  BY SpentChange
<1>2. IsFiniteSet(S)
  OBVIOUS
<1> HIDE DEF S, T
<1>3. IsFiniteSet(S \cup {q})
  BY <1>2, FS_AddElement
<1>4. IsFiniteSet(T)
  BY <1>1, <1>3, FS_Subset
<1>5. Cardinality(S) <= Cardinality(T) /\ Cardinality(S) \in Nat /\ Cardinality(T) \in Nat
  BY <1>1, <1>2, <1>4, FS_Subset, FS_CardinalityType
<1> QED BY <1>1, <1>4, <1>5 DEF S, T

\* A claim turns a prepared claim into one that counts; while nobody lost
\* touch no other was prepared.
LEMMA SpentByClaim ==
    ASSUME IInv, NEW p \in Process, NEW k \in Starter, ClaimWon(p, k), [Next]_vars,
           breach' = {}, NEW s \in Slot
    PROVE  /\ row'.slot < s => claims'[s] = 0
           /\ claims'[s] <= 1 + Cardinality(Spent(s)')
           /\ Pending(s)' => claims'[s] <= Cardinality(Spent(s)')
<1> DEFINE slot == job[p][k].slot
           C == Cardinality(Spent(s))  D == Cardinality(Spent(s)')
<1>1. breach = {} /\ ~(slot < row.slot) /\ row'.slot = slot
  BY DEF ClaimWon
<1>2. /\ row.slot < s => claims[s] = 0
      /\ claims[s] <= 1 + C
      /\ Pending(s) => claims[s] <= C
  BY <1>1 DEF IInv, ClaimsAreSpent
<1>3. C \in Nat /\ D \in Nat /\ C <= D
  BY SpentGrows DEF IInv, ClaimsAreSpent
<1>4. slot \in 0 .. MaxSlot /\ row.slot \in 0 .. MaxSlot
  <2>1. job \in Jobs /\ row \in Row
    BY DEF IInv, TypeOK, Jobs, JobRecord
  <2> QED BY <2>1 DEF Jobs, JobRecord, Row
<1>5. claims[s] \in Nat /\ s \in Nat
  <2>1. claims[s] \in 0 .. MaxRuns
    BY DEF IInv, TypeOK
  <2> QED BY <2>1, NatBounds DEF Slot
<1>6. claims'[s] = IF k = "scheduler" /\ slot = s THEN claims[s] + 1 ELSE claims[s]
  BY DEF ClaimWon, IInv, TypeOK
<1>7. k = "scheduler" /\ slot = s => Pending(s)
  BY DEF ClaimWon, Pending
<1>8. ASSUME Pending(s)' PROVE Pending(s) /\ k # "scheduler"
  <2>1. PICK q \in Process : job'[q]["scheduler"].at = "claim" /\ job'[q]["scheduler"].slot = s
    BY <1>8 DEF Pending
  <2>2. q # p \/ k # "scheduler"
    <3>1. ASSUME k = "scheduler" PROVE job'[p]["scheduler"].at # "claim"
      <4>1. CASE Goto(p, k, Resting(k))
        BY <3>1, <4>1, StartFrame DEF Goto, Job, Resting, IInv
      <4>2. CASE SetJob(p, k, Job("launch", 0, Latest + 1, NoRow))
        BY <3>1, <4>2, StartFrame DEF Job, IInv
      <4> QED BY <4>1, <4>2 DEF ClaimWon
    <3> QED BY <2>1, <3>1
  <2>3. job'[q]["scheduler"] = job[q]["scheduler"]
    <3>1. PICK new : SetJob(p, k, new)
      BY DEF ClaimWon, Goto
    <3>2. TypeOK /\ "scheduler" \in Starter
      BY DEF IInv, Starter
    <3> QED BY <2>2, <3>1, <3>2, StartFrame
  <2>4. Pending(s)
    BY <2>1, <2>3 DEF Pending
  <2>5. k # "scheduler"
    <3>1. SUFFICES ASSUME k = "scheduler" PROVE FALSE
      OBVIOUS
    <3>2. leader = p /\ leader = q
      BY <1>1, <2>1, <2>3, <3>1 DEF IInv, OneScheduler, ClaimWon
    <3> QED BY <2>2, <3>1, <3>2
  <2> QED BY <2>4, <2>5
<1> HIDE DEF slot, C, D
<1>9. row'.slot < s => claims'[s] = 0
  <2>1. SUFFICES ASSUME slot < s PROVE claims'[s] = 0
    BY <1>1
  <2>2. slot # s /\ row.slot < s
    BY <1>1, <1>4, <1>5, <2>1, NatBounds
  <2> QED BY <1>2, <1>6, <2>2
<1>10. claims'[s] <= 1 + D /\ (Pending(s)' => claims'[s] <= D)
  BY <1>2, <1>3, <1>5, <1>6, <1>7, <1>8
<1> QED BY <1>9, <1>10 DEF D

\* Every other step that is no breach leaves started_at alone, and what it
\* prepares is the first claim of the slot or is paid by a retry spent.
LEMMA SpentByOthers ==
    ASSUME IInv, [Next]_vars, \A p \in Process, k \in Starter : ~ClaimWon(p, k),
           breach' = {}, NEW s \in Slot
    PROVE  /\ row'.slot < s => claims'[s] = 0
           /\ claims'[s] <= 1 + Cardinality(Spent(s)')
           /\ Pending(s)' => claims'[s] <= Cardinality(Spent(s)')
<1>1. breach = {}
  BY BreachGrows DEF IInv
<1>2. row'.slot = row.slot
  <2>1. ASSUME NEW r, NEW status \in Status, Merge(r, status) PROVE row'.slot = row.slot
    BY <2>1, MergeEffect DEF IInv
  <2>2. ASSUME WritesOff PROVE row'.slot = row.slot
    <3> PICK seen \in Row, status \in {"cancelled", "failed"}, rec \in BOOLEAN :
             WriteOff(seen, status, rec)
      BY <2>2 DEF WritesOff
    <3>1. "written off" \notin breach'
      OBVIOUS
    <3> QED BY <3>1, WriteOffEffect DEF IInv
  <2>3. ASSUME NEW r \in Run, SavesRunning(r) \/ SavesOwn(r) \/ SavesEnd(r)
        PROVE  row'.slot = row.slot
    <3>1. "running" \in Status /\ runs[r].status \in Status
      BY DEF IInv, TypeOK, Status
    <3> QED BY <2>1, <2>3, <3>1 DEF SavesRunning, SavesOwn, SavesEnd
  <2>4. RowChanges
    BY RowChange DEF IInv
  <2> QED BY <2>2, <2>3, <2>4 DEF RowChanges, RowKept
<1>3. claims' = claims
  BY ClaimsChange
<1> DEFINE C == Cardinality(Spent(s))  D == Cardinality(Spent(s)')
<1>4. C \in Nat /\ D \in Nat /\ C <= D
  BY SpentGrows DEF IInv, ClaimsAreSpent
<1>5. /\ row.slot < s => claims[s] = 0
      /\ claims[s] <= 1 + C
      /\ Pending(s) => claims[s] <= C
  BY <1>1 DEF IInv, ClaimsAreSpent
<1>6. claims[s] \in Nat
  <2>1. claims[s] \in 0 .. MaxRuns
    BY DEF IInv, TypeOK
  <2> QED BY <2>1, NatBounds
<1>7. ASSUME Pending(s)' PROVE claims'[s] <= D
  <2>1. PICK q \in Process : job'[q]["scheduler"].at = "claim" /\ job'[q]["scheduler"].slot = s
    BY <1>7 DEF Pending
  <2>2. CASE job'[q]["scheduler"] = job[q]["scheduler"]
    <3>1. Pending(s)
      BY <2>1, <2>2 DEF Pending
    <3> HIDE DEF C, D
    <3> QED BY <1>3, <1>4, <1>5, <1>6, <3>1
  <2>3. CASE Decide(q) /\ s = now /\ row.slot < now
    <3> HIDE DEF C, D
    <3> QED BY <1>3, <1>4, <1>5, <2>3
  <2>4. CASE Decide(q) /\ s = now /\ NeedsRetry(q)
    <3>1. q \notin Spent(s)
      BY <2>4 DEF NeedsRetry, Spent, Decide, Up
    <3>2. q \in Spent(s)'
      BY <2>4 DEF Decide, SpendRetry, Spent, IInv, TypeOK
    <3> DEFINE S == Spent(s)  T == Spent(s)'
    <3>3. IsFiniteSet(S) /\ IsFiniteSet(T) /\ S \subseteq T
      BY SpentGrows DEF IInv, ClaimsAreSpent
    <3>4. C = Cardinality(S) /\ D = Cardinality(T) /\ q \notin S /\ q \in T
      BY <3>1, <3>2
    <3> HIDE DEF S, T, C, D
    <3>5. C # D
      BY <3>3, <3>4, FS_Subset
    <3> QED BY <1>3, <1>4, <1>5, <1>6, <3>5
  <2>5. job'[q]["scheduler"] = job[q]["scheduler"] \/ (Decide(q) /\ s = now)
    BY <2>1, SchedulerJobs DEF IInv
  <2> QED BY <2>2, <2>3, <2>4, <2>5 DEF Decide, Due
<1> HIDE DEF C, D
<1>8. claims'[s] <= 1 + D
  BY <1>3, <1>4, <1>5, <1>6
<1> QED BY <1>2, <1>3, <1>5, <1>7, <1>8 DEF D

\* Claims stay within what has been spent.
LEMMA SpentStep ==
    ASSUME IInv, [Next]_vars
    PROVE  ClaimsAreSpent'
<1>1. ASSUME NEW s \in Slot PROVE IsFiniteSet(Spent(s)')
  BY SpentGrows DEF IInv, ClaimsAreSpent
<1>2. ASSUME NEW s \in Slot, breach' = {}
      PROVE  /\ row'.slot < s => claims'[s] = 0
             /\ claims'[s] <= 1 + Cardinality(Spent(s)')
             /\ Pending(s)' => claims'[s] <= Cardinality(Spent(s)')
  BY <1>2, SpentByClaim, SpentByOthers
<1> QED BY <1>1, <1>2 DEF ClaimsAreSpent

-----------------------------------------------------------------------------
(* The theorems *)

\* The inductive invariant holds in the initial states.
LEMMA InitIInv == Init => IInv
<1> SUFFICES ASSUME Init PROVE IInv
  OBVIOUS
<1>1. TypeOK
  BY InitType
<1>2. \A r \in Run : runs[r] = NoRun
  BY DEF Init
<1>3. Latest = 0 /\ ClaimedInOrder
  <2>1. \A r \in Run : runs[r].phase # "none" <=> r <= 0
    BY <1>2 DEF NoRun, Run
  <2>2. Cardinality({r \in Run : runs[r].phase # "none"}) = 0
    BY <2>1, CountOf, NatBounds
  <2> QED BY <2>1, <2>2, NatBounds DEF Latest, ClaimedInOrder
<1>4. \A p \in Process, k \in Starter : job[p][k].at = "rest"
  BY DEF Init, NoJob, Job
<1>5. UnclaimedIsNobodys /\ LaunchOwnsItsRun /\ LockedRun
  BY <1>2, <1>4 DEF UnclaimedIsNobodys, LaunchOwnsItsRun, Launching, LockedRun, NoRun, Busy
<1>6. OneScheduler /\ ClaimsAtASlot
  BY <1>4 DEF Init, Lease!Init, OneScheduler, ClaimsAtASlot, Starter
<1>7. ClaimsAreRuns
  BY <1>3 DEF Init, ClaimsAreRuns
<1>8. ClaimsAreSpent
  <2>1. ASSUME NEW s \in Slot PROVE Spent(s) = {} /\ ~Pending(s) /\ claims[s] = 0
    BY <1>4 DEF Init, Spent, Pending, Starter
  <2> QED BY <2>1, FS_EmptySet DEF ClaimsAreSpent
<1> QED BY <1>1, <1>3, <1>5, <1>6, <1>7, <1>8 DEF IInv

\* Every step keeps it.
LEMMA NextIInv == IInv /\ [Next]_vars => IInv'
<1> SUFFICES ASSUME IInv, [Next]_vars PROVE IInv'
  OBVIOUS
<1>1. TypeOK'
  BY NextType DEF IInv
<1>2. ClaimedInOrder' /\ UnclaimedIsNobodys'
  BY ClaimOrder, OtherOrder DEF IInv
<1>3. LaunchOwnsItsRun' /\ LockedRun' /\ OneScheduler'
  BY LaunchStep, LockStep, SchedulerStep DEF IInv
<1>4. ClaimsAtASlot' /\ ClaimsAreRuns' /\ ClaimsAreSpent'
  BY SlotStep, ClaimsStep, SpentStep DEF IInv
<1> QED BY <1>1, <1>2, <1>3, <1>4 DEF IInv

\* The inductive invariant.
LEMMA Invariance == Spec => []IInv
  BY InitIInv, NextIInv, PTL DEF Spec

\* Whatever processes start, claim, crash and recover, the row, the jobs,
\* the runs and the registry keep their types, and the scheduler's claims of
\* a slot stay within the claims of the day.
THEOREM TypeCorrect == Spec => []TypeOK
<1>1. IInv => TypeOK
  BY DEF IInv
<1> QED BY <1>1, Invariance, PTL

\* fund_repo.go:2380: the row is the lock.  Unless a row was written off
\* under a live run or an older run saved over a newer claim, at most the
\* run of the latest claim is busy, and the row then says running.
THEOREM RowLocks == Spec => []RowIsTheLock
<1>1. IInv => RowIsTheLock
  BY DEF IInv, LockedRun, Locked, RowIsTheLock
<1> QED BY <1>1, Invariance, PTL

\* workflow_scheduler.go:727: however often processes crash and leaders
\* change, the scheduler claims a slot once, and once more for each process
\* that spent its retry on it or died, unless exclusiveness was given up.
THEOREM SlotClaimedOnce == Spec => []OneClaimPerSlot
<1>1. IInv => OneClaimPerSlot
  BY DEF IInv, ClaimsAreSpent, Spent, OneClaimPerSlot
<1> QED BY <1>1, Invariance, PTL

\* fund_repo.go:3071: no snapshot, recovery or restart brings a day back
\* from a final status to running; only a new claim does.
THEOREM FinalStaysFinal == Spec => TerminalIsFinal
<1>1. ASSUME IInv, [Next]_vars, row.status \in Terminal, row'.status = "running"
      PROVE  Latest' > Latest
  <2>1. ASSUME NEW p \in Process, NEW k \in Starter, ClaimWon(p, k) PROVE Latest' > Latest
    <3>1. Latest' = Latest + 1 /\ Latest \in 0 .. MaxRuns
      BY <1>1, <2>1, ClaimOrder DEF IInv, ClaimedInOrder
    <3> HIDE DEF Latest
    <3> QED BY <3>1, NatBounds
  <2>2. ASSUME NEW r, NEW status \in Status, Merge(r, status) PROVE FALSE
    BY <1>1, <2>2, MergeEffect DEF IInv, Terminal
  <2>3. ASSUME NEW r \in Run PROVE ~SavesRunning(r) /\ ~SavesOwn(r) /\ ~SavesEnd(r)
    <3>1. "running" \in Status /\ runs[r].status \in Status
      BY <1>1 DEF IInv, TypeOK, Status
    <3> QED BY <2>2, <3>1 DEF SavesRunning, SavesOwn, SavesEnd
  <2>4. ~WritesOff
    <3>1. ASSUME NEW seen, NEW status \in {"cancelled", "failed"}, NEW rec,
                 WriteOff(seen, status, rec)
          PROVE  FALSE
      BY <1>1, <3>1, WriteOffEffect DEF IInv
    <3> QED BY <3>1 DEF WritesOff
  <2>5. ~RowKept
    BY <1>1 DEF RowKept, Terminal
  <2>6. \E p \in Process, k \in Starter : ClaimWon(p, k)
    BY <1>1, <2>3, <2>4, <2>5, RowChange DEF IInv, RowChanges
  <2> QED BY <2>1, <2>6
<1>2. IInv /\ [Next]_vars
      => [row.status \in Terminal /\ row'.status = "running" => Latest' > Latest]_vars
  BY <1>1
<1> QED BY <1>2, Invariance, PTL DEF Spec, TerminalIsFinal
=============================================================================
