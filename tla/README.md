# TLA+ models of the agora-ai server

agora-ai runs funds that are managed by language-model agents. The Go server
(`src/server`) holds all of the system's durable state in PostgreSQL and is
deployed as several identical replicas; everything that must happen *once* –
a fund's daily decision, the settlement of an auction, the delivery of an event
– is decided by rows, row locks and leases that those replicas share. This
directory models that core, checks it with TLC on small instances and proves its
safety properties for every value of the constants with TLAPS.

Contents: [inventory](#1-inventory) · [plan](#2-plan) · [modules](#3-modules) ·
[runs](#4-runs-and-what-they-show) · [bounds](#5-bounds) ·
[fairness](#6-fairness) · [proofs](#7-proofs) ·
[findings](#8-what-the-models-say-about-the-documentation) ·
[not modelled](#9-what-is-not-modelled).

## 1. Inventory

Paths are relative to `src/server`. "Modelled by" is empty where nothing is.

| Component | State | Operations | Modelled by |
|---|---|---|---|
| Scheduler lease (`internal/scheduler/lease.go`) | row of `scheduler_leases`; per process the renew loop and the flag `IsLeader` reads | Register, acquire/renew (UPSERT), release (DELETE), Stop | `SchedulerLease`, `LeaderTenure` |
| Workflow scheduler (`cmd/server/workflow_scheduler.go`) | next trigger, `recoveryRetries` in memory | due decision, catch-up, start, sleep | `WorkflowRuns` (interval funds) |
| Workflow start and runtime registry (`cmd/server/wiring_adapters.go`) | `workflow_runs` row, map of runtimes in memory | scheduled start, start by hand, restart of stale rows, event persistence | `WorkflowRuns` |
| Workflow recovery (`cmd/server/workflow_recovery.go`) | one goroutine per process | list incomplete runs, write them off, resume paused ones | `WorkflowRuns` (running rows), `PlanApproval` (paused rows) |
| Workflow run repository (`internal/repository/fund_repo.go`) | `workflow_runs` | claim, merge, update, list | `WorkflowRuns` |
| Daily orchestrator (`internal/workflow/daily.go`) | state of a run in memory | run, events, cancel | `WorkflowRuns` (life of a run) |
| Plan approval, resume and execution (`cmd/server/wiring_adapters.go`, `internal/workflow/daily.go`) | plan, actions, trades, lots, positions; the run that waits, the registry | approve, reject, resume from the row, recovery of paused runs, Execute | `PlanApproval` (plans of buys that a person decides) |
| Auctions (`cmd/server/marketplace_auction_adapter.go`, `auction_settlement_loop.go`) | listings, bids | place bid, settle (loop, seller) | `AuctionLedger`, `AuctionEscrow` |
| Wallet and holds (`internal/repository/wallet_*.go`) | balances, ledger entries, holds | hold, release, capture, transfer, credit | `AuctionLedger`, `AuctionEscrow` |
| Listings (`internal/marketplace/listing.go`, `internal/repository/marketplace_repo.go`) | listing status | cancel, purchase | `AuctionLedger`, `AuctionEscrow` (where they meet auctions) |
| Transactional outbox (`internal/outbox`) | `outbox_events`, one flusher per process | enqueue, consume a batch, drain, poll | `AtLeastOnce`, `Outbox` |
| Simulated broker, order replay | orders, positions | submit, match, restore | – |
| Stop triggers and exits | trigger rows | poll, fire | – |
| Lot ledger, corporate actions | lots | open, close, split | – |
| Market calendar | tables | sessions, trigger slots | – (slots are numbers in `WorkflowRuns`) |
| JWT key rotation (`internal/secrets`, `cmd/server/jwt_rotation_*.go`) | `jwt_keyring`; per process a ring and the time of its last trigger | boot, seed, trigger, rotate on an outbox event, prune, sign, verify | `KeyRotation` |
| Advisor quota and credits (`internal/advisorbilling`, `cmd/server/advisor_*handler.go`) | monthly usage, credits, orders | check, consult, consume, reverse, checkout, paid and refunded webhooks | `AdvisorBilling` |
| Subscriptions (`internal/subscription`, `cmd/server/subscription_webhook.go`) | `user_subscriptions`, marks of webhooks | six webhooks, subscribe, cancel, effective plan | `Subscriptions` |
| Quota of workflows | counters | admit, refuse | – (a refusal is a branch of `WorkflowRuns`) |
| Agents and language models | prompts, scores | route, call, evaluate | – |
| Audit, surveillance, reconciliation | append-only rows | record, report | – |
| HTTP API; web, app and mini-program clients; Python services | – | – | – |

**Interactions.** Every loop that must not run twice asks `IsLeader` of the
lease before each round. On the leader the scheduler loop and the recovery
goroutine start side by side and meet in the `workflow_runs` row; the goroutines
of runs, on whatever replica claimed them, save snapshots into the same row, and
starts by hand may come through any replica. Auctions, listings and wallets meet
in database transactions under row locks: bids, purchases and recharges come
from users, settlements from a loop on the leader and from sellers. The outbox
is filled inside business transactions and emptied by a flusher in *every*
replica, which needs no leader; one of its events is the rotation of the keys
that sign sessions, which changes the table for all replicas and the ring in
memory of one. A plan that waits for its user is decided by a request to any
replica, while the run that waits polls the plan from the replica that claimed
the day. What users pay comes in by webhooks of the payment service, in any
order, more than once or never, and is read by requests that act on it later.

**What is hard.** Beliefs that outlive the lease row; statements that execute
after their sender gave up or died; recovery that takes a live run for a dead
one; unconditional updates from an old copy; late snapshots of a displaced run;
decisions with a side effect that are evaluated more than once; lock orders that
differ between transactions; balances computed in the program and written as
absolute values; sinks that heard an event whose transaction was rolled back;
rings of keys read early and installed late; a consultation admitted on a count
that others have used up when it is charged; webhooks that overtake each other;
two goroutines that take themselves for the owner of one plan; books that are
deleted and written again between a crash and its recovery.
`PROJECT.json` lists these hazards at their lines, each with the properties that
would catch it going wrong.

**What makes each part correct.**

- *Lease*: a process that has missed at most one renewal and believes it leads
  owns an unexpired row; leadership passes only through a vacancy; after a crash
  someone leads again.
- *Workflow runs*: the row is the lock of the day: only the run of the latest
  claim works, and the row says so; a slot is claimed once, plus the permitted
  retries; an ended day returns to running only by a claim; an orphaned row is
  written off.
- *Auctions and wallet*: every request is atomic in effect; money is in a wallet
  or a hold and nowhere else; an open auction's top bid is the highest and the
  only funded one; a settled auction holds nobody's money; every auction is
  settled in the end.
- *Outbox*: what was rolled back is never heard, nothing is heard after it is
  settled, nothing counts as consumed before the last sink accepted it, and
  every event that can be accepted is.
- *Keys*: a token signed with the active key is good to its end at every process
  that knows the key; a process that is up to date signs with the newest key;
  aged keys are replaced.
- *Advisor*: the plan pays for no more than its limit, each month's counter is
  what was paid in it, credits are neither made nor lost, nobody consults for
  nothing but by a race, and what was paid arrives once.
- *Subscriptions*: nobody is served beyond what was paid, no webhook is applied
  twice, and whoever paid is served.
- *Plans*: a completed plan is in the books once; a rejected plan trades no more;
  an approved plan is picked up, by whichever of its three ways.

## 2. Plan

Order of work, the most important behaviour first.

| # | Module | Composes / implements | State |
|---|---|---|---|
| 1 | `LeaderTenure` | abstract: exclusive tenures | done |
| 2 | `SchedulerLease` | implements `LeaderTenure` | done, proved |
| 3 | `WorkflowRuns` | composes with `LeaderTenure` (its lease steps *are* the steps of that module) | done, proved |
| 4 | `AuctionLedger` | abstract: every request one step | done, proved |
| 5 | `AuctionEscrow` | extends and implements `AuctionLedger` | done, proved |
| 6 | `AtLeastOnce` | abstract: a queue that delivers at least once | done |
| 7 | `Outbox` | implements `AtLeastOnce` | done, proved |
| 8 | `KeyRotation` | what a sink of `Outbox` does | done, proved |
| 9 | `AdvisorBilling` | – | done, proved |
| 10 | `Subscriptions` | – | done, proved |
| 11 | `PlanApproval` | its row of the run is that of `WorkflowRuns` after the approval step | done, proved |
| 12 | order life cycle of the simulated broker with replay after a restart | – | open |
| 13 | what survives of the violated properties, each under the condition that excludes its counterexample | – | open |

"Proved" is said of safety. The liveness properties rest on fairness and
enabledness, which the prover does not handle, and stay with TLC.

## 3. Modules

Each module's comments name the code; `PROJECT.json` maps every definition to
its lines.

### LeaderTenure, SchedulerLease, SchedulerLeaseProofs, MCSchedulerLease

`LeaderTenure` says what loops guarded by the lease may rely on: one owner, one
leader by right inside its own tenure, and a set of processes that *believe*
they lead, which may include some that have lost touch.

`SchedulerLease` is `lease.go`: `holder`/`left` are the row and the time to its
expiry on the database's clock; `pc`, `stmt`, `clk`, `stopping` are the renew
goroutine, the statement in flight and its timers; `held` is `heldFlag`;
`misses` counts failed calls in a row (only a property reads it); `orphan` holds
statements whose caller gave up and which may still execute – before or after
the process died. A statement is sent, executed and answered in three separate
steps, so an answer may be lost after the row changed. A process is one
incarnation, because a restarted server draws a new holder id.

### WorkflowRuns, WorkflowRunsProofs, MCWorkflowRuns

One fund and one day. `row` is `workflow_runs` (status, slot = `started_at`, and
whether the error is the recovery's); `job` is a start in progress in a process
(`Decide`/`ManualStart` → `RestartStale` → `ClaimWon`/`ClaimLost` → `Launch`),
`current` the runtime registry, `runs` the orchestrator's runs
(`Begin`, `Progress`, `Finish`, `FinalPersist`), `recovery` the goroutine of
`runRecoveryWhenLeader`, `retried` the `recoveryRetries` map. `owner`, `leader`,
`believes` and the lease's steps come from `LeaderTenure`, so whatever is found
here holds for every implementation of it, `SchedulerLease` in particular.

A step is what happens between two statements. Merged steps, and why that is
harmless: `Decide` reads the row and peeks at the local runtime in one step (the
runtime matters only if it is active, and an active runtime is re-read under the
claim); `FinalPersist` checks the registry and saves in one step, the window of
that check being open to the wider race that `Progress` covers, which saves
without any check. `now` counts trigger slots; the grace window of a slot is the
time until the next one. A refusal by quota, a failed read and a skipped start
are one nondeterministic branch of `Decide`.

`claims` and `breach` are history. `breach` records *how* exclusiveness was given
up (a leader lost touch, an older slot was stamped, a row was written off under
a live run, an older run saved a snapshot), so that the safety properties can say
exactly which of those they survive.

### AuctionLedger, AuctionEscrow, AuctionProofs, MCAuctionEscrow

`AuctionLedger` is the promise: `PlaceBid`, `Sell`, `CloseUnsold`,
`CancelListing`, `PurchaseListing` and `Recharge` are each one step on
`balance`, `bids` (with the hold of each) and `listing`.

`AuctionEscrow` extends it with what really runs: a request is a transaction
`tx[s]` of some session that takes the listing's lock (`Enter`), then works
through postings (`Post`), taking wallet locks in the order of the code –
sorted inside `TransferWithTx`, but winner first in a capture and bidder before
beaten bidder in a bid – computing balances in the program, and writing them as
absolute values with the commit. `Refuse` is an insufficient balance,
`BreakDeadlock` the database's choice of a victim, `Abort` a crash, timeout or
failed clone; all undo everything. A refused request leaves no trace, and waiting
for the listing lock is part of making the request, because nothing read before
the lock is used after it. The one exception is kept: a bid's time is read before
it waits for wallets, so `AntiSnipe` extends from a time that may have passed.

Bid and hold rows are touched only under the listing lock, so they need no locks
of their own here.

### AtLeastOnce, Outbox, OutboxProofs, MCOutbox

`AtLeastOnce` is the promise of `outbox.go`: publish, hear (sinks in order),
condemn, settle a batch.

`Outbox` is the table and its flushers. `Claim` takes the oldest available rows
(`FOR UPDATE SKIP LOCKED`), `Accept`/`Fail`/`GiveUp` are one sink's answer to the
current row, `Through` the mark that `markConsumedTx`/`markFailureTx` write
inside the transaction, `Commit` makes the marks of a batch visible together,
`LoseBatch` loses them while what the sinks heard stays heard. `Commit` may also
succeed without the flusher learning of it. After a commit the drain pass goes
on; it ends when nothing is available or something failed. `Poison` are events
that the last sink always answers with a retryable error, the case of
`MustNotFail`.

### KeyRotation, KeyRotationProofs, MCKeyRotation

`made`/`demoted` are the rows of `jwt_keyring`, `ring`/`signer` what a process
verifies and signs with, `read` a ring that was listed and not yet installed,
`queue` the rotation events in the outbox, `queuedAt` the trigger's
`lastEnqueuedAt`. The handler is cut where others can come between:
`Rotate` (claim, new key, `AppendActive`), `List`, `Swap`, `Prune`, `Finish`; `Fail`
gives the event back before the swap or at the mark. An operator queues an event at
any time. A trigger stamps `lastEnqueuedAt` before it queues: when the enqueue fails,
the event is lost and the stamp debounces the next tries. `manual`, chosen in `Init`,
is the default interval 0: nobody seeds the table and there is no trigger. `Boot` takes the table's keys
or seeds the key of the environment, `BootBlind` falls back to it after an error.
Of the tokens of a key only the one that lives longest is kept, because it is
refused last. `upto` (the newest key made when a ring was read) is history, read by
the properties alone: they are about processes that *know* a key. `unseeded` is
history too: a rotation, and not the seed, put the first key into the table. The key of
the environment has no row then, and the ring that is built of rows drops it while its
tokens live, in spite of the promised grace period; `Covered` leaves that one key
out, and nothing else. A process that
has not handled an event since a rotation keeps the ring of its boot and refuses
tokens of the newer key; the code promises nothing else, and no property does.

### AdvisorBilling, AdvisorBillingProofs, MCAdvisorBilling

One user and one kind of consultation. A consultation walks through `phase`:
`Check` and `CheckCredits` (two reads), `Answer` (the minutes in between),
`ConsumePlanUnit`, `Undo`, `ConsumeCredits`, `ConsumeFails`. The last has a debit
that was executed and whose answer is lost: the unit is gone and the consultation
counts as free. `used`, `balance`, `status`/`event` are the tables; `work` is what each
webhook worker has probed and not yet applied, so copies may overlap. `headerIds`,
chosen in `Init`, says whether webhooks carry ids of their own.
`raced`, `lim`, `at`, `leaked`, `charge`, `credited`, `late` and `again` are history:
they say what happened to others since a consultation's admission, against which
limit and in which month it was paid, whose increment was never reversed, and how
often an order was credited past the probe: by a copy that had probed before another
worker's stamp (`late`), or that looked for another event than the recorded one.

### Subscriptions, SubscriptionsProofs, MCSubscriptions

The payment service (`life`, `paid`, `hooks`) is external and bills truthfully; the
server marks a webhook as seen (`Receive`), then applies it (`Apply`) by the rules of
its kind (`Activate`, `SetRow`, `ExpireRow`), or loses it (`Lose`). `row` has one row
per subscription, one for payments outside of the service and one for the free
fallback; `born` is the order of their insertion, by which the newest active row
is served. The plan's reader writes down late what it found early (`FindExpired`,
`WriteExpired`).

### PlanApproval, PlanApprovalProofs, MCPlanApproval

The day from the moment the plan waits for its user. `plan`, `run`, `status`,
`trades`, `lots` and `held` are rows; `worker` are the runs in memory, one of which is
each replica's registered one (`current`); `job` is each user's request between two
statements, `rec` each replica's one recovery. `Approve` → `WriteApproved` → `Resume` →
`Take` or `Undo`; `Reject` → `WriteRejected` → `CancelAwaiting` → `SaveRejected`; both
writes are unconditional, and `Fails` is a statement of them that fails or loses its
answer. A run goes through `Decide` or `PollFails` (its poll of the plan), `Mark`,
`SubmitForExecution`, `LoadActions`, `LoadPositions`, `Fill`, and by way of `Bounce`,
`Refuse` or `AllDone` to `Sync`, `Wipe`, `Save`, `Finish`, `Close`. `Abandon` is the
execution step's time limit or a failed statement, `Overdue` the run's 24 hours.
`Crash`/`Restart` are a replica's; recovery (`RecoverList`, `MarkInterrupted` or
`ReadPlan`, `RecoverPlan`) works on what it has read, and runs at any time, because a
process recovers when it first leads, possibly long after its users began to decide.
The saves of a run's row go through `SaveRow`: the error of a save is logged and
swallowed, so each may be lost and the row may stay paused while the run executes.
Every statement that another actor can get in between of is a step of its own: that
is where the books could be lost, since positions are deleted and inserted again
after the trades.

Nothing of this is guarded away. The code breaks what one would like to promise, so
`breach` records, at the step where it happens, *how*: a run launched on a row or plan
that has changed since it was read (`late`), on a row that still waits over books a
pass has written (`unsaved`), or while another may execute (`beside`); a decision
written over another (`contested`); a wait, statement or recovery after which nobody
may be left to pick an approval up (`gaveup`). Each property names the breaches it does
not stand, and stands the others; section 8 says what each does to the code's
promises.

Left out: plans that are approved automatically, sells, futures, the splitting of
orders, refreshed quotes, cash amounts (positions count units), and scheduler
claims of a new day.

## 4. Runs and what they show

| Run | Kind | Properties | What it shows |
|---|---|---|---|
| `lease` | pass | `TypeOK` `ConfidentBeliefIsTrue` `TenureSpec` `FailoverHappens` | With the production timing, one missed renewal never costs the lease; the protocol implements exclusive tenures under timeouts, lost answers, late statements, Stop and crashes; failover happens once outages end. |
| `workflow` | pass | `TypeOK` `RowIsTheLock` `OneClaimPerSlot` `TerminalIsFinal` | Two replicas, two slots, three claims, a start by hand, crashes, failover. |
| `workflow_outage` | pass | `RowIsTheLock` `FreshLeaderClears` | The same with a failed statement, lost answer or lost renewal; a row whose run died is written off by a leader that has not run its recovery. |
| `auction` | pass | `TypeOK` `BooksBalance` `MoneyConserved` `TopHoldsFunds` `SettledClean` `LedgerSpec` `EventuallySettled` | Lock-level transactions with a crash, deadlocks and moving ends implement the one-step ledger, lose no money and settle every auction. |
| `auction_close` | violation | `LosersRefunded` | A cancelled or purchased listing strands the top bidder's hold. |
| `outbox` | pass | `TypeOK` `QueueSpec` `Drains` | Two flushers deliver at least once, and a poison row, lost batches and passing failures keep no other event from being settled. |
| `keys` | pass | `TypeOK` `FreshTokensVerify` `NewestSigns` `AcceptedStaysAccepted` `RotationHappens` | Two processes boot, seed, rotate, fail and crash in any order, with the trigger or without: tokens of a covered key live to their end wherever the key is known, and aged keys are replaced although enqueues fail. |
| `advisor` | pass | `TypeOK` `PlanWithinLimit` `UsageBooks` `FreeOnlyByRace` `BalanceAccounts` `CreditedOnce` `PaymentsArrive` | Two consultations, two limits, a month's end, an order, two webhook workers, with event ids and without: the books are right however admissions, charges, reversals, lost answers and webhooks interleave, and an order is credited again in two ways only. |
| `subscriptions` | pass | `TypeOK` `ServedIsPaid` `AppliedOnce` | Webhooks in any order, repeated, lost or overlapping, a late reader: nobody is served what was not paid. |
| `subscriptions_upgrade` | violation | `PaidIsServed` | Without any fault: after an upgrade the old subscription's expiry serves the paying user the free plan. |
| `approval` | pass | `TypeOK` `CompletedIsBooked` `RejectedNeverTrades` `ApprovedResumes` | One replica with a crash or failure, a bounce, a refusal, lost saves and failed polls, recovery early or late, and two users who decide: what holds up to which breach. |
| `approval_replicas` | violation | `OneLotPerBuy` | Two replicas and not one fault: the waiting run and the approval's resume both execute the plan. |

Every property of a passing run has a mutant: a variant of one of the model's
definitions, kept beside it, that changes it as a plausible bug would (a lock not
taken, a check dropped, a comparison off by one, a claim that outlives its
transaction) and under which TLC finds the property violated. Each is marked
`Mutant:` in its module and is used by no specification.

Deadlock checking is on only in `outbox`: the other models may stop, because
processes can all be dead or stopped, the clock stands at its horizon, or the
requests, slots and days of the bound are used up.

## 5. Bounds

| Run | Bounds | Why they are enough |
|---|---|---|
| `lease` | 2 incarnations; ttl 6, period 2, timeout 1 in ticks of 5 s (the production 30/10/5 s) | Losing a lease takes one that holds and one that takes; each may crash or stop with statements still under way. No bound on steps. The proofs cover any number and any timing the assumption allows. |
| `workflow` | 2 processes, 2 slots, 3 claims, 1 start by hand | Enough for a run displaced by another, which is displaced in turn, a slot and its successor, and a retry. |
| `workflow_outage` | 2 processes, 1 slot, 2 claims, 1 failure | The failure can hit any statement, answer or renewal. |
| `auction` | 3 users, 2 auctions, 3 sessions, 2 requests, 1 lost transaction, window 2, clock to 3 | Each seller may bid in the other's auction, so wallets are needed in both orders; the window lets a bid move the end. |
| `outbox` | 2 flushers, 3 events, 2 sinks, batches of 2, 2 faults, event 1 poison | A batch with poison and another row in it, a second batch beside it, a second fault while the first is being made good. |
| `keys` | 2 processes, 3 keys, windows and intervals of 1, clock to 2, 2 faults, 1 event queued | The windows are the smallest the assumption allows, where a comparison off by one bites; the trigger is there or not; three keys are two rotations, one overtaking the other. The proofs cover any windows. |
| `advisor` | 2 consultations, limits 1 and 2, 1 order of 1 unit, 2 workers, 2 months, 1 change, 1 fault | Two consultations race past a limit, and the reversal may come in the next month; two workers overlap on one order, and a webhook comes until the payment service has seen it acked. |
| `subscriptions` | 2 subscriptions, 4 webhooks, 2 workers, 1 reader, clock to 2, 1 call by hand, 1 loss | An upgrade needs two; purchase, renewal and expiry can overtake one another among four. |
| `subscriptions_upgrade` | 2 subscriptions, 5 webhooks in order, nothing else | As few as the counterexample needs. |
| `approval` | 1 replica, 2 users, 2 actions, 3 runs in memory, 2 decisions, 1 bounce, 1 refusal, 1 crash or failure; recoveries, lost saves, failed polls and 24-hour limits unbounded | Two decisions at once; an execution cut off after any of its statements and recovered; a recovery that overtakes either. TLC goes on to, and not beyond, states where every property has been breached (`Telling`), which nothing undoes. |
| `approval_replicas` | 2 replicas, 2 actions, 1 decision, no fault | As few as the counterexample needs. |

The bounds are named constants that appear in guards: `MaxSlot`, `MaxRuns`,
`MaxStarts`, `MaxOutages`; `MaxRequests`, `MaxAborts`, `MaxPrice`, `Horizon`;
`MaxEvents`, `MaxFaults`; `MaxKeys`, `MaxQueue`; `Months`, `MaxChanges`;
`MaxHooks`, `MaxManual`; `MaxWorkers`, `MaxClicks`, `MaxBounces`, `MaxRefusals`.
`EscrowAssumption` asks for a horizon that the end of an auction cannot be moved past. Deadlock victims are not bounded.

No bound stands for a promise of the code. Where a property does not hold of all that
the code does, what breaks it is in the model and in the run, recorded as history, and
the property names it: `breach` in `WorkflowRuns` and `PlanApproval`, `unseeded` in
`KeyRotation`, `late` and `again` in `AdvisorBilling`. Without these conditions TLC finds
the properties of the last three modules violated within the same bounds.

## 6. Fairness

- *Lease*: weak fairness of time and of each process's goroutines and statements
  together. A call ends because it has a timeout; *which* end it comes to is not
  constrained, so `FailoverHappens` assumes that from some time on calls do not
  fail. Starts, stops, crashes and late statements have no fairness.
- *Workflow runs*: the scheduler loop, starts in progress, recovery, the lease's
  steps and the run's own end are weakly fair: they are goroutines with timeouts
  on every wait. Starts by hand, crashes, outages and the passing of slots are
  not fair.
- *Auctions*: the clock; for each due auction the loop, which looks every five
  seconds and takes due auctions in order of their end; refusals, deadlock
  victims and commits of each session. `Post` is strongly fair, because the
  database queues the waiters of a row: a session that finds a wallet locked
  again and again gets it in its turn. Requests of users need no fairness and are
  finitely many, as are lost transactions: with endless bids an auction's end
  could move for ever, which is what the code intends.
- *Keys*: the clock, boots, seeds, triggers and handlers are weakly fair: processes
  are restarted, tickers tick and the flusher polls. Faults and operators are not.
- *Advisor*: a webhook that is being handled comes to its end, and the payment
  service sends again what was not acked. Users and faults have no fairness.
- *Plan approval*: handlers and goroutines go on, a dead replica is restarted, and
  comes to lead and recovers. Users, crashes, failed statements and polls, time limits and
  bounces are not fair.
- *Outbox*: a flusher's loop goes on, its ticker fires, a sink answers (the batch
  has a timeout, and then `LoseBatch` is its answer). Producers and faults have
  no fairness.

## 7. Proofs

All proofs are complete down to the leaves and use no unproved fact. The constants
are arbitrary, restricted only by the named assumptions of the modules and by the
hypotheses named here. Every safety property of every passing run is stated by a
theorem.

**SchedulerLeaseProofs** (from `NoOneAssumption`, `TimingAssumption`).
`TypeCorrect`; `BeliefCorrect`: `Spec => []ConfidentBeliefIsTrue`;
`ImplementsTenure`: `Spec => TenureSpec`. The property alone is not inductive:
it says nothing of how *recent* the row is. `IInv` adds `BeliefIsRecent` (the age
of the row is at most what the process's timers and misses allow, `Allowed`),
`WonIsRecent` (the same for an answer under way), `CallsAreShort`, and two facts
about first calls and late deletes. `2 * RenewIn + 2 * CallTimeout <= TTL` is what
keeps `Allowed` within the ttl; the production numbers meet it with equality.

**WorkflowRunsProofs** (from `BoundsAssumption`).
`TypeCorrect`; `RowLocks`: `RowIsTheLock`; `SlotClaimedOnce`: `OneClaimPerSlot`;
`FinalStaysFinal`: `TerminalIsFinal`. Runs are claimed in order and the latest
is the one the row speaks of (`ClaimedInOrder`, `UnclaimedIsNobodys`); a start that
is about to launch is the only one that will launch its run (`LaunchOwnsItsRun`);
under the lock, a working run was never cancelled, because only a launch
cancels and it would be the launch of a second working run (`LockedRun`). Each
holds for exactly the breaches the property allows. A slot's claims are counted by
`ClaimsAreSpent`: there are no more than one and the processes that spent their
retry on it or died, and one less while a claim for it is pending, so that
`Decide` must spend before it may claim again. The bound is a cardinality, so the
invariant carries that these sets are finite although the processes may not be;
that one scheduler at a time decides (`OneScheduler`) is where the lease comes in.

**AuctionProofs**, the ledger (from `LedgerAssumption`). `TypeCorrect` (balances
never go below zero); `HoldsCorrect`: `TopHoldsFunds`; `SettlementCorrect`:
`SettledClean`. The inductive `LedgerInv` is the types and, per auction,
`AuctionInv`: where the top points, that older bids are lower, and that nothing
but the top is funded while the auction is open. It is kept auction by auction:
each step changes one auction, and a lemma says that the others do not notice.

**AuctionProofs**, the transactions (from `EscrowAssumption` too).
`EscrowTypeCorrect`; `BooksCorrect`: `BooksBalance`; `ImplementsLedger`:
`Spec => LedgerSpec`; `EscrowHoldsCorrect` and `MoneyCorrect`. `EscrowInv` follows a
transaction from its checks to its commit: what it entered in a wallet and what
it has still to post are together the effect of the one step it promises
(`Entered` + `Due4` = `Effect`, for every wallet); the balance it computed for a
wallet it locked is the committed one and its entries, since nobody else writes it
(`Apart`: no two transactions have the same wallet or the same listing); what it
checked under the listing's lock is still so (`Checked`); and a bid is paid from
a wallet that has the money (`Funded`). At the commit nothing is due, so the
absolute values written are the promised ones, and every other step is a stutter
of the ledger.

`MoneyCorrect` is shown on the ledger and carried over by the refinement, for
every *finite* set of users. Sums over finite sets are given their laws in a section of
the module: adding an element, changing one summand, adding two functions. Where
induction is needed it is by the smallest subset for which a law fails, which
exists because strict inclusion of finite sets is well-founded.

**OutboxProofs** (from `OutboxAssumption`). `TypeCorrect`; `ClaimsAreExclusive`:
a locked row is pending and in one batch; `ImplementsQueue`:
`Spec => QueueSpec`. `OutboxInv` needs, beyond types and locks, that an idle
flusher holds nothing, that every mark is justified by what the sinks answered,
and that the sinks before the one being asked have accepted the current row –
which holds across a mark only because a batch has one current row
(`OneCurrent`).

**KeyRotationProofs** (from `KeyRotationAssumption`; with the trigger or without). `TypeCorrect`; `NewestCorrect`: `NewestSigns`; `FreshCorrect`:
`FreshTokensVerify`; `AcceptedCorrect`: `AcceptedStaysAccepted`. The properties
speak of rings that are installed; the invariant has to say the same of rings that
were read and wait, of keys in the table, and of tokens: a token of a demoted key
ends no later than a token's life after the demotion, if it was fresh when it was
signed. That the windows are no shorter than that life is the only fact about
time that is used. All of it is said of covered keys: a table that was seeded
first has a row of the environment's key until its grace period is over.

**AdvisorBillingProofs** (from `AdvisorBillingAssumption`). `TypeCorrect`;
`BooksCorrect`: `UsageBooks`; `FreeCorrect`: `FreeOnlyByRace`; `LimitCorrect`:
`PlanWithinLimit`; `BalanceCorrect`: `BalanceAccounts`; `CreditedCorrect`:
`CreditedOnce`, for any number of workers, with event ids and without. `IInv` adds where
a consultation may stand for whom it was charged (`PhaseInv`), that the months to
come are untouched (`BooksInv`), and that what `Check` saw still holds for whoever
had no race (`RaceInv`) – so that a consultation that finds the limit crossed, or
the credits gone, must have had one. The limit itself is held by comparing after
the increment: the counter is never less than what the plan pays. The credits ever
bought are a set of pairs of an order and the number of its credit, so that
`BalanceCorrect` counts sets; that they stay finite is part of its invariant. The units
taken include those of debits whose answer was lost. An order's credits are followed
by the stamp it has and by the workers that have probed it.

**SubscriptionsProofs** (from `SubscriptionsAssumption`). `TypeCorrect`;
`PaidCorrect`: `ServedIsPaid`; `AppliedCorrect`: `AppliedOnce`. `HookInv`: no webhook
says more than what has been paid; `RowInv`: no row lasts longer; `WorkInv`: what a
worker has taken is marked, nobody else's, and not applied. The types are not free
here, because the service is that of the newest active row, chosen: that there is
one follows from the least of the numbers `births - born`.

**PlanApprovalProofs** (from `PlanApprovalAssumption`). `TypeCorrect`; `BookedCorrect`:
`CompletedIsBooked`; `RejectedCorrect`: `RejectedNeverTrades`; each for all replicas and
users and whatever fails, up to the breaches the property names. `IInv` says that a
run stopped before it began does not exist (`BegunIfStopped`); that one run at most is
engaged unless one was launched beside it (`OneEngaged`); that nobody goes on to
execute a plan that is not decided (`DecidedIfCapable`); that a plan whose rejection
has been answered stays rejected, with nobody left to trade for it (`RejectedStays`);
how far the books are at each stage of the execution (`Staged`); and that completion
comes after the books (`CompletedIsLate`). Three lemmas carry most of the steps: those
that let nobody begin, those of a run that is working, and launches.

**Only model-checked.** Liveness (`FailoverHappens`, `FreshLeaderClears`,
`EventuallySettled`, `Drains`, `RotationHappens`, `PaymentsArrive`,
`ApprovedResumes`): it rests on fairness and enabledness, which the prover does not
handle. The violations are counterexamples and need no proof.

## 8. What the models say about the documentation

Three runs contradict a comment in the repository; `PROJECT.json` quotes each at its
line. `auction_close`: not all losing bidders are refunded by auction close, when
the close is a cancel or a purchase. `subscriptions_upgrade`: the free row meant as a
fallback rules over a paid subscription. `approval_replicas`: "each row is one buy
execution" fails when a plan is approved on another replica than the one that
waits, because ownership is asked of one process's memory.

Smaller disagreements met while reading, which no run states:

- `migrations/024_marketplace_auction_and_holds.sql:33-35` says bids below the
  reserve are "rejected outright"; `PlaceBid` accepts them and the settlement
  closes the auction unsold.
- `internal/outbox/outbox.go:48-49` promises that a row which failed is visible to
  the "next poll (back-off via attempts)"; the drain pass of `flusher.go:104-120`
  claims it again at once, and nothing reads `attempts`.
- `migrations/112_outbox_events.sql:19-23` counts on causal order from
  `created_at`; that column is the start of the publishing transaction, and
  skipped locks and retries reorder further. The model contains these
  reorderings and states no order.
- `internal/scheduler/lease.go` keeps `IsLeader` true after failed renewals without
  limit, so an outage that cuts off only the old leader leaves two believers for
  as long as it lasts; `ConfidentBeliefIsTrue` speaks of one missed renewal.
- Recovery of running rows runs once per process, and takes any running row for
  the trace of a crash: after a failover without a crash the new leader writes off
  the live run, whose day may then be started again. `breach` in `WorkflowRuns`
  keeps these cases apart from the ones its properties are about.
- `cmd/server/subscription_checkout_handler.go:219` mentions a sweeper of checkout
  intents; there is none.
- Without `X-Event-Id` the id of a subscription webhook is that of its
  subscription, and later webhooks of it count as repetitions.
- Keys: `jwt_rotation_handler.go:36-39` and `migrations/113_jwt_keyring.sql:25-29`
  promise a demoted key its grace period. With the default interval 0
  (`main.go:318`), or after a failed seed (`main.go:5714-5717`), the table has no row of
  the environment's key, and the first rotation builds a ring without it: tokens
  signed a moment before are refused. `Covered` is exactly this exception.
- Keys: a trigger stamps before it queues (`jwt_rotation_trigger.go:152-168`), so one
  failed enqueue loses the event and silences the trigger for half an interval.
  `RotationHappens` holds in spite of it.
- Advisor: `migrations/102_advisor_credits.sql:73-76,114-123` and
  `credits_repo.go:131-134` say that a repeated webhook cannot credit an order twice.
  It can: two copies that both probe before either stamps, or a second event id of the
  same order, are credited again, and so is a late copy of the payment after a
  refund. `CreditedOnce` counts these ways past the probe and shows that there is no
  other.
- Advisor: a debit whose answer is lost (`gate.go:322-325`) costs a credit that pays
  nobody's consultation; `BalanceAccounts` counts it.
- Approval: the saves of a run's row are logged when they fail (`daily.go:1264-1280`).
  A row that stays paused while its run trades is resumed by the next recovery over
  positions that a pass has already written (`unsaved`).
- Approval: one failed poll of the plan (`wiring_adapters.go:17822-17825`,
  `daily.go:856-869`) ends the run, and a plan approved afterwards has nobody to execute
  it. The same comes of a plan that bounces, whose run ends with the day; of an
  execution that cannot be submitted, which leaves the plan approved; and of the run's
  24 hours, after which the registered run still counts as the plan's owner
  (`gaveup`).
- Approval: recovery may come late, with runs of its own process under way
  (`workflow_recovery.go:195-197,336-355`): it cancels a pass in the middle and launches
  another over the books as they are, or writes over a row that has gone on (`late`,
  `beside`).
- Approval: the updates of approve and reject (`wiring_adapters.go:3163,3191`) do not look
  at the status they replace. Of two users at once both succeed, and a plan whose
  rejection was answered may be executed (`contested`).
- A plan that is refused after its first fills goes straight to rejected and saves
  no positions: the trades are booked, the holdings are not. `CompletedIsBooked` is
  about completed plans.
- As many refused rows as a batch holds keep newer rows from ever being claimed;
  `Drains` is therefore stated and checked for fewer.

## 9. What is not modelled

- *Workflow*: the once-a-day mode, whose trigger decision reads step results;
  single-step triggers; graceful shutdown of the scheduler; what the steps of a run
  do before the approval; rows paused at another step than the approval.
- *Plan approval*: what section 3 lists.
- *Keys*: tokens without a kid, the encryption of keys at rest.
- *Advisor*: other kinds of consultation (columns of their own), summaries.
- *Subscriptions*: checkout intents, seats, prices, the mode in which all is free.
- *Auctions*: creation of listings, currencies, the buyout order and the clone of
  the agent (its failure is an `Abort`), bindings made after the commit, the
  reconciler, bids of the older table without a hold, subscription listings. The
  loop's limit of 25 auctions per pass. A bid repeated by a client is a new bid:
  its idempotency key contains the time in nanoseconds.
- *Outbox*: contents of events, `attempts`, `last_error`, replay by an operator.
- The components without a module in the inventory: they are data processing,
  arithmetic inside one transaction, input and output, or user interface; the
  simulated broker with its replay after a restart is the next candidate.
