# PostPilot: a verification project for its job core

PostPilot writes blog posts and short clips for its owners.  Almost everything it does that costs
money happens in a background job: a request prices the work, reserves credits, inserts a row, a
worker runs it, and the ledger settles what it really cost.  The modules in this directory model
that core and what hangs on it: the durable queue and its starts (`backend/internal/job`), the credit
ledger (`backend/internal/usage`) and the refunds of the payments behind it (`backend/internal/billing`),
the paid narration runs of a clip and the media stages leased to workers on other machines
(`backend/internal/clip`), and the writing tests (`backend/internal/experiment`), as
`backend/cmd/api` composes them with restarts, stops, retries and lost answers.

All paths below are relative to `src/`.  The document ids (GEN-33, QUOTA-61, ...) are those of
`spec/ssot/*.md`.

## 1. The system

One Go process serves HTTP, runs the queue's workers in its own goroutines and keeps everything in
one SQLite database: one writer connection, so every statement or transaction is atomic and they
are totally ordered, and a separate pool of readers, so what a goroutine has read may be stale when
it acts on it.  Media work (analysis, rendering) is leased to workers on other hosts, which report
over HTTP.  Payments are taken and cancelled at an external provider.

| Component | State it keeps | Operations | Talks to |
|---|---|---|---|
| **job queue** (`job/`) | a row per job: status, stop request, dispatch flag, handler input; a row per durable wait (*continuation*); in memory, the map of cancellable runs | Enqueue, Activate, FailQueued, Cancel, pick and run, Park / Wake / FailWait / AcknowledgeStop, three boot sweeps | credit gate before a job exists and after it has ended; handlers; terminal hooks |
| **stable job identities** (`job/enqueue_identity.go`) | a receipt per job id chosen by the caller | claim, enqueue under it, recover, abandon | queue, ledger, hold sweep |
| **boot and shutdown** (`cmd/api`) | none of its own: the *order* in which the others recover | reconcile waits, recover cancellations, sweep running, sweep holds, sweep unactivated, sweep holds again, serve; drain on SIGTERM | everything |
| **credit ledger** (`usage/`) | lots (granted, remaining, expiry, refund mark), an admission per job with its debits and the lots it could see, usage events | Hold, Settle, Release, renewal, grants, top-up, voucher revocation, freeze / release / void for a refund | queue, billing, vouchers |
| **billing** (`billing/`) | payments, subscriptions, refund requests | request, review, cancel at the provider, read back, reconcile and close a refund; renewals, upgrades | payment provider, ledger |
| **clip credit guard and finisher** (`clip/app/guard.go`, `finisher.go`) | the hold taken in mid-run; the result transaction | Reserve, Finish | ledger, queue row |
| **clip speech runs** (`clip/app/speech.go`) | a journal row per run, a journal row per paid call | Start, Run, OnTerminal, Recover | queue, speech provider |
| **media waits** (`clip/app/media_dispatch.go`, `media_recovery.go`) | which stage each parked job waits for | park, wake, adopt, fail, acknowledge a stop | queue, media stages |
| **media stage leases** (`clip/store/media_*.go`, `clip/app/media_control.go`, `media_artifacts.go`) | a stage row with its state, result and retry time; an attempt row with lease end and outcome | claim, renew, accept a result, report a failure, reconcile | remote workers, media waits |
| **media worker process** (`clip/worker/loop.go`) | the lease it believes it has | claim, heartbeat, watchdog, complete, report | media stage leases |
| **writing tests** (`experiment/writing_test_*.go`) | a test row with a revision and the job it is bound to; its candidates; an attempt row per admission | start, retry, dispatch, bind, run, finish, cancel, settle, purge, sweep, recover | stable identities, queue, ledger |

The remaining parts (posts, templates, voices, the AI prompts, rendering, auth, mail, storage, the
React client, ...) are listed in `PROJECT.json` with the reason each is left out.  Most are the body
of one handler, CRUD on one row, or I/O.

### What is hard in it

* **Four parties settle one hold.**  The worker, the owner's Cancel call, the owner of a wait and the
  boot sweep may each settle, each from a read of its own, and an outcome in the ledger that differs
  from the row's is money.  (`job/worker.go:144-160`, `cancellation.go`, `continuation.go`, `sweep.go`)
* **A stop against a finish.**  A stop may be accepted at any instant before the terminal write;
  every such write has to look again in the same statement (`job/store/queries/jobs.sql:50-58`), and a
  stop between pick and registration must still reach the handler (`job/cancellation.go:120-150`).
* **A handoff against the run that made it.**  A handler parks its job and only then returns; the wait
  may be woken, failed or stopped before it has (`job/worker.go:90-115`).
* **A start repeated while its first attempt is still on the way.**  A caller that lost the answer sends
  the same identity again, from another process too, while the hold sweep finds the first attempt's hold
  without a row and gives the identity up (`job/enqueue_identity.go:18-145`, `job/sweep.go`).
* **A lease that ends while its holder works.**  A claim or a renewal is judged by a time read before its
  transaction, its answer comes late or never, and the same stage may be given to another worker whose
  result races the first one's (`clip/app/media_control.go:35`, `clip/store/media_stages.go:160`).
* **A refund whose cancel was answered by nobody.**  The money may have moved at the provider or not; two
  reconciliations, a reviewer's and a timer's, may be at it at once, and an earlier refund of the same
  amount looks just like this one (`billing/refunds.go:310`, `401`).
* **An aggregate that several jobs drive.**  A writing test may be retried, cancelled or purged while the
  job of its last attempt is still ending and its cost still being confirmed; every write is fenced by
  what the rows say at that moment (`experiment/store/writing_test_runtime.go`).
* **Restarts anywhere.**  Between hold and insert, between terminal write and settlement, between a
  pick and its first park, between a paid call and its record.  Each of the boot steps repairs one of
  these and must not undo what another has repaired.
* **Guarded statements.**  The ledger's spend and refund statements change nothing when their guard
  fails and report no error; conservation of credits is a property of all the callers together.

`PROJECT.json` lists every hazard at its line with the properties aimed at it, or why there is none.

## 2. The modules

| Module | What it is |
|---|---|
| `JobLifecycle` | the abstract promise about one start: what a row, a stop and a hold may do in one step |
| `JobQueue` | the detailed specification: queue, hold, stops, waits, faults, restarts, boot sequence |
| `EnqueueIdentity` | starts under a caller's own job id: receipts, repeated calls, several processes, the hold sweep |
| `ClipSpeech` | a paid narration run: journal, job, calls, recovery |
| `WritingTest` | one writing test: requests, handler, hooks, sweep, recovery over its attempts' jobs |
| `MediaHandoff` | the abstract promise of leased execution to the jobs that wait for it |
| `MediaLease` | the detailed specification: stages, attempts, workers, heartbeats, reconciler, clock |
| `CreditLedger` | one account's lots, holds, settlements and refunds |
| `RefundPromise` | the abstract promise of a refund: one request at a time, its money back once and of the reviewed amount |
| `RefundRequest` | the refund requests of one payment and the provider, over `CreditLedger` |
| `MCJobQueue`, `MCCreditLedger`, `MCRefundRequest`, `MCMediaLease`, `MCWritingTest` | the instances for TLC: which jobs, lots, limits and symmetries there are |
| `JobQueueProofs`, `JobQueueServingProofs`, `EnqueueIdentityProofs`, `ClipSpeechProofs`, `WritingTestProofs`, `MediaLeaseProofs`, `CreditLedgerProofs`, `RefundRequestProofs` | the inductive invariants and the theorems |

Definitions marked `mutant:` are no part of a specification.  Each is a plausible wrong version of
the definition that follows it; `PROJECT.json` names the property that catches it when it takes that
definition's place.

### JobQueue

The durable variables are the rows: `status`, `cancelReq` (`cancel_requested_at`), `ready`
(`dispatch_ready`), `cont` (the continuation row) and `hold` (the admission of the ledger, reduced to
none / open / the outcome it was settled with).  The rest is memory: `enq` (a call of Enqueue between
its hold and its insert), `wk` (a worker between two database calls of `run()`), `canceller` and
`waiter` (a Cancel call and the reconciler after their first write), `phase` (the boot sequence), `sweeper`
(the holds the boot's sweep has listed and not looked at yet, and those whose settlement failed).

Kinds are reduced to what the code distinguishes: `"plain"` (no stop possible), `"owned"`
(cancellable, run at once), `"test"` (cancellable, waits for its owner's activation) and `"clip"` (as
a test, and it takes its hold in mid-run and may hand off).  These are the lists of
`cmd/api/job_subjects.go` and `cmd/api/credits.go`.

| Action | Code |
|---|---|
| `Admit`, `Insert` | `Queue.Enqueue`, split where the hold and the insert are separate transactions |
| `Activate`, `FailQueued` | the two things a caller does with a queued row |
| `RequestCancel`, `ResolveCancel`, `SettleCancel` | `Queue.Cancel`: durable request, read back and signal, settle |
| `Pick`, `Register`, `CheckStop` | `PickOldest`, then `run()` up to the handler |
| `Reserve`, `Commit`, `Park`, `HandlerReturn` | what a handler may do to the rows before it returns; its content is left open |
| `CheckPending` ... `Settle` | the rest of `run()`, one step per database call, in the code's order |
| `Wake`, `FailWait`, `AcknowledgeStop`, `SettleWait`, `Adopt` | the wait's owner, at boot and while serving |
| `RecoverCancellations`, `SweepRunning`, `ListHolds`, `SweepHold`, `HoldsSwept`, `SweepUnactivated` | boot, in the order of `cmd/api`; a hold sweep is one pass over the holds it listed, and the boot goes on after it whatever is still open |
| `ReadFails`, `FinishFails`, `SettleFails`, `CallFails` | a worker's or a caller's database call that errs; the terminal write may have committed all the same |
| `InsertFails` | an insert that fails and is rolled back; the release that follows may fail too, which is only logged |
| `SweepMisses` | a settlement or release of the boot's sweep that fails: logged (`cmd/api/credits.go:236-240`, `264-267`), the hold stays open and the sweep goes on |
| `Crash`, `Shutdown`, `Exit` | memory is lost; or the workers are drained first |

A handler's behaviour is nondeterministic: it may return nil, an error, a context error (when it was
signalled) or the yield, having parked, committed its result, or done nothing: any return with any of
these, a nil after a park and a yield without one included.  So what is checked holds for every handler but one
that yields after ending its own job; no handler of this code does, and `run()` would leave its hold to the next boot.

### EnqueueIdentity

`receipt` (`job_enqueue_receipts.state`), `row`, `ready` and `hold` are in the database; `call[p]` (a call
of `EnqueueWithID` between two transactions, one at a time per process: `enqueueMu`), `proc[p]` and
`sweep[p]` are in process `p` and die with it.

| Action | Code |
|---|---|
| `Begin`, `Recover`, `Claim`, `Guard`, `HoldTaken` / `HoldRefused`, `Insert`, `Reread`, `GiveBack`, `Return` | `EnqueueWithID` with `recoverEnqueue` before and after the claim, one action per transaction; insert and hold may commit and still report an error; a settlement or release that fails is logged and its hold stays (`Tries`) |
| `SweepRunning`, `SweepLook`, `SweepAbandon`, `SweepRelease`, `HoldsSwept`, `SweepUnactivated` | the boot of one process beside the calls of another; abandonment is a compare-and-set on the receipt |
| `Activate`, `Pick`, `End`, `Settle` | the job's own life, as `JobLifecycle` promises it |

### ClipSpeech

A run has a journal row, a deferred job and one row per paid call.  `Start` makes four commits
(`ReserveRun`, `EnqueueRun`, `BindRun`, `ActivateRun`), any of which may be the last
(`StartFails`, `Crash`).  The worker claims, issues, records and publishes each call; the record of an
answer may be lost, since its error is ignored.  `issued` is history: how often the provider was
asked.  `Recover`, the terminal hook and the queue's sweeps are modelled with the two writes they
make to each call and the store's edge table (`Edge`).

### WritingTest

`test`, `cand` and `att` are the rows of the test's own context, `row`, `ready`, `stop` those of its
jobs, `hold`, `spent` and `charge` the ledger's side of them.  `att[a].epoch` is the revision the attempt
was admitted at; `test.rev` counts every write of the test, as the store does.

| Action | Code |
|---|---|
| `Start`, `Retry`, `Decide`, `CancelTest` + `CancelBound`, `Purge` | the owner's requests; cancelling is a transaction and then a stop of the bound job |
| `Dispatch`, `Enqueue`, `Bind`, `Reread`, `Activate`, `Cleanup` | `dispatch`: start under the attempt's identity, bind, reread a doubtful bind, activate, stop an ownerless job |
| `Pick`, `BeginTestExecution`, `RunCandidate`, `FinishTestExecution`, `GiveUp`, `EndJob` | the worker and the handler `Run`, each write behind the fence `Live` (`liveExecution`) |
| `HookSettle`, `HookEnd`, `HookConfirm` | `finishTerminal`: settle the hold, `EndTestExecution`, `ConfirmTestSettlement` |
| `SweepStarts` ... `SweepConfirms` | the lifecycle sweep on its timer, after a purge and at boot: stop jobs of cancelled attempts, then bring to the attempts what was settled |
| `Crash`, `Boot`, `BootJobs`, `RecoverInterruptedTests` | a restart, with the queue's own boot sweeps as one step |

### MediaLease

One clock `now` (only differences of it are compared across machines).  `stage[s]` and the sequence `att[s]`
are the store's rows, `parent[s]` the job that waits, `rec` what the reconciler still has to do after its
transaction, `wk[w]` what a worker is at with the lease end it believes in, `beat[w]` its renewal, which runs
beside the execution.

| Action | Code |
|---|---|
| `Claim`, `ClaimMediaStage` / `NothingClaimed`, `TakeWork` | a claim is sent, served and answered; the server's `now` was read between sending and serving (`media_control.go:35`) |
| `Beat`, `RenewMediaLease` / `RenewalRefused`, `Renewed`, `Watchdog` | the heartbeat and the watchdog of `loop.go` |
| `Check`, `Accept`, `AcceptLost` | a completion: authorise and validate; look the objects up outside of any transaction; authorise again, publish and wake |
| `ExecutionFailed`, `FailMediaStage` | a failure report; final, or given back for another attempt |
| `Reconcile` (`Abandon`, `Await`, `Repair`), `Post` | `MediaRecovery`, one stage at a time, and the queue call that follows its transaction |
| `Dispatch`, `StopJob`, `Supersede` | what the waiting job, its owner and the editor do meanwhile |
| `Die`, `GiveUp`, `Restart`, `Tick` | a lost worker, a call without an answer, a server restart, time |

### CreditLedger and RefundRequest

Every public operation of the ledger is one transaction and so one action.  Lots are numbered in
order of creation; `Before` is the consumption order of `usage.sql`, `Portion` the draw along it,
`Spent` and `Refunded` the guarded statements with their silent failure.  `adm[j]` is the admission
with its debits and with the lots it could see (`eligible`), which an overrun at settlement may still
draw from.  A renewal opens the running windows (`Opened(Windows)`).  `AddUpgradeBonus` is what a paid upgrade does:
a lot of its own beside them, once however often it is reported.  `TopUp` is the other raise of the monthly credits,
`TopUpMonthlyLot`, on the monthly lot that runs longest.  The grant-blocking trigger of migration 0130 is `Blocked`.  `voided` is history.

`RefundRequest` extends it with the requests of one payment.  `filed` and `row` are the request's row,
`cancels` and `answers` the provider's (the cancels of the payment; what it remembers of each idempotency key),
`late` the cancels whose sender no longer listens, `op` the reviews and reconciliations under way.  `Approve`,
`Fail` and `Apply` are one transaction each with the ledger's `ApproveRefund`, `FailRefund` and `ConfirmRefund`;
`Send`, `CancelAnswered`, `ReadBack`, `RecordRefundProviderAttempt`, `ReadConfirmed` are the calls and reads
between them, in the order of `reconcile` and `cancelOrReadBack`; `GiveUp` ends an operation at any of them.

### How they fit together

`JobQueue` is composed of queue, ledger hold, waits and boot in one module, because their
interleavings are the point.  It is shown to implement `JobLifecycle`
(`INSTANCE JobLifecycle WITH stopped <- cancelReq`), which is also the interface to the ledger: a hold
opens once, is released only when there is no row, and is settled once with the row's outcome.  That
is exactly how `CreditLedger` lets its environment use `Hold`, `Release` and `Settle`.
`EnqueueIdentity` is the other way to start a job; it takes `JobLifecycle` as the job's life and is shown
to implement it again, with its retries, sweeps and processes.  `WritingTest` starts its jobs by one step
with the answers `EnqueueIdentity` can give, and takes the queue and the ledger as `JobLifecycle`
promises them.  `ClipSpeech` takes the queue's promise (an ended job stays as it ended; a stop ends it
cancelled) and adds the journal.  `MediaLease` implements `MediaHandoff`; the wakes, failures and acknowledgements
of its reconciler are the `WaitOwner` steps of `JobQueue`, which says what a job does once it is told.
`RefundRequest` is composed with the ledger itself: the account goes on working (`Work`) while its payment is refunded.  It implements the
ledger's own specification, and `RefundPromise` for the owner and the books.

## 3. What each run checks

| Run | Instance | Properties |
|---|---|---|
| `queue_clip` | one clip start, 1 worker, 2 wait keys, 2 restarts, 1 failing call | `TypeOK`, `StopDecides`, `SettledAsEnded`, `SoleOwner`, `StopReachesHandler`, `HandoffSurvives`, `ImplementsLifecycle` |
| `queue_pair` | a clip and a deferred start priced at once on one subject, 2 workers, 1 restart, 1 failing call | `NoStrandedHold`, `HeldWhileActive`, `BootClosesHolds` |
| `queue_live` | a clip and a plain start, 1 worker, 1 restart, fairness | `StopHonoured`, `DispatchedEnds`, `HoldsClosed` |
| `identity` | 2 identities, 2 processes, 1 crash, 1 failing call | `IdTypeOK`, `ReservedWhileActive`, `AbandonedHoldsNothing`, `IdentityImplementsLifecycle` |
| `speech` | 2 runs of 2 calls, 2 restarts | `TypeOK`, `PaidOnce`, `DoneIsComplete`, `BootClosesCalls` |
| `speech_boot` | 1 run, 1 call, 1 restart, fairness | `UnactivatedEndsAtBoot`: **violated**, finding 1 |
| `writing_test` | 2 candidates, 2 attempts, 1 request, 1 restart or failing call | `TypeOK`, `SettledIsFinal`, `ReviewIsComplete`, `NoOrphanRun`, `ClosedStaysClosed`, `BootSettles` |
| `writing_test_epoch` | the same without mishaps | `BindAdmitted`: **violated**, finding 3 |
| `media` | 2 renders (2 attempts and 1), 2 workers, 1 render slot, 1 mishap, to the deadline | `TypeOK`, `ExecutorHoldsLease`, `ImplementsHandoff`, `DeadlineTells` |
| `ledger` | 2 starts (one under an approved ceiling), month + upgrade + voucher + pack, one refund | `Conserved`, `ChargedAsConfirmed`, `NothingReserved` |
| `ledger_voucher` | 1 start, a voucher and its revocation | `RevokedStaysVoid`: **violated**, finding 2 |
| `refund` | 2 requests of one upgrade payment that funded a lot of its own and a day still to open, 2 operations at once, 1 start | `RefundTypeOK`, `RefundedOnce`, `CompletedOnOwnCancel`, `MoneyFreezesCredits`, `FrozenStill`, `KeepsPromise` |

The properties in a sentence each:

* `ImplementsLifecycle`, `IdentityImplementsLifecycle`: whoever writes in whatever order, rows, stops and holds
  move only as `JobLifecycle` allows.
* `StopDecides`: no result, failure or sweep overtakes an accepted stop.
* `SettledAsEnded`: the ledger's outcome is the row's, although four parties may settle.
* `NoStrandedHold`: while the process serves and no call failed, an open hold of an ended or missing
  job has somebody on the way to close it.
* `BootClosesHolds`: of everything a crash or a fault left open, a boot leaves open only the holds whose own settlement
  failed in its last sweep; that failure is logged, the process serves, and the next boot tries again.
* `HeldWhileActive`: work priced before it was queued never waits or runs without its credits.
* `HandoffSurvives`: only its owner ends a job whose work was handed off, or may be replayed.
* `SoleOwner`: nobody ends a job under a handler still working on it.
* `StopReachesHandler`: once a Cancel call has returned, a handler still running has been signalled.
* `StopHonoured`, `DispatchedEnds`, `HoldsClosed`: an accepted stop cancels, dispatched work ends, loose
  holds are closed.
* `ReservedWhileActive`: a job started under an identity never waits or runs without its credits, although a
  restart, another process's sweep and a repeated start may each be releasing the hold they found.
* `AbandonedHoldsNothing`: when every process serves and no call failed, the hold of an abandoned identity is on its way back.
* `PaidOnce`: no paid speech call is issued twice, whatever was interrupted.
* `DoneIsComplete`: a run that ended well asked for every one of its calls.
* `BootClosesCalls`: a boot leaves no call of an ended run open.
* `SettledIsFinal`: what an attempt reports as its cost is what its job was charged, and nothing is paid for
  it afterwards.
* `ReviewIsComplete`: a bracket is opened and decided over finished candidates only.
* `NoOrphanRun`: a test that is going on under a job has an active job or an end of it on its way.
* `ClosedStaysClosed`: nothing late writes into a cancelled or purged test.
* `BootSettles`: a boot leaves no attempt open, and none without its cost unless its job is still queued.
* `ExecutorHoldsLease`: a worker executes only on the current attempt with its lease unexpired.
* `ImplementsHandoff`: one executor per stage, renders within the capacity, one result, and the job told
  once, when no execution is left.
* `DeadlineTells`: past the stage's deadline a single reconciliation ends the wait of its job, whatever became
  of workers, leases and retries, and no waiting job's stage is out of the reconciler's sight.
* `Conserved`: every credit that left a lot is in an open hold, was charged, or was voided.
* `ChargedAsConfirmed`: no charge above the confirmed cost, nor above an approved ceiling.
* `NothingReserved`: nothing is reserved from funding that is being or was refunded.
* `FrozenStill`: what a refund was decided on is neither used nor restored.
* `RefundedOnce`: a request moves its reviewed amount once, however often its cancel is sent.
* `CompletedOnOwnCancel`: a request is completed on its own cancel, not on an earlier one of the same amount.
* `MoneyFreezesCredits`: once money moved, the request has not failed and its credits stay frozen.
* `KeepsPromise`: owners, reviewers, reconciliations and the provider together move requests and money only as
  `RefundPromise` allows.

### Bounds, and why they are enough

* `Jobs`, one or two: the queue's steps concern one row, except the active-job guard, the pick and the
  boot sweeps, which two jobs exercise.  The parametric theorems below say the same for any number.
* `Workers` (of the queue): one is the configuration (`platform/config/config.go:113`, GEN-32).
  `queue_pair` has two, for what does not depend on it.
* `Keys`, two in `queue_clip`: a stage after a stage, so a stale wait of the first meets the second.
* `MaxBoots`: one restart shows a recovery from every state, a second one a recovery that was itself
  interrupted.  `MaxFaults`: one failing call of a worker, of a request, of the wait's owner or of a settlement in the
  boot's hold sweep; a read or a list that fails during boot aborts the boot, which is a `Crash`.  Every failure path
  ends the run, the call or the settlement it happens in and leaves the rest to the next sweep or restart, so a second failure meets
  what the first one leaves only through that restart.
* `identity`: two processes, since a restart overlaps its predecessor's last writes when a deployment is
  replaced, and one identity is repeated from both; two identities, since the active-job guard lets one
  start refuse another.
* `writing_test`: two candidates tell a partial result from a failed one; two attempts are the least at which
  an end meets a retry.  `MaxMishaps` is one crash or one failing call; with none, `writing_test_epoch` is
  already violated.  Candidates are interchangeable, which is the symmetry used.
* `media`: `TTL` 2, `Deadline` 3, `Wait` 1, `Retry` 1 within `MaxTime` 3 is the shortest clock on which a lease
  is renewed, lapses and is claimed again before the stage's deadline, which cuts the last lease short; a limit of one attempt on
  the second stage and two on the first reach both "given back" and "exhausted"; one slot for two renders makes
  the capacity bind.  One mishap may be an unanswered call, a lost worker, a restart or superseded work.  Workers are
  interchangeable.  The theorems about `MediaLease` cover all other values.
* `refund`: two requests one after the other (`OpenRefundForOrder` admits one at a time) make an earlier cancel
  of the same amount; two operations overlap; `Price` 2 separates a full from a partial amount.  A tick is the seven-day
  retry window of a cancel, so `MaxTime` 2 passes the window of the first request inside the run.  Operations
  are interchangeable.
* `Segments`, two: a first and a last call.  `MaxTime`, `MaxCost`, `MaxTopUp` of the ledger: a window that opens later and
  one that has closed; a cost under, at and over the hold; one credit of top-up.  Lot sizes of one and two
  make a hold span two lots and an overrun need a third.
* `CHECK_DEADLOCK FALSE`: the bounded systems stop when every job is over and the restarts are used up, and
  in `speech_boot` when the boot refuses to go on.  `media` needs no such line: its reconciler may always look at a
  stage again or a worker claim.

### Fairness

Only `queue_live`, `speech_boot` and `ledger_voucher` check under fairness; the end of a media wait is
stated as an action property (`DeadlineTells`), since the reconciler runs on a ticker and a tick of it is enough.

Weak fairness is assumed of what a running process does without being asked: the statements that
follow a request's first write, a worker's next database call, the boot steps, the exit after a drain.
It is not assumed of starts, activations, stops, crashes or faults.  Three conditions need a reason:

* a handler returns (`WF` on `Returns`): every provider call in it has a timeout (`llm/registry.go:528`,
  `llm/speech.go:229-263`), and media work is bounded by the owner of the wait rather than by the handler;
* a ready job is not passed over for ever (`SF` on `Pick`): the drain loop takes the *oldest* runnable row,
  and new rows are younger;
* a job does not hand off for ever (`SF` on a return without a park): a clip has finitely many stages and
  each is parked once; and the owner of a wait resolves it (`WF` on `WaitOwner`): that is what `DeadlineTells`
  says of the reconciler's step.

In `ledger_voucher` and `speech_boot` the violated property needs no more than weak fairness of the clock,
of settlements, and of the boot and worker steps.

### One worker only

`SoleOwner` and `HandoffSurvives` are checked, and proved, with one worker because they are false with two: the woken
job may be claimed by the second worker while the first, having parked it, still looks for its pending
wait; it finds a claimed one, takes its yield for void and fails the job under the other's handler
(`job/worker.go:93-115`).  The code is safe because `WorkerConcurrency` is the constant 1.  It is the first
thing to revisit if that constant changes.  Everything else about the queue is proved for any number.

## 4. Findings

1. **A narration start that was interrupted before its activation stops the boot** (`speech_boot`,
   `clip/app/speech.go:454`).  `Recover` runs before `SweepUnactivated` and asks the store to finish a queued
   job; `FinishJob` takes running rows only, the store reports that as an error, and `cmd/api` refuses to
   start, at every attempt.  GEN-33 and `job/query.go:105-106` say such a job is simply failed at boot.
2. **An overrun is drawn from a revoked voucher** (`ledger_voucher`, `usage/store/queries/usage.sql:128`).
   Settlement draws from the lots the start could see, without asking for their expiry, and revocation is an
   expiry.  QUOTA-61 makes that exception for resets and coverage expiry; GIFT-10 and `usage/service.go:198-199`
   make none for a revocation.
3. **The settlement of one attempt makes the next one unbindable** (`writing_test_epoch`,
   `experiment/store/writing_test_runtime.go:126`).  A bind asks for the revision the attempt was admitted at, but
   `ConfirmTestSettlement` counts that revision up.  A retry is allowed once the first attempt has ended, before the
   hook of its job has confirmed what it cost; when it then does, every bind of the retry's job is refused, and the
   job stays queued with its credits held until the test is cancelled or the process restarts.
   `experiment/writing_test_contract.go:40-41` calls the revision "the admission's immutable execution epoch, not the
   changing public bracket revision".

## 5. What is proved

For any sets of jobs, workers, processes, stages, candidates, requests and so on, and for any bounds; from the
named assumptions of the modules (`ASSUME ...`, evaluated by TLC in the runs) and nothing else, except where `OneWorker` is named.

| Module | Theorems | Property |
|---|---|---|
| `JobQueueProofs` | `Invariance`, `TypeCorrect`, `StopsDecide`, `SettlesAsEnded`, `QueueImplementsLifecycle`, `HeldThroughout` | `TypeOK`, `StopDecides`, `SettledAsEnded`, `ImplementsLifecycle`, `HeldWhileActive` |
| `JobQueueServingProofs` | `StopsReachHandlers`, `BootsCloseHolds`, `HoldsAreOwned`; with `OneWorker`: `SoleOwnership`, `HandoffsSurvive` | `StopReachesHandler`, `BootClosesHolds`, `NoStrandedHold`, `SoleOwner`, `HandoffSurvives` |
| `EnqueueIdentityProofs` | `Invariance`, `IdTypeCorrect`, `ReservedThroughout`, `AbandonedAreReleased`, `StartsImplementLifecycle` | `IdTypeOK`, `ReservedWhileActive`, `AbandonedHoldsNothing`, `IdentityImplementsLifecycle` |
| `ClipSpeechProofs` | `Invariance`, `TypeCorrect`, `CallsArePaidOnce`, `DoneRunsAreComplete`, `BootsCloseCalls` | `TypeOK`, `PaidOnce`, `DoneIsComplete`, `BootClosesCalls` |
| `WritingTestProofs` | `Invariance`, `TypeCorrect`, `ReviewsAreComplete`, `SettlementsAreFinal`, `RunsAreOwned`, `ClosedTestsStayClosed`, `BootsSettle` | all six properties of `writing_test` |
| `MediaLeaseProofs` | `Invariance`, `LeasesTyped`, `ExecutorsHoldLeases`, `DeadlinesTell`, `LeasesImplementHandoff` | all four properties of `media` |
| `CreditLedgerProofs` | `LedgerInvariance`, `LedgerTyped`, `CreditsConserved`, `ChargesConfirmed`, `FrozenUnreserved`, `FrozenStays` | `Conserved`, `ChargedAsConfirmed`, `NothingReserved`, `FrozenStill` |
| `RefundRequestProofs` | `Invariance`, `MoneyInvariance`, `RefundsTyped`, `RefundsOnce`, `CompletionsOwn`, `MoneyMovedFreezes`, `RefundsImplementLedger`, `FrozenUnderRefunds`, `RefundsKeepPromise` | all six properties of `refund` |

So every safety property and action property of a passing run is a theorem.

None of the safety properties is inductive alone, because each party acts on something it read earlier.  The
inductive invariants (`IInv` in every module) add what each party knows in between.

**JobQueue.**  `StartInv`: a start between its hold and its insert has no row yet, and is only there while the
process serves.  `StopInv`: only cancellable jobs carry a request, and an ended row is cancelled exactly when it
carries one.  `HoldInv`: a settled hold says what the row says; a Cancel call about to settle has read a cancelled
row, the wait's owner an ended one.  `RunInv`: a worker about to finish as cancelled has seen a request; one about to
settle wants exactly what the row says.  The central lemma is `MovesStep`: under `IInv` every step moves every row as
`JobLifecycle` says.  It is used twice: an ended row does not change, so what a settler read stays true, and it is the
step of the refinement.  `HeldThroughout` is a second induction on top of the first.

**JobQueue while it serves.**  Steps are sorted by whose record they write (`OwnStep`, `Aside`).  `Told` and `Asked`
follow a stop from its request to the signal; `Owned`, `Owed` and `Settler` say which party still owes a hold its
settlement, so that the last step of each of them leaves it closed; `Unpriced` is why `FailQueued` may settle nothing.
`OffDuty` says that workers run only in a process that serves, so nobody ends a job while its boot sweeps.  On it rests
`SweepInv`: during the last sweep, a hold whose job has ended or is missing is still listed or was missed; when the boot
ends nothing is listed any more, which leaves the missed ones (`BootsCloseHolds`).
`Ours` is the worker's claim to its job: with one worker, the wait a run may still find is the one it parked itself.

**EnqueueIdentity.**  `HoldInv`, `CallInv` and `SweepInv`: a call past its claim has a receipt; one about to
insert under a claim that still stands has its hold, because only an abandoned identity's hold is ever released and
abandonment is permanent.  `ReceiptMoves` (a receipt only moves forward) carries each of them over everybody else's
steps.  `AbandonedAreReleased` adds `Met`: whoever took the hold, or listed it, before the abandonment will meet it.

**ClipSpeech.**  `PaidInv`: a call that was never claimed was never issued, and a claimed one is on its way
to its one issue; `Edges` says that no edge of the journal leads back to a claimable call.  `ProgressInv`: the worker has
issued every call before the one it is at.  `ProcessInv`: what a process does dies with it.

**WritingTest.**  `Linked` and `SweepLinked`: what is under way is about an admitted attempt.  `CandInv`: only the
newest attempt's candidates are unfinished.  `CostInv` with `SweepCost`: an attempt is settled only when it has ended
and its job can pay for nothing more; a missing job is taken for free only of a closed attempt.  `BootInv` with
`RecoverInv`: while the attempts are being recovered only the sweep and its hooks move.  `OwnerInv`: what a request knows
of the attempt it dispatches, on which `NoOrphanRun` rests.

**MediaLease.**  `Tokens`: credentials are of attempts there are, and each is one worker's.  `Leases`: what a worker
believes of its lease never exceeds the store's, and a renewal under way cannot shorten it; this is where the margins of
the clock readings are used.  `Leading`: whoever may execute has the current attempt.  `Rows` and `Capacity` complete it.  Every
step but the granting of a claim is first shown to be one of a few *moves* of rows, workers and renewals (`Moves`,
`StepMoves`); the invariant is then shown to be kept by the moves (`MovesKeep`) and by the claim (`ClaimKeeps`), so the many
handlers are looked at once.  The stages have to be finitely many (`StagesAssumption`) for the capacity to count them.
`Bounds` is a second induction, for `TypeOK`: no clock reading, attempt or lease end a worker, a renewal or a row carries exceeds
the instance's bounds.

**CreditLedger.**  `LedgerInv` has four parts.  `LedgerShape`: the debits of an admission are a portion of the
queue its hold was priced from, add up to the hold, and are of lots it could see.  `Backed`: what the open holds have of
a lot is gone from the lot's row, so giving it back never exceeds what was granted; this is why the statements that would
change nothing when their guard fails never do so where the code does not look.  `NothingReserved` and `Conserved` complete it:
neither is inductive without `Backed`, nor `Backed` without knowing that no open hold touches a frozen lot.
Assumed are finitely many lots and jobs, and what `FundsAssumption` says of payments: they fund windows, upgrade lots and
packs, never compensation.  `FrozenStays` is an action property and rests on all four: a settlement returns what it did not charge, and
only `NothingReserved` says that none of it goes to a frozen lot.

**RefundRequest.**  `Kept`: a cancel is sent, and a late one arrives, only while the provider keeps its
key.  `Remembered`: a cancel that went through is remembered until then.  `Reviewed`: only a request that was reviewed
is reconciled, and its amount is written once.  So a repeated cancel moves nothing (`RefundsOnce`).  The other properties relate
the rows to the balance at the provider, and need `MoneyInv`, which adds the ledger's invariant and `Money`: one
request is open at a time, so the balance its review read stands until its own cancel, which is then the last one; whoever
records, confirms or applies a transaction has seen that balance go down, so the transaction is the request's own; whoever is about
to fail it has seen the balance untouched and no cancel can arrive any more.  The last part is the one a reader would argue about: a
refused key is refused again, so between the refusal and the failure nothing of the request can go through.
`RefundsImplementLedger` shows `RefundSpec => Spec`: the refunds are one of the uses the ledger allows, and its theorems hold under them.
`RefundsKeepPromise` shows `RefundSpec => KeepsPromise`.  The mapping takes a request's status from its row, what was given back from
the provider's cancels and what is left of the payment from its balance; a step of the provider is the promise's `GiveBack`, and `MoneyInv` says
that it comes from the request under way and for the first time.

**Sums.**  `Conserved` and the balances are sums over finite sets.  `CreditLedgerProofs` proves what it needs of them (one more
element, one value changed, nothing but zeros, larger values give a larger sum, a portion of a queue adds up to what was asked) from the definition of
the fold, each by the smallest set that would refute it: finite subsets under strict inclusion are well founded, which replaces the
induction theorems that take an operator as a parameter.  `MediaLeaseProofs` does the same for the largest limit of its stages.

### Only model-checked

* Liveness (`StopHonoured`, `DispatchedEnds` and `HoldsClosed` of `queue_live`), and everything about ENABLED: outside what the
  prover handles.
* The three violated properties of section 4, whose counterexamples are behaviours of an instance.

## 6. What the models leave out

* **Queue.** Progress and payload writes, history reads, hooks other than the speech runs' and the writing tests'.
  A plain insert that fails is rolled back: the case of an insert that commits although it reports an error is modelled
  where the code handles it, under stable identities, and is otherwise a listed hazard without a property.
  A failed call may leave a hold open while the process serves, which is why `NoStrandedHold` and liveness are stated
  without one.
  A start is enqueued once; a refused hold is no step.  Which runnable row is oldest is left open.
* **Stable identities.** The fingerprint of the input, a pure check that refuses.  The two reads of `recoverEnqueue`
  are one step: a receipt only moves forward and a row never disappears.
* **Speech.** Quotes, voice bindings, asset cleanup; narration as part of a clip generation, which shares the
  journal.  All runs belong to one project.
* **Writing tests.** Attempts that are not metered, the content of checkpoints, quotes and fingerprints, the matches
  before the last one, a repeated cancel of a test, failing database calls inside the hook (its next sweep repeats it), a second
  Cancel, purge or sweep at the same time.  `RejectTestAdmission` has no caller.  The older model experiments are
  single handlers over the queue.  `BootJobs` settles in one step that does not fail: here an open hold makes
  `SettledJobCharge`, and with it `Recover` and the boot, fail, so a boot that completes has none.
* **Media.** Claims, renewals and failure reports take a time read between the sending of the call and its
  transaction; acceptance and reconciliation read the clock inside it.  A worker counts its lease from when it sent the
  call; the watchdog's margin is less than a tick, and a call ends before the second tick after it was sent
  (`MediaUnaryTimeout` is a sixth of a lease).  Dispatching and parking are one step: a crash between them is `Adopt` of
  `JobQueue`.  Left out: artifact validation and storage keys, failure codes, replays of an answered failure, input pages and
  their cursors, admission and purge of stages, the worker's slots for analysis; analysis stages are those outside `Renders`.
* **Ledger.** One account.  Costs are credits already: the rounding of `ChargeAt` is abstracted.  Calls recorded
  after a settlement are never read again and are omitted.  A compensation lives one tick.  Unit quotes and
  claims, estimates, balances and export windows are left out.  An approved ceiling is the hold itself.
  A refund is approved only of a payment that was applied: the pack or the upgrade's lot it bought is there.
* **Billing.** The provider is external.  It is assumed to remember the answer of an idempotency key, refusals
  included, for longer than the retry window; to refuse a repeated cancel at times although the first went through; and to
  change a payment's balance only by our cancels.  The rule that decides between a full and a partial refund, and the
  dependent upgrades that hold a refund up, are left out, as are subscriptions, renewals, plan changes and fixed
  settlement.

### Not modelled

The components with status `not_modelled` in `PROJECT.json`: CRUD with optimistic revisions, prompts and parsing,
rendering and drawing, clients of external services, calendar arithmetic, the React client, generated code.
None of them shares state with another party in a way the runs would reach, apart from the
candidates named next.

## 7. Plan

In order of what matters most:

1. `ClipSpeech` extended with narration inside a clip generation (`clip/app/initial_speech.go`), which shares the journal.
2. Unit claims of the ledger (`usage/unit_service.go`): a claim before a paid call, its confirmation or expiry.
3. Browser analysis preparations (`clip/app/analysis_preparation.go`): a saga driven by the client, with its own expiry.
4. Billing: renewals against plan changes and upgrades (`billing/subscription.go`, `change.go`, `fixed_settlement.go`).
5. The client's draft queue (`frontend/src/features/save-draft/model/draft-queue.ts`).
6. Proofs: every part added by 1 to 4 with its inductive invariant, as the others have.

## 8. Running it

`tlc -config MCQueueClip.cfg MCJobQueue` and likewise for the other configurations.  The longest are
`MCQueuePair.cfg` (about 7.9 million states, a bit over two minutes on two workers), `MCWritingTest.cfg` (about 4.6
million, a minute and a half) and `MCRefundRequest.cfg` (about 1.5 million, with wide ones, two minutes); `MCLedger.cfg`
has about 1.2 million, a minute and a half.  `tlapm JobQueueProofs.tla` checks the proofs of that module, and
likewise for the others; the longest (`WritingTestProofs`, `MediaLeaseProofs`, `CreditLedgerProofs`,
`RefundRequestProofs`) take a few minutes each from nothing.
