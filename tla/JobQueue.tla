------------------------------ MODULE JobQueue ------------------------------
(***************************************************************************)
(* The durable job queue of backend/internal/job with the credit hold each *)
(* start carries, as cmd/api composes them.                                *)
(*                                                                         *)
(* The rows (status, cancelReq, ready, cont, hold) are in SQLite and       *)
(* survive a restart; every one of them is written by single statements or *)
(* transactions on one writer connection, so each such write is one step.  *)
(* Everything else is memory of the process: what a worker, a request or   *)
(* the media reconciler was doing.  A worker's run is split at each        *)
(* database call it makes.                                                 *)
(***************************************************************************)
EXTENDS Naturals

CONSTANTS
    Jobs,       \* job ids: each is enqueued at most once
    Workers,    \* in-process workers (WorkerConcurrency)
    Keys,       \* wait keys of durable external waits
    Kind,       \* Kind[j]: "plain", "owned", "test" or "clip"
    Subject,    \* Subject[j]: what the active-job guard serializes
    NoJob,
    MaxBoots,   \* bound: restarts of the process
    MaxFaults   \* bound: database calls of a worker or a request that fail

ASSUME JobsAssumption == /\ NoJob \notin Jobs
                         /\ Kind \in [Jobs -> {"plain", "owned", "test", "clip"}]
ASSUME BoundsAssumption == MaxBoots \in Nat /\ MaxFaults \in Nat

\* The kind lists of the composition root.  A deferred job waits for its
\* owner's activation; a cancellable one may be stopped; clip work takes its
\* hold in mid-run, every other kind before its row is inserted.
Deferred(j)     == Kind[j] \in {"test", "clip"}
Cancellable(j)  == Kind[j] # "plain"
HeldAtStart(j)  == Kind[j] # "clip"
Resumable(j)    == Kind[j] = "clip"

Terminal == {"done", "failed", "cancelled"}
Status   == {"absent", "queued", "running"} \cup Terminal
Hold     == {"none", "open"} \cup Terminal
Policy   == {"fail_on_interrupt", "replay_safe"}
NoWait   == [state |-> "none"]
Wait     == [state : {"waiting", "ready", "claimed"}, key : Keys, policy : Policy]

\* A worker between two database calls of run().  err is what the handler
\* returned, want the status the run means to finish or settle with.
WorkerPc == {"idle", "register", "check", "handler", "pending", "yield",
             "persisted", "finish", "reread", "settle"}
Worker   == [pc : WorkerPc, job : Jobs \cup {NoJob},
             did : {"nothing", "parked", "committed"}, sig : BOOLEAN,
             err : {"nil", "fail", "ctx", "yield"}, want : Terminal]
Idle     == [pc |-> "idle", job |-> NoJob, did |-> "nothing", sig |-> FALSE,
             err |-> "nil", want |-> "failed"]

Phases == {"reconcile", "sweep", "list", "holds", "unactivated", "list2", "holds2",
           "up", "stopping"}

VARIABLES
    status, cancelReq, ready, cont, hold,   \* durable
    enq,       \* an Enqueue call: "new", "held" (before its insert), "over"
    wk,        \* the workers
    canceller, \* an owner's Cancel call: "idle", "resolve" or "settle"
    waiter,    \* the reconciler after it ended a waiting job: "idle", "settle"
    phase,     \* the boot sequence, then serving, then graceful shutdown
    sweeper,   \* the boot's hold sweep: "listed" is an open hold it has still to
               \* look at, "missed" one whose settlement failed
    boots, faults

durable == <<status, cancelReq, ready, cont, hold>>
vars == <<status, cancelReq, ready, cont, hold, enq, wk, canceller, waiter,
          phase, sweeper, boots, faults>>

TypeOK ==
    /\ status    \in [Jobs -> Status]
    /\ cancelReq \in [Jobs -> BOOLEAN]
    /\ ready     \in [Jobs -> BOOLEAN]
    /\ cont      \in [Jobs -> Wait \cup {NoWait}]
    /\ hold      \in [Jobs -> Hold]
    /\ enq       \in [Jobs -> {"new", "held", "over"}]
    /\ wk        \in [Workers -> Worker]
    /\ canceller \in [Jobs -> {"idle", "resolve", "settle"}]
    /\ waiter    \in [Jobs -> {"idle", "settle"}]
    /\ phase     \in Phases
    /\ sweeper   \in [Jobs -> {"idle", "listed", "missed"}]
    /\ boots     \in 0..MaxBoots
    /\ faults    \in 0..MaxFaults

Init ==
    /\ status    = [j \in Jobs |-> "absent"]
    /\ cancelReq = [j \in Jobs |-> FALSE]
    /\ ready     = [j \in Jobs |-> FALSE]
    /\ cont      = [j \in Jobs |-> NoWait]
    /\ hold      = [j \in Jobs |-> "none"]
    /\ enq       = [j \in Jobs |-> "new"]
    /\ wk        = [w \in Workers |-> Idle]
    /\ canceller = [j \in Jobs |-> "idle"]
    /\ waiter    = [j \in Jobs |-> "idle"]
    /\ phase     = "reconcile"
    /\ sweeper   = [j \in Jobs |-> "idle"]
    /\ boots     = 0
    /\ faults    = 0

Active(j)   == status[j] \in {"queued", "running"}
Serving     == phase \in {"up", "stopping"}
Signed(w)   == wk[w].sig \/ phase = "stopping"   \* ctx.Err() # nil in the handler
\* The handoff is durable and nobody has taken it up (HasPendingWait).
PendingOrClaimed(j) == status[j] = "running" /\ cont[j] # NoWait   \* mutant: any state of the wait
Pending(j)  == status[j] = "running" /\ cont[j].state \in {"waiting", "ready"}
\* Some other job of the same subject would violate the active-job index.
Rivalled(j) == \E i \in Jobs \ {j} : Subject[i] = Subject[j] /\ Active(i)

\* The ledger closes an open hold once; without one a settlement writes nothing.
Settled(h, j, s) == IF h[j] = "open" THEN [h EXCEPT ![j] = s] ELSE h
Released(h, j)   == IF h[j] = "open" THEN [h EXCEPT ![j] = "none"] ELSE h

-----------------------------------------------------------------------------
(* Enqueue, and what a caller does with the queued row. *)

\* The active-job guard passes and the hold is taken, unless the kind defers
\* it.  A refused hold ends the call with nothing written: the job stays new.
Admit(j) ==
    /\ Serving
    /\ enq[j] = "new"
    /\ ~Rivalled(j)
    /\ enq'  = [enq EXCEPT ![j] = "held"]
    /\ hold' = IF HeldAtStart(j) THEN [hold EXCEPT ![j] = "open"] ELSE hold
    /\ UNCHANGED <<status, cancelReq, ready, cont, wk, canceller, waiter, phase, sweeper, boots, faults>>

\* The row is inserted, or a start that was admitted meanwhile owns the
\* subject and the hold is given back.
ConflictForgotten(j) == hold                         \* mutant: no release
ConflictReleased(j)  == Released(hold, j)

Insert(j) ==
    /\ Serving
    /\ enq[j] = "held"
    /\ enq' = [enq EXCEPT ![j] = "over"]
    /\ IF Rivalled(j)
          THEN hold' = ConflictReleased(j) /\ UNCHANGED <<status, ready>>
          ELSE /\ status' = [status EXCEPT ![j] = "queued"]
               /\ ready'  = [ready EXCEPT ![j] = ~Deferred(j)]
               /\ UNCHANGED hold
    /\ UNCHANGED <<cancelReq, cont, wk, canceller, waiter, phase, sweeper, boots, faults>>

\* The owner approved deferred work: a worker may pick it up.
Activate(j) ==
    /\ Serving
    /\ Deferred(j) /\ status[j] = "queued" /\ ~ready[j] /\ ~cancelReq[j]
    /\ ready' = [ready EXCEPT ![j] = TRUE]
    /\ UNCHANGED <<status, cancelReq, cont, hold, enq, wk, canceller, waiter, phase, sweeper, boots, faults>>

\* A clip start could not link its job, or its wait for an approval expired.
\* Only clip code calls it: nothing was held for such a row.
FailQueued(j) ==
    /\ Serving
    /\ Resumable(j) /\ status[j] = "queued" /\ ~cancelReq[j]
    /\ status' = [status EXCEPT ![j] = "failed"]
    /\ UNCHANGED <<cancelReq, ready, cont, hold, enq, wk, canceller, waiter, phase, sweeper, boots, faults>>

-----------------------------------------------------------------------------
(* An owner stops a job. *)

\* The request is durable first; on queued work it is also the terminal write.
RequestCancel(j) ==
    /\ Serving
    /\ canceller[j] = "idle" /\ Cancellable(j) /\ Active(j)
    /\ canceller' = [canceller EXCEPT ![j] = "resolve"]
    /\ cancelReq' = [cancelReq EXCEPT ![j] = TRUE]
    /\ status'    = IF status[j] = "queued" THEN [status EXCEPT ![j] = "cancelled"] ELSE status
    /\ UNCHANGED <<ready, cont, hold, enq, wk, waiter, phase, sweeper, boots, faults>>

\* A run is in the queue's map from its registration until run() returns.
Registered(w, j) == wk[w].job = j /\ wk[w].pc \notin {"idle", "register"}

\* The request is read back, the registered run is signalled, and work the
\* request itself ended is left to settle.
ResolveCancel(j) ==
    /\ canceller[j] = "resolve"
    /\ wk' = [w \in Workers |-> IF Registered(w, j) THEN [wk[w] EXCEPT !.sig = TRUE] ELSE wk[w]]
    /\ canceller' = [canceller EXCEPT ![j] = IF status[j] = "cancelled" THEN "settle" ELSE "idle"]
    /\ UNCHANGED <<status, cancelReq, ready, cont, hold, enq, waiter, phase, sweeper, boots, faults>>

SettleCancel(j) ==
    /\ canceller[j] = "settle"
    /\ hold' = Settled(hold, j, "cancelled")
    /\ canceller' = [canceller EXCEPT ![j] = "idle"]
    /\ UNCHANGED <<status, cancelReq, ready, cont, enq, wk, waiter, phase, sweeper, boots, faults>>

-----------------------------------------------------------------------------
(* The owner of a durable wait (the media reconciler and result intake). *)

WaitOwnerRuns == phase \in {"reconcile", "up", "stopping"}

Wake(j) ==
    /\ WaitOwnerRuns
    /\ status[j] = "running" /\ ~cancelReq[j] /\ cont[j].state = "waiting"
    /\ cont' = [cont EXCEPT ![j].state = "ready"]
    /\ UNCHANGED <<status, cancelReq, ready, hold, enq, wk, canceller, waiter, phase, sweeper, boots, faults>>

FailWait(j) ==
    /\ WaitOwnerRuns /\ waiter[j] = "idle"
    /\ Pending(j) /\ ~cancelReq[j]
    /\ status' = [status EXCEPT ![j] = "failed"]
    /\ waiter' = [waiter EXCEPT ![j] = "settle"]
    /\ UNCHANGED <<cancelReq, ready, cont, hold, enq, wk, canceller, phase, sweeper, boots, faults>>

\* The external work has stopped: the parked job ends as its owner asked.
AcknowledgeStop(j) ==
    /\ WaitOwnerRuns /\ waiter[j] = "idle"
    /\ Pending(j) /\ cancelReq[j]
    /\ status' = [status EXCEPT ![j] = "cancelled"]
    /\ waiter' = [waiter EXCEPT ![j] = "settle"]
    /\ UNCHANGED <<cancelReq, ready, cont, hold, enq, wk, canceller, phase, sweeper, boots, faults>>

\* A restart interrupted a render between its pick and its first handoff: its
\* stage was admitted with it, so the boot parks it instead of losing it.
Adopt(j, k) ==
    /\ phase = "reconcile"
    /\ Resumable(j) /\ status[j] = "running" /\ ~cancelReq[j] /\ ready[j]
    /\ cont[j] = NoWait
    /\ cont' = [cont EXCEPT ![j] = [state |-> "waiting", key |-> k, policy |-> "replay_safe"]]
    /\ UNCHANGED <<status, cancelReq, ready, hold, enq, wk, canceller, waiter, phase, sweeper, boots, faults>>

\* The ended row is read back and its hold settled with the status found.
SettleWait(j) ==
    /\ waiter[j] = "settle"
    /\ hold'   = Settled(hold, j, status[j])
    /\ waiter' = [waiter EXCEPT ![j] = "idle"]
    /\ UNCHANGED <<status, cancelReq, ready, cont, enq, wk, canceller, phase, sweeper, boots, faults>>

-----------------------------------------------------------------------------
(* A worker's run, one step per database call. *)

Runnable(j) == /\ ~cancelReq[j]
               /\ \/ status[j] = "queued" /\ ready[j]
                  \/ status[j] = "running" /\ cont[j].state = "ready"

\* The oldest runnable row becomes running and its continuation is claimed in
\* the same transaction.  Which row is oldest is left open.
Pick(w, j) ==
    /\ phase = "up"
    /\ wk[w].pc = "idle" /\ Runnable(j)
    /\ status' = [status EXCEPT ![j] = "running"]
    /\ cont' = IF cont[j] = NoWait THEN cont ELSE [cont EXCEPT ![j].state = "claimed"]
    /\ wk' = [wk EXCEPT ![w] = [Idle EXCEPT !.job = j,
                                !.pc = IF Cancellable(j) THEN "register" ELSE "handler"]]
    /\ UNCHANGED <<cancelReq, ready, hold, enq, canceller, waiter, phase, sweeper, boots, faults>>

\* The run enters the map a Cancel looks in before it reads the row, so that
\* a request is seen either by this read or by the map.
Register(w) ==
    /\ wk[w].pc = "register"
    /\ wk' = [wk EXCEPT ![w].pc = "check"]
    /\ UNCHANGED <<durable, enq, canceller, waiter, phase, sweeper, boots, faults>>

StopMissed(j) == status[j] \in Terminal      \* mutant: the request is not looked at
StopSeen(j)   == cancelReq[j] \/ status[j] \in Terminal

CheckStop(w) ==
    /\ wk[w].pc = "check"
    /\ wk' = [wk EXCEPT ![w] = IF StopSeen(wk[w].job)
                                 THEN [@ EXCEPT !.pc = "pending", !.err = "ctx", !.sig = TRUE]
                                 ELSE [@ EXCEPT !.pc = "handler"]]
    /\ UNCHANGED <<durable, enq, canceller, waiter, phase, sweeper, boots, faults>>

\* Clip work takes its hold while it prepares, in one transaction with the
\* check that it is still wanted.
Reserve(w) ==
    LET j == wk[w].job IN
    /\ wk[w].pc = "handler" /\ wk[w].did = "nothing"
    /\ Resumable(j) /\ status[j] = "running" /\ ~cancelReq[j] /\ hold[j] = "none"
    /\ hold' = [hold EXCEPT ![j] = "open"]
    /\ UNCHANGED <<status, cancelReq, ready, cont, enq, wk, canceller, waiter, phase, sweeper, boots, faults>>

\* Clip work hands a stage to the media worker and parks.  The stage may be
\* finished already: then the wait is woken in the same transaction.
Park(w, k, p, s) ==
    LET j == wk[w].job IN
    /\ wk[w].pc = "handler" /\ wk[w].did = "nothing"
    /\ Resumable(j) /\ status[j] = "running" /\ ~cancelReq[j] /\ ready[j]
    /\ cont[j] = NoWait \/ (cont[j].state = "claimed" /\ cont[j].key # k)
    /\ cont' = [cont EXCEPT ![j] = [state |-> s, key |-> k, policy |-> p]]
    /\ wk'   = [wk EXCEPT ![w].did = "parked"]
    /\ UNCHANGED <<status, cancelReq, ready, hold, enq, canceller, waiter, phase, sweeper, boots, faults>>

\* Clip work publishes its result and ends its own row in one transaction.
Commit(w) ==
    LET j == wk[w].job IN
    /\ wk[w].pc = "handler" /\ wk[w].did = "nothing"
    /\ Resumable(j) /\ status[j] = "running" /\ ~cancelReq[j]
    /\ status' = [status EXCEPT ![j] = "done"]
    /\ wk'     = [wk EXCEPT ![w].did = "committed"]
    /\ UNCHANGED <<cancelReq, ready, cont, hold, enq, canceller, waiter, phase, sweeper, boots, faults>>

\* The handler returns, whether or not it parked: success, a yield, a failure
\* (a panic, a missing handler, a lost response), or a context error once its
\* context has ended.  Only a handler that has ended its own row does not
\* yield: none of this code does, and CheckYield would leave its hold behind.
HandlerReturn(w, e) ==
    /\ wk[w].pc = "handler"
    /\ e = "yield" => wk[w].did # "committed"
    /\ e = "ctx"   => Signed(w)
    /\ wk' = [wk EXCEPT ![w].pc = "pending", ![w].err = e]
    /\ UNCHANGED <<durable, enq, canceller, waiter, phase, sweeper, boots, faults>>

Leave(w)       == [wk EXCEPT ![w] = Idle]
Goto(w, pc)    == [wk EXCEPT ![w].pc = pc]
\* Graceful shutdown cut the handler off: the row is left to the next boot.
CutOff(w)      == phase = "stopping" /\ wk[w].err = "ctx"
Outcome(e, stop) == IF stop THEN "cancelled" ELSE IF e = "nil" THEN "done" ELSE "failed"

\* The committed wait wins over whatever the handler returned.
WaitIgnored(j) == FALSE      \* mutant: HasPendingWait is not asked
WaitWins(j)    == Pending(j)

CheckPending(w) ==
    LET j == wk[w].job IN
    /\ wk[w].pc = "pending"
    /\ wk' = IF WaitWins(j) THEN Leave(w)
             ELSE IF wk[w].err = "yield" THEN Goto(w, "yield")
             ELSE IF Cancellable(j) THEN Goto(w, "persisted")
             ELSE IF CutOff(w) THEN Leave(w)
             ELSE [wk EXCEPT ![w].pc = "finish", ![w].want = Outcome(wk[w].err, FALSE)]
    /\ UNCHANGED <<durable, enq, canceller, waiter, phase, sweeper, boots, faults>>

\* A yield without a wait: its owner has ended the job, or the yield was void.
CheckYield(w) ==
    /\ wk[w].pc = "yield"
    /\ wk' = IF status[wk[w].job] \in Terminal
               THEN Leave(w)
               ELSE [wk EXCEPT ![w].pc = "persisted", ![w].err = "fail"]
    /\ UNCHANGED <<durable, enq, canceller, waiter, phase, sweeper, boots, faults>>

ReadPersisted(w) ==
    LET j == wk[w].job
        ended == status[j] \in Terminal
    IN
    /\ wk[w].pc = "persisted"
    /\ wk' = IF CutOff(w) /\ ~cancelReq[j] /\ ~ended
               THEN Leave(w)
               ELSE [wk EXCEPT ![w].want = Outcome(wk[w].err, cancelReq[j]),
                               ![w].pc = IF ended THEN "reread" ELSE "finish"]
    /\ UNCHANGED <<durable, enq, canceller, waiter, phase, sweeper, boots, faults>>

\* The terminal write: it takes a running row only, and a stop accepted since
\* the run last looked turns it into a cancellation.
FinishAsAsked(j, s) == s     \* mutant: the stop is not looked at again
FinishStatus(j, s)  == IF cancelReq[j] THEN "cancelled" ELSE s

Finished(w) ==
    LET j == wk[w].job IN
    IF status[j] = "running" THEN [status EXCEPT ![j] = FinishStatus(j, wk[w].want)] ELSE status

\* After a refused write, and always for cancellable work, only what the row
\* now says can authorize the settlement.
NeverReread(w) == FALSE      \* mutant: the run settles with what it meant to write
MustReread(w)  == Cancellable(wk[w].job) \/ status[wk[w].job] # "running"

Finish(w) ==
    /\ wk[w].pc = "finish"
    /\ status' = Finished(w)
    /\ wk' = Goto(w, IF MustReread(w) THEN "reread" ELSE "settle")
    /\ UNCHANGED <<cancelReq, ready, cont, hold, enq, canceller, waiter, phase, sweeper, boots, faults>>

Reread(w) ==
    LET j == wk[w].job IN
    /\ wk[w].pc = "reread"
    /\ wk' = IF status[j] \in Terminal
               THEN [wk EXCEPT ![w].pc = "settle", ![w].want = status[j]]
               ELSE Leave(w)
    /\ UNCHANGED <<durable, enq, canceller, waiter, phase, sweeper, boots, faults>>

Settle(w) ==
    /\ wk[w].pc = "settle"
    /\ hold' = Settled(hold, wk[w].job, wk[w].want)
    /\ wk'   = Leave(w)
    /\ UNCHANGED <<status, cancelReq, ready, cont, enq, canceller, waiter, phase, sweeper, boots, faults>>

-----------------------------------------------------------------------------
(* Database calls that fail. *)

Fault == faults < MaxFaults /\ faults' = faults + 1

\* A failed read ends the run where it stands; the read at registration is
\* the run's own failure instead.
ReadFails(w) ==
    /\ Fault
    /\ \/ wk[w].pc \in {"pending", "yield", "persisted", "reread"} /\ wk' = Leave(w)
       \/ wk[w].pc = "check" /\ wk' = [wk EXCEPT ![w].pc = "pending", ![w].err = "fail"]
    /\ UNCHANGED <<durable, enq, canceller, waiter, phase, sweeper, boots>>

\* The terminal write reports an error, and may have committed all the same.
FinishFails(w) ==
    /\ Fault
    /\ wk[w].pc = "finish"
    /\ status' \in {status, Finished(w)}
    /\ wk' = Goto(w, "reread")
    /\ UNCHANGED <<cancelReq, ready, cont, hold, enq, canceller, waiter, phase, sweeper, boots>>

\* A settlement that fails is logged and leaves the hold open.
SettleFails(w) ==
    /\ Fault
    /\ wk[w].pc = "settle"
    /\ wk' = Leave(w)
    /\ UNCHANGED <<durable, enq, canceller, waiter, phase, sweeper, boots>>

\* A Cancel call, or the waits' owner, stops after its first write.
CallFails(j) ==
    /\ Fault
    /\ \/ canceller[j] # "idle" /\ canceller' = [canceller EXCEPT ![j] = "idle"] /\ UNCHANGED waiter
       \/ waiter[j] # "idle" /\ waiter' = [waiter EXCEPT ![j] = "idle"] /\ UNCHANGED canceller
    /\ UNCHANGED <<durable, enq, wk, phase, sweeper, boots>>

\* An insert that fails is rolled back and its hold given back, unless the
\* release fails as well: that is logged and the hold stays.
InsertFails(j) ==
    /\ Fault
    /\ Serving
    /\ enq[j] = "held"
    /\ enq'  = [enq EXCEPT ![j] = "over"]
    /\ hold' \in {hold, Released(hold, j)}
    /\ UNCHANGED <<status, cancelReq, ready, cont, wk, canceller, waiter, phase, sweeper, boots>>

-----------------------------------------------------------------------------
(* Restart, and the boot sequence that precedes any worker or request. *)

\* What a process leaves behind is its rows: the memory of it is gone.
Reset ==
    /\ phase'     = "reconcile"
    /\ wk'        = [w \in Workers |-> Idle]
    /\ canceller' = [j \in Jobs |-> "idle"]
    /\ waiter'    = [j \in Jobs |-> "idle"]
    /\ sweeper'   = [j \in Jobs |-> "idle"]
    /\ enq'       = [j \in Jobs |-> IF enq[j] = "held" THEN "over" ELSE enq[j]]
    /\ UNCHANGED <<durable, faults>>

Crash    == boots < MaxBoots /\ boots' = boots + 1 /\ Reset
Shutdown == /\ phase = "up" /\ boots < MaxBoots
            /\ phase' = "stopping" /\ boots' = boots + 1
            /\ UNCHANGED <<durable, enq, wk, canceller, waiter, sweeper, faults>>
\* The listeners close once every worker has returned.
Exit     == /\ phase = "stopping" /\ \A w \in Workers : wk[w].pc = "idle"
            /\ UNCHANGED boots /\ Reset

\* A stop nobody finished, except where external work may still be going on.
RecoverCancellations ==
    /\ phase = "reconcile" /\ \A j \in Jobs : waiter[j] = "idle"
    /\ phase' = "sweep"
    /\ status' = [j \in Jobs |->
          IF /\ Cancellable(j) /\ Active(j) /\ cancelReq[j]
             /\ cont[j].state \notin {"waiting", "ready"}
             /\ ~(cont[j].state = "claimed" /\ cont[j].policy = "replay_safe")
          THEN "cancelled" ELSE status[j]]
    /\ UNCHANGED <<cancelReq, ready, cont, hold, enq, wk, canceller, waiter, sweeper, boots, faults>>

\* A claimed handoff that may be replayed becomes ready again; then every
\* running job without a handoff is failed, in one transaction.
NotReplayed(c) == c          \* mutant: the readying statement is missing
Replayed(c)    == IF c.state = "claimed" /\ c.policy = "replay_safe" THEN [c EXCEPT !.state = "ready"] ELSE c
EverHandedOff(c) == c # NoWait   \* mutant: any state of the wait
HandedOff(c)   == c.state \in {"waiting", "ready"}

SweepRunning ==
    /\ phase = "sweep" /\ phase' = "list"
    /\ cont' = [j \in Jobs |-> IF status[j] = "running" /\ cont[j] # NoWait
                               THEN Replayed(cont[j]) ELSE cont[j]]
    /\ status' = [j \in Jobs |-> IF status[j] = "running" /\ ~cancelReq[j] /\ ~HandedOff(cont'[j])
                                 THEN "failed" ELSE status[j]]
    /\ UNCHANGED <<cancelReq, ready, hold, enq, wk, canceller, waiter, sweeper, boots, faults>>

\* The sweep lists the open holds once and takes them one by one: it reads
\* the job, skips one that is queued or running, and closes the hold of any
\* other as the job ended, or gives it back when there is no row.
ListHolds ==
    /\ phase \in {"list", "list2"}
    /\ phase'   = IF phase = "list" THEN "holds" ELSE "holds2"
    /\ sweeper' = [j \in Jobs |-> IF hold[j] = "open" THEN "listed" ELSE "idle"]
    /\ UNCHANGED <<durable, enq, wk, canceller, waiter, boots, faults>>

SweepFindsLive(j) == TRUE                     \* mutant: the status is not looked at
SweepFindsRows(j) == status[j] \in Terminal   \* mutant: orphans are skipped
SweepFinds(j)     == ~Active(j)
Sweeps(j)         == phase \in {"holds", "holds2"} /\ sweeper[j] = "listed"

SweepHold(j) ==
    /\ Sweeps(j)
    /\ hold' = IF ~SweepFinds(j) THEN hold
               ELSE IF status[j] = "absent" THEN Released(hold, j) ELSE Settled(hold, j, status[j])
    /\ sweeper' = [sweeper EXCEPT ![j] = "idle"]
    /\ UNCHANGED <<status, cancelReq, ready, cont, enq, wk, canceller, waiter, phase, boots, faults>>

\* A settlement or a release that fails is logged, and the sweep goes on.
SweepMisses(j) ==
    /\ Fault
    /\ Sweeps(j) /\ SweepFinds(j)
    /\ sweeper' = [sweeper EXCEPT ![j] = "missed"]
    /\ UNCHANGED <<durable, enq, wk, canceller, waiter, phase, boots>>

\* After one pass the boot goes on, whatever is still open.  The first sweep
\* precedes the failing of unactivated work, the second follows it; then the
\* workers start and requests are served.
HoldsSwept ==
    /\ phase \in {"holds", "holds2"} /\ \A j \in Jobs : sweeper[j] # "listed"
    /\ phase'   = IF phase = "holds" THEN "unactivated" ELSE "up"
    /\ sweeper' = [j \in Jobs |-> "idle"]
    /\ UNCHANGED <<durable, enq, wk, canceller, waiter, boots, faults>>

SkipSecondSweep  == "up"     \* mutant: the holds are swept only once
AfterUnactivated == "list2"

SweepUnactivated ==
    /\ phase = "unactivated" /\ phase' = AfterUnactivated
    /\ status' = [j \in Jobs |-> IF Deferred(j) /\ status[j] = "queued" /\ ~ready[j] /\ ~cancelReq[j]
                                 THEN "failed" ELSE status[j]]
    /\ UNCHANGED <<cancelReq, ready, cont, hold, enq, wk, canceller, waiter, sweeper, boots, faults>>

-----------------------------------------------------------------------------

Caller(j)    == Admit(j) \/ Insert(j) \/ Activate(j) \/ FailQueued(j) \/ RequestCancel(j)
Resolver(j)  == ResolveCancel(j) \/ SettleCancel(j)
WaitOwner(j) == Wake(j) \/ FailWait(j) \/ AcknowledgeStop(j)
Handler(w)   == \/ Reserve(w) \/ Commit(w)
                \/ \E k \in Keys, p \in Policy, s \in {"waiting", "ready"} : Park(w, k, p, s)
Returns(w)   == \E e \in {"nil", "fail", "ctx", "yield"} : HandlerReturn(w, e)
RunStep(w)   == \/ Register(w) \/ CheckStop(w) \/ CheckPending(w) \/ CheckYield(w)
                \/ ReadPersisted(w) \/ Finish(w) \/ Reread(w) \/ Settle(w)
Faulty       == \/ \E w \in Workers : ReadFails(w) \/ FinishFails(w) \/ SettleFails(w)
                \/ \E j \in Jobs : CallFails(j) \/ InsertFails(j) \/ SweepMisses(j)
BootStep     == \/ RecoverCancellations \/ SweepRunning \/ ListHolds \/ HoldsSwept \/ SweepUnactivated
                \/ \E j \in Jobs : SweepHold(j)

Next ==
    \/ \E j \in Jobs : Caller(j) \/ Resolver(j) \/ WaitOwner(j) \/ SettleWait(j)
    \/ \E j \in Jobs, k \in Keys : Adopt(j, k)
    \/ \E w \in Workers, j \in Jobs : Pick(w, j)
    \/ \E w \in Workers : Handler(w) \/ Returns(w) \/ RunStep(w)
    \/ Faulty \/ BootStep \/ Crash \/ Shutdown \/ Exit

Spec == Init /\ [][Next]_vars

\* The process takes its steps and every handler returns.  A picked job is
\* the oldest, so no job is passed over for ever (SF on Pick); a handler hands
\* off finitely many stages (SF on its other return); every wait is resolved
\* by its owner, who has a deadline for it.
Fairness ==
    /\ \A j \in Jobs : /\ WF_vars(Insert(j)) /\ WF_vars(Resolver(j)) /\ WF_vars(SettleWait(j))
                       /\ WF_vars(WaitOwner(j))
                       /\ SF_vars(\E w \in Workers : Pick(w, j))
    /\ \A w \in Workers : /\ WF_vars(Returns(w)) /\ WF_vars(RunStep(w))
                          /\ SF_vars(wk[w].did # "parked" /\ Returns(w))
    /\ WF_vars(BootStep) /\ WF_vars(Exit)

FairSpec == Spec /\ Fairness

-----------------------------------------------------------------------------
(* Properties. *)

Lifecycle == INSTANCE JobLifecycle WITH stopped <- cancelReq

\* The rows, whoever writes them in whatever order, move as JobLifecycle
\* allows: an ended job stays as it ended, an accepted stop ends it cancelled
\* and nothing else does, and its hold is closed once, as it ended.
ImplementsLifecycle == Lifecycle!Spec

\* An accepted stop is never overtaken by a result or a failure, whatever the
\* run, the wait's owner or a boot sweep writes after it (FinishJob and its
\* neighbours all look at the request again in the statement itself).
StopDecides == \A j \in Jobs : cancelReq[j] /\ status[j] \in Terminal => status[j] = "cancelled"

\* The ledger settled a job with the outcome the row carries, though the
\* worker, the Cancel call, the wait's owner and the boot sweep may all settle
\* it and each decides the outcome from a read of its own.
SettledAsEnded == \A j \in Jobs : hold[j] \in Terminal => hold[j] = status[j]

\* Work that was priced before it was queued never waits or runs without its
\* credits: neither a refused start's release nor a sweep takes a live hold.
HeldWhileActive == \A j \in Jobs : HeldAtStart(j) /\ Active(j) => hold[j] = "open"

\* While the process serves and its database answers, an open hold whose job
\* has ended or was never inserted has somebody on the way to close it: the
\* call that is enqueueing it, the worker that ran it, the Cancel call or the
\* wait's owner.
Loose(j)   == hold[j] = "open" /\ (status[j] \in Terminal \/ status[j] = "absent")
Closing(j) == \/ enq[j] = "held" \/ canceller[j] # "idle" \/ waiter[j] # "idle"
              \/ \E w \in Workers : wk[w].job = j
NoStrandedHold == Serving /\ faults = 0 => \A j \in Jobs : Loose(j) => Closing(j)

\* A boot leaves behind, of everything a crash or a fault left open, only the
\* holds whose own settlement failed in its last sweep: a failure does not
\* stop the sweep, what the first sweep missed the second tries again, and
\* work the boot itself fails in between is not forgotten.
BootClosesHolds ==
    [][phase # "up" /\ phase' = "up" => \A j \in Jobs : Loose(j)' => sweeper[j] = "missed"]_vars

\* A job that handed its work off, or may be replayed after a restart, is
\* ended by the owner of that handoff only: no worker that meets it late and
\* no boot sweep fails it (GEN-33, ARCH-50).
Guarded(j) == /\ status[j] = "running"
              /\ \/ cont[j].state \in {"waiting", "ready"}
                 \/ ~Serving /\ cont[j].state = "claimed" /\ cont[j].policy = "replay_safe"
HandoffSurvives ==
    [][\A j \in Jobs : Guarded(j) => status'[j] = "running" \/ waiter'[j] = "settle"]_vars

\* Nobody ends a job under a handler that is still working on it: the one
\* worker, the requests and the waits' owner never do.
SoleOwner == \A w \in Workers : wk[w].pc = "handler" /\ wk[w].did = "nothing"
                                => status[wk[w].job] = "running"

\* Once a Cancel call has returned, a handler that is still running has been
\* signalled: the request cannot fall between the run's registration and its
\* read of the row.
StopReachesHandler ==
    faults = 0 => \A w \in Workers : LET j == wk[w].job IN
        wk[w].pc = "handler" /\ cancelReq[j] /\ canceller[j] = "idle" => wk[w].sig

\* An accepted stop ends the job, through restarts and handoffs.
StopHonoured == \A j \in Jobs : cancelReq[j] ~> status[j] = "cancelled"

\* A job that was released to the workers ends.
DispatchedEnds == \A j \in Jobs : (status[j] = "queued" /\ ready[j]) ~> status[j] \in Terminal

\* No credits stay reserved for a job that has ended or was never made.
HoldsClosed == \A j \in Jobs : Loose(j) ~> hold[j] # "open"
=============================================================================
