----------------------------- MODULE WritingTest -----------------------------
(***************************************************************************)
(* One writing test (experiment/writing_test_*.go and its store): a set of *)
(* candidates is written by a background job, an attempt; candidates that  *)
(* failed may be written again by a further attempt.  The test, its        *)
(* attempts and candidates are rows of one context; the job and its hold   *)
(* belong to the queue and the ledger; a request, the worker, the terminal *)
(* hook and the sweeper join them, each several transactions long, and     *)
(* every write is fenced by what the rows say at that moment.              *)
(*                                                                         *)
(* A start of the job is one step with the answers EnqueueIdentity gives   *)
(* it; the queue and the ledger appear as JobLifecycle promises them.      *)
(***************************************************************************)
EXTENDS Naturals, FiniteSets

CONSTANTS
    Cands,        \* the test's candidates
    MaxAttempts,  \* bound: the start and its retries
    Requests,     \* requests in flight at once that dispatch the test
    MaxMishaps    \* bound: restarts, and calls that fail or lose their answer

ASSUME WritingTestAssumption == Cands # {} /\ MaxAttempts \in Nat \ {0} /\ MaxMishaps \in Nat

Attempts == 1..MaxAttempts
None     == 0

Open     == {"prepared", "queued", "running"}
Terminal == {"done", "failed", "cancelled"}

VARIABLES
    test,    \* the test's row: status, revision, the job it is bound to, purged or not
    cand,    \* cand[c]: pending (or running), good, failed or cancelled
    att,     \* att[a]: the attempt's row; its epoch is the revision it was admitted at
    row,     \* row[a]: the job's status; its id is derived from the attempt
    ready,   \* ready[a]: dispatch_ready
    stop,    \* stop[a]: the job's cancellation was requested
    hold,    \* hold[a]: none, open, or settled
    spent,   \* spent[a]: provider calls paid for
    charge,  \* charge[a]: what the settlement of the hold debited
    proc,    \* the process: down, its boot phases, or up
    req,     \* req[d]: a request that dispatches an attempt
    cancel,  \* the job a Cancel request has still to stop
    run,     \* the worker's handler
    hook,    \* hook[a]: the settle and terminal hook after the end of job a
    sweep,   \* the lifecycle sweep, at boot and on its timer
    crashes, faults

testVars == <<test, cand, att>>
jobVars  == <<row, ready, stop, hold, spent, charge>>
vars     == <<test, cand, att, row, ready, stop, hold, spent, charge,
              proc, req, cancel, run, hook, sweep, crashes, faults>>

TestStatus    == {"none", "queued", "running", "review", "completed", "partial", "failed", "cancelled"}
AttemptStatus == {"none", "uncertain"} \cup Open \cup Terminal

Test    == [status : TestStatus, rev : Nat, job : Attempts \cup {None}, purged : BOOLEAN]
Attempt == [status : AttemptStatus, epoch : Nat, ids : SUBSET Cands, settled : BOOLEAN, credits : Nat]
Req     == [pc : {"idle", "start", "bind", "reread", "activate", "cleanup"}, att : Attempts \cup {None}]
Run     == [pc : {"idle", "begin", "work", "return"}, att : Attempts \cup {None},
            left : SUBSET Cands, err : BOOLEAN]
Item    == [pc : {"none", "hook", "end", "confirm"}, att : Attempts \cup {None}, missing : BOOLEAN]
Sweep   == [pc : {"idle", "cancel", "closed", "terminal"}, todo : SUBSET Attempts,
            list : SUBSET Attempts, item : Item]

NoAttempt == [status |-> "none", epoch |-> 0, ids |-> {}, settled |-> FALSE, credits |-> 0]
NoReq     == [pc |-> "idle", att |-> None]
NoRun     == [pc |-> "idle", att |-> None, left |-> {}, err |-> FALSE]
NoItem    == [pc |-> "none", att |-> None, missing |-> FALSE]
NoSweep   == [pc |-> "idle", todo |-> {}, list |-> {}, item |-> NoItem]

TypeOK ==
    /\ test   \in Test
    /\ cand   \in [Cands -> {"pending", "good", "failed", "cancelled"}]
    /\ att    \in [Attempts -> Attempt]
    /\ row    \in [Attempts -> {"absent", "queued", "running"} \cup Terminal]
    /\ ready  \in [Attempts -> BOOLEAN] /\ stop \in [Attempts -> BOOLEAN]
    /\ hold   \in [Attempts -> {"none", "open", "settled"}]
    /\ spent  \in [Attempts -> Nat] /\ charge \in [Attempts -> Nat]
    /\ proc   \in {"down", "jobs", "recover", "up"}
    /\ req    \in [Requests -> Req]
    /\ cancel \in Attempts \cup {None}
    /\ run    \in Run
    /\ hook   \in [Attempts -> {"none", "settle", "end", "confirm"}]
    /\ sweep  \in Sweep
    /\ crashes \in Nat /\ faults \in Nat /\ crashes + faults <= MaxMishaps
    \* An admission has candidates, and its epoch is a revision the test has had.
    /\ \A a \in Attempts : /\ att[a].status = "none" <=> att[a].ids = {}
                           /\ att[a].epoch <= test.rev

Init ==
    /\ test   = [status |-> "none", rev |-> 0, job |-> None, purged |-> FALSE]
    /\ cand   = [c \in Cands |-> "pending"]
    /\ att    = [a \in Attempts |-> NoAttempt]
    /\ row    = [a \in Attempts |-> "absent"]
    /\ ready  = [a \in Attempts |-> FALSE]
    /\ stop   = [a \in Attempts |-> FALSE]
    /\ hold   = [a \in Attempts |-> "none"]
    /\ spent  = [a \in Attempts |-> 0]
    /\ charge = [a \in Attempts |-> 0]
    /\ proc   = "up"
    /\ req    = [d \in Requests |-> NoReq]
    /\ cancel = None
    /\ run    = NoRun
    /\ hook   = [a \in Attempts |-> "none"]
    /\ sweep  = NoSweep
    /\ crashes = 0 /\ faults = 0

-----------------------------------------------------------------------------
(* What the rows say. *)

Up          == proc = "up"
Admitted    == {a \in Attempts : att[a].status # "none"}
IsOpen(a)   == att[a].status \in Open
Current(a)  == \A b \in Admitted : att[b].epoch <= att[a].epoch
AllGood(C)  == \A c \in Cands : C[c] = "good"
SomeGood(C) == \E c \in Cands : C[c] = "good"
Fault       == crashes + faults < MaxMishaps /\ faults' = faults + 1
Closed      == test.purged \/ test.status = "cancelled"

\* liveExecution: the fence of every write a handler makes.
Live(a) == /\ ~Closed /\ test.job = a
           /\ att[a].status \in {"queued", "running"}
           /\ Current(a)

\* Open attempts and unfinished candidates are closed with the test.
NotEndedCancelled == [a \in Attempts |-> IF att[a].status \in Terminal THEN att[a]   \* mutant: all but the ended
                                         ELSE [att[a] EXCEPT !.status = "cancelled"]]
OpenCancelled   == [a \in Attempts |-> IF IsOpen(a) THEN [att[a] EXCEPT !.status = "cancelled"] ELSE att[a]]
Unfinished(s)   == [c \in Cands |-> IF cand[c] = "pending" THEN s ELSE cand[c]]
\* How a test stands when an attempt has ended and its candidates are C.
StandsAsAny(C)  == IF SomeGood(C) THEN "review" ELSE "failed"     \* mutant: one good one is enough
StandsAs(C)     == IF AllGood(C) THEN "review" ELSE IF SomeGood(C) THEN "partial" ELSE "failed"

\* Every write of the test counts its revision up.
Write(status, job) == [status |-> status, job |-> job, rev |-> test.rev + 1, purged |-> test.purged]

-----------------------------------------------------------------------------
(* Requests. *)

\* AdmitTest and ReserveTestRetry.  The caller's revision is the current one,
\* or the request is refused and nothing happens.
Admit(a, ids) ==
    /\ att' = [att EXCEPT ![a] = [status |-> "prepared", epoch |-> test'.rev, ids |-> ids,
                                  settled |-> FALSE, credits |-> 0]]
    /\ UNCHANGED <<jobVars, proc, req, cancel, run, hook, sweep, crashes, faults>>

Start ==
    /\ Up /\ test.status = "none"
    /\ test' = Write("queued", test.job)
    /\ UNCHANGED cand
    /\ Admit(1, Cands)

Retry(ids) ==
    /\ Up /\ test.status \in {"partial", "failed"} /\ ~test.purged
    /\ ids # {} /\ \A c \in ids : cand[c] = "failed"
    /\ cand' = [c \in Cands |-> IF c \in ids THEN "pending" ELSE cand[c]]
    /\ test' = Write("queued", None)
    /\ \E a \in Attempts \ Admitted : /\ \A b \in Attempts \ Admitted : a <= b
                                      /\ Admit(a, ids)

\* dispatch, also when the same request is sent again.
Request(d, r) == req' = [req EXCEPT ![d] = r]
AtPc(d, pc)   == Up /\ req[d].pc = pc
Then(d, pc)   == Request(d, IF pc = "idle" THEN NoReq ELSE [req[d] EXCEPT !.pc = pc])

Dispatch(d) ==
    /\ AtPc(d, "idle") /\ test.status = "queued"
    /\ \E a \in Admitted : Current(a) /\ Request(d, [pc |-> "start", att |-> a])
    /\ UNCHANGED <<testVars, jobVars, proc, cancel, run, hook, sweep, crashes, faults>>

\* EnqueueWithID: the job there is, a new one under a hold, or a refusal (the
\* other attempt's job is active; the ledger; a failed insert, which leaves a
\* hold behind).
OtherActive(a) == \E b \in Attempts \ {a} : row[b] \in {"queued", "running"}
Enqueue(d) ==
    LET a == req[d].att IN
    /\ AtPc(d, "start")
    /\ \/ /\ row[a] # "absent"
          /\ Then(d, "bind") /\ UNCHANGED <<row, hold, faults>>
       \/ /\ row[a] = "absent" /\ ~OtherActive(a)
          /\ row'  = [row EXCEPT ![a] = "queued"]
          /\ hold' = [hold EXCEPT ![a] = "open"]
          /\ Then(d, "bind") /\ UNCHANGED faults
       \/ /\ row[a] = "absent"
          /\ Then(d, "idle") /\ UNCHANGED <<row, hold, faults>>
       \/ /\ row[a] = "absent" /\ ~OtherActive(a) /\ Fault
          /\ hold' = [hold EXCEPT ![a] = "open"]
          /\ Then(d, "idle") /\ UNCHANGED row
    /\ UNCHANGED <<testVars, ready, stop, spent, charge, proc, cancel, run, hook, sweep, crashes>>

\* BindTestJob.
AlreadyBound(a) == ~Closed /\ test.job = a /\ att[a].status \in {"queued", "running", "done", "failed"}
CanBind(a)      == /\ ~Closed /\ att[a].status = "prepared"
                   /\ test.status = "queued" /\ test.rev = att[a].epoch
Bind(d) ==
    LET a == req[d].att IN
    /\ AtPc(d, "bind")
    /\ \/ /\ AlreadyBound(a)
          /\ Then(d, "activate") /\ UNCHANGED <<test, att, faults>>
       \/ /\ CanBind(a)
          /\ test' = Write(test.status, a)
          /\ att'  = [att EXCEPT ![a].status = "queued"]
          /\ \/ Then(d, "activate") /\ UNCHANGED faults
             \/ Then(d, "reread") /\ Fault
       \/ /\ ~AlreadyBound(a) /\ ~CanBind(a)
          /\ Then(d, "reread") /\ UNCHANGED <<test, att, faults>>
    /\ UNCHANGED <<cand, jobVars, proc, cancel, run, hook, sweep, crashes>>

\* After a bind that failed or whose answer was lost, the test decides: it is
\* bound to this job; or another owner has it, and the job is stopped; or
\* nothing is known, and the job is left as it is.
Reread(d) ==
    LET a == req[d].att IN
    /\ AtPc(d, "reread")
    /\ \/ /\ Then(d, IF test.job = a /\ ~test.purged /\ test.status \in {"queued", "running"} THEN "activate"
                     ELSE IF Closed \/ (test.job # None /\ test.job # a) THEN "cleanup" ELSE "idle")
          /\ UNCHANGED faults
       \/ Then(d, "idle") /\ Fault
    /\ UNCHANGED <<testVars, jobVars, proc, cancel, run, hook, sweep, crashes>>

Activate(d) ==
    LET a == req[d].att IN
    /\ AtPc(d, "activate")
    /\ ready' = IF row[a] = "queued" THEN [ready EXCEPT ![a] = TRUE] ELSE ready
    /\ Then(d, "idle")
    /\ UNCHANGED <<testVars, row, stop, hold, spent, charge, proc, cancel, run, hook, sweep, crashes, faults>>

\* CancelOwned: waiting work ends here and now, a running handler is told.
CancelJob(a) ==
    /\ stop' = IF row[a] \in {"queued", "running"} THEN [stop EXCEPT ![a] = TRUE] ELSE stop
    /\ row'  = IF row[a] = "queued" THEN [row EXCEPT ![a] = "cancelled"] ELSE row
    /\ hook' = IF row[a] = "queued" THEN [hook EXCEPT ![a] = "settle"] ELSE hook

Cleanup(d) ==
    /\ AtPc(d, "cleanup")
    /\ CancelJob(req[d].att)
    /\ Then(d, "idle")
    /\ UNCHANGED <<testVars, ready, hold, spent, charge, proc, cancel, run, sweep, crashes, faults>>

\* Cancel: the test is closed, then the job it is bound to is stopped.
CancelTest ==
    /\ Up /\ cancel = None /\ test.status \notin {"none", "completed", "cancelled"}
    /\ test' = Write("cancelled", test.job)
    /\ att'  = OpenCancelled
    /\ cand' = Unfinished("cancelled")
    /\ cancel' = test.job
    /\ UNCHANGED <<jobVars, proc, req, run, hook, sweep, crashes, faults>>

CancelBound ==
    /\ Up /\ cancel # None
    /\ CancelJob(cancel)
    /\ cancel' = None
    /\ UNCHANGED <<testVars, ready, hold, spent, charge, proc, req, run, sweep, crashes, faults>>

\* The last match of the bracket is decided.
Decide ==
    /\ Up /\ test.status = "review" /\ ~test.purged
    /\ test' = Write("completed", test.job)
    /\ UNCHANGED <<cand, att, jobVars, proc, req, cancel, run, hook, sweep, crashes, faults>>

-----------------------------------------------------------------------------
(* The worker and its handler (Run). *)

Pick(a) ==
    /\ Up /\ run = NoRun /\ row[a] = "queued" /\ ready[a]
    /\ row' = [row EXCEPT ![a] = "running"]
    /\ run' = [pc |-> "begin", att |-> a, left |-> {}, err |-> FALSE]
    /\ UNCHANGED <<testVars, ready, stop, hold, spent, charge, proc, req, cancel, hook, sweep, crashes, faults>>

BeginTestExecution ==
    LET a == run.att IN
    /\ Up /\ run.pc = "begin"
    /\ Live(a) /\ att[a].status = "queued" /\ test.status = "queued"
    /\ att'  = [att EXCEPT ![a].status = "running"]
    /\ test' = Write("running", test.job)
    /\ run'  = [pc |-> "work", att |-> a, left |-> att[a].ids, err |-> FALSE]
    /\ UNCHANGED <<cand, jobVars, proc, req, cancel, hook, sweep, crashes, faults>>

\* A candidate is written, at a cost, and what came of it is stored if the
\* fence still lets it.
StoreUnfenced(a, c) == c \in att[a].ids /\ cand[c] = "pending"    \* mutant: the fence is not asked
CanStore(a, c)      == /\ Live(a) /\ att[a].status = "running"
                       /\ c \in att[a].ids /\ cand[c] = "pending"
RunCandidate(c, outcome) ==
    LET a == run.att
        stored == CanStore(a, c)
    IN  /\ Up /\ run.pc = "work" /\ c \in run.left
        /\ spent' = [spent EXCEPT ![a] = @ + 1]
        /\ cand'  = IF stored THEN [cand EXCEPT ![c] = outcome] ELSE cand
        /\ run'   = [pc |-> "work", att |-> a, left |-> run.left \ {c},
                     err |-> run.err \/ ~stored \/ outcome = "failed"]
        /\ UNCHANGED <<test, att, row, ready, stop, hold, charge, proc, req, cancel, hook, sweep, crashes, faults>>

FinishTestExecution ==
    LET a == run.att
        C == Unfinished("failed")
    IN  /\ Up /\ run.pc = "work" /\ run.left = {}
        /\ Live(a) /\ att[a].status = "running"
        /\ cand' = C
        /\ att'  = [att EXCEPT ![a].status = IF AllGood(C) THEN "done" ELSE "failed"]
        /\ test' = Write(StandsAs(C), test.job)
        /\ run'  = [run EXCEPT !.pc = "return"]
        /\ UNCHANGED <<jobVars, proc, req, cancel, hook, sweep, crashes, faults>>

\* The handler gives up: it was stopped, the fence refuses it, or the database
\* fails it.
GiveUp ==
    LET a == run.att IN
    /\ Up /\ run.pc \in {"begin", "work"}
    /\ \/ run.pc = "work" /\ stop[a] /\ UNCHANGED faults
       \/ run.pc = "begin" /\ ~(Live(a) /\ att[a].status = "queued" /\ test.status = "queued") /\ UNCHANGED faults
       \/ run.pc = "work" /\ run.left = {} /\ ~(Live(a) /\ att[a].status = "running") /\ UNCHANGED faults
       \/ (run.pc = "begin" \/ run.left = {}) /\ Fault
    /\ run' = [pc |-> "return", att |-> a, left |-> run.left, err |-> TRUE]
    /\ UNCHANGED <<testVars, jobVars, proc, req, cancel, hook, sweep, crashes>>

\* The worker ends the job and runs the terminal hook.
HookIfDone(a) == IF row'[a] = "done" THEN [hook EXCEPT ![a] = "settle"] ELSE hook   \* mutant
HookAfter(a)  == [hook EXCEPT ![a] = "settle"]
EndJob ==
    LET a == run.att IN
    /\ Up /\ run.pc = "return"
    /\ row'  = [row EXCEPT ![a] = IF stop[a] THEN "cancelled" ELSE IF run.err THEN "failed" ELSE "done"]
    /\ hook' = HookAfter(a)
    /\ run'  = NoRun
    /\ UNCHANGED <<testVars, ready, stop, hold, spent, charge, proc, req, cancel, sweep, crashes, faults>>

-----------------------------------------------------------------------------
(* After the end of a job: settle, then the terminal hook (finishTerminal). *)

\* The hold is closed at what was spent.
SettleHold(a) ==
    /\ hold'   = IF hold[a] = "open" THEN [hold EXCEPT ![a] = "settled"] ELSE hold
    /\ charge' = IF hold[a] = "open" THEN [charge EXCEPT ![a] = spent[a]] ELSE charge

\* EndTestExecution: an attempt that is still open is ended; a cancelled job
\* also closes the test of an attempt that had ended, unless the test has
\* moved on.
EndTestExecution(a, outcome) ==
    LET how   == IF outcome = "cancelled" THEN "cancelled" ELSE "failed"
        fence == ~Current(a) \/ Closed \/ test.status = "completed"
        C     == [c \in Cands |-> IF c \in att[a].ids /\ cand[c] = "pending" THEN how ELSE cand[c]]
    IN  \/ /\ ~IsOpen(a) /\ (outcome # "cancelled" \/ fence)
           /\ UNCHANGED testVars
        \/ /\ IsOpen(a) /\ fence
           /\ att' = [att EXCEPT ![a].status = how]
           /\ UNCHANGED <<test, cand>>
        \/ /\ (IsOpen(a) \/ outcome = "cancelled") /\ ~fence
           /\ cand' = C
           /\ test' = Write(IF outcome = "cancelled" THEN "cancelled" ELSE StandsAs(C), a)
           /\ att'  = [att EXCEPT ![a].status =
                         IF outcome # "cancelled" /\ AllGood(C) THEN "done" ELSE how]

\* SettledJobCharge: a hold that is still open has no charge yet.
ChargeAssumed(a) == TRUE                                \* mutant: an unsettled job is taken to have cost nothing
ChargeKnown(a)   == hold[a] = "settled"

\* ConfirmTestSettlement, once and only for an attempt that has ended.
ConfirmTestSettlement(a, credits) ==
    IF att[a].settled \/ IsOpen(a)
      THEN UNCHANGED testVars
      ELSE /\ att'  = [att EXCEPT ![a] = [status |-> @.status, epoch |-> @.epoch, ids |-> @.ids,
                                          settled |-> TRUE, credits |-> credits]]
           /\ test' = Write(test.status, test.job)
           /\ UNCHANGED cand

HookSettle(a) ==
    /\ proc # "down" /\ hook[a] = "settle" /\ hook' = [hook EXCEPT ![a] = "end"]
    /\ SettleHold(a)
    /\ UNCHANGED <<testVars, row, ready, stop, spent, proc, req, cancel, run, sweep, crashes, faults>>

HookEnd(a) ==
    /\ proc # "down" /\ hook[a] = "end" /\ hook' = [hook EXCEPT ![a] = "confirm"]
    /\ EndTestExecution(a, row[a])
    /\ UNCHANGED <<jobVars, proc, req, cancel, run, sweep, crashes, faults>>

HookConfirm(a) ==
    /\ proc # "down" /\ hook[a] = "confirm" /\ hook' = [hook EXCEPT ![a] = "none"]
    /\ IF ChargeKnown(a) THEN ConfirmTestSettlement(a, charge[a]) ELSE UNCHANGED testVars
    /\ UNCHANGED <<jobVars, proc, req, cancel, run, sweep, crashes, faults>>

-----------------------------------------------------------------------------
(* The lifecycle sweep: PurgePost, PurgeExpired on a timer, Recover at boot. *)

\* The attempts the sweep stops jobs of, and those it takes a missing job of
\* for free: at boot, when no start can be under way, all of them.
CancelledUnsettled == {a \in Admitted : att[a].status = "cancelled" /\ ~att[a].settled}
Unsettled          == {a \in Admitted : ~att[a].settled}
ClosedOnly         == sweep.list                          \* mutant: at boot as at any time
MayBeMissing       == IF proc = "recover" THEN Unsettled ELSE sweep.list
SweepTo(pc, todo)  == sweep' = [pc |-> pc, todo |-> todo, item |-> NoItem,
                                list |-> IF pc = "cancel" THEN sweep.list ELSE {}]
SweepFrom(list)    == sweep' = [pc |-> "cancel", todo |-> list, item |-> NoItem, list |-> list]
Look(item)         == sweep' = [sweep EXCEPT !.item = item]
Foremost(a)        == sweep.item = NoItem /\ a \in sweep.todo /\ \A b \in sweep.todo : a <= b

\* purgeTest: the content goes, the test is closed if it was still going on.
Purge ==
    /\ Up /\ sweep.pc = "idle" /\ test.status # "none" /\ ~test.purged
    /\ test' = [Write(IF test.status \in {"queued", "running", "review"} THEN "cancelled" ELSE test.status,
                      test.job) EXCEPT !.purged = TRUE]
    /\ att'  = OpenCancelled
    /\ SweepFrom({a \in Admitted : att'[a].status = "cancelled" /\ ~att[a].settled})
    /\ UNCHANGED <<cand, jobVars, proc, req, cancel, run, hook, crashes, faults>>

SweepStarts ==
    /\ Up /\ sweep.pc = "idle" /\ Unsettled # {}
    /\ SweepFrom(CancelledUnsettled)
    /\ UNCHANGED <<testVars, jobVars, proc, req, cancel, run, hook, crashes, faults>>

\* Jobs of cancelled attempts are stopped, one by one; a stop that ends a
\* waiting job brings its hook with it.
SweepCancel(a) ==
    /\ proc \in {"recover", "up"} /\ sweep.pc = "cancel" /\ Foremost(a)
    /\ CancelJob(a)
    /\ Look([pc |-> "hook", att |-> a, missing |-> FALSE])
    /\ UNCHANGED <<testVars, ready, hold, spent, charge, proc, req, cancel, run, crashes, faults>>

SweepCancelled ==
    /\ sweep.item.pc = "hook" /\ hook[sweep.item.att] = "none"
    /\ SweepTo("cancel", sweep.todo \ {sweep.item.att})
    /\ UNCHANGED <<testVars, jobVars, proc, req, cancel, run, hook, crashes, faults>>

\* Then what was settled is brought to the attempts: of the cancelled ones
\* (at boot, of all), a missing job is taken to have cost nothing; and then,
\* of all, only what an ended job was charged.
SweepReconciles ==
    /\ sweep.pc = "cancel" /\ sweep.todo = {} /\ sweep.item = NoItem
    /\ \/ SweepTo("closed", MayBeMissing)
       \/ Up /\ sweep' = NoSweep                       \* the purge of a post ends here
    /\ UNCHANGED <<testVars, jobVars, proc, req, cancel, run, hook, crashes, faults>>

SweepGoesOn ==
    /\ sweep.pc \in {"closed", "terminal"} /\ sweep.todo = {} /\ sweep.item = NoItem
    /\ IF sweep.pc = "closed" /\ Up THEN SweepTo("terminal", Unsettled) ELSE sweep' = NoSweep
    /\ proc' = "up"
    /\ UNCHANGED <<testVars, jobVars, req, cancel, run, hook, crashes, faults>>

\* recoverFences, one attempt at a time.
SweepLooks(a) ==
    /\ sweep.pc \in {"closed", "terminal"} /\ Foremost(a)
    /\ IF row[a] \in Terminal \/ (row[a] = "absent" /\ sweep.pc = "closed")
         THEN Look([pc |-> "end", att |-> a, missing |-> row[a] = "absent"])
         ELSE SweepTo(sweep.pc, sweep.todo \ {a})
    /\ UNCHANGED <<testVars, jobVars, proc, req, cancel, run, hook, crashes, faults>>

SweepEnds ==
    LET a == sweep.item.att IN
    /\ sweep.item.pc = "end"
    /\ EndTestExecution(a, IF sweep.item.missing THEN "failed" ELSE row[a])
    /\ Look([sweep.item EXCEPT !.pc = "confirm"])
    /\ UNCHANGED <<jobVars, proc, req, cancel, run, hook, crashes, faults>>

SweepConfirms ==
    LET a == sweep.item.att IN
    /\ sweep.item.pc = "confirm"
    /\ IF sweep.item.missing THEN ConfirmTestSettlement(a, 0)
       ELSE IF ChargeKnown(a) THEN ConfirmTestSettlement(a, charge[a]) ELSE UNCHANGED testVars
    /\ SweepTo(sweep.pc, sweep.todo \ {a})
    /\ UNCHANGED <<jobVars, proc, req, cancel, run, hook, crashes, faults>>

-----------------------------------------------------------------------------
(* Restarts. *)

Crash ==
    /\ proc # "down" /\ crashes + faults < MaxMishaps /\ crashes' = crashes + 1
    /\ proc' = "down" /\ req' = [d \in Requests |-> NoReq] /\ cancel' = None /\ run' = NoRun
    /\ hook' = [a \in Attempts |-> "none"] /\ sweep' = NoSweep
    /\ UNCHANGED <<testVars, jobVars, faults>>

Boot ==
    /\ proc = "down" /\ proc' = "jobs"
    /\ UNCHANGED <<testVars, jobVars, req, cancel, run, hook, sweep, crashes, faults>>

\* The queue's boot sweeps: interrupted and unactivated work ends, holds of
\* ended jobs are settled and holds without a job returned.
BootJobs ==
    /\ proc = "jobs" /\ proc' = "recover"
    /\ row' = [a \in Attempts |-> IF row[a] = "running" THEN IF stop[a] THEN "cancelled" ELSE "failed"
                                  ELSE IF row[a] = "queued" /\ ~ready[a] THEN "failed" ELSE row[a]]
    /\ hold' = [a \in Attempts |-> IF hold[a] # "open" THEN hold[a]
                                   ELSE IF row'[a] \in Terminal THEN "settled"
                                   ELSE IF row'[a] = "absent" THEN "none" ELSE "open"]
    /\ charge' = [a \in Attempts |-> IF hold[a] = "open" /\ row'[a] \in Terminal THEN spent[a] ELSE charge[a]]
    /\ UNCHANGED <<testVars, ready, stop, spent, req, cancel, run, hook, sweep, crashes, faults>>

\* RecoverInterruptedTests: no attempt stays open over a restart.
RecoverInterruptedTests ==
    LET C == Unfinished("failed")
        open == {a \in Attempts : IsOpen(a)}
    IN  /\ proc = "recover" /\ sweep.pc = "idle"
        /\ IF open = {} \/ Closed
             THEN att' = OpenCancelled /\ UNCHANGED <<test, cand>>
             ELSE /\ cand' = C
                  /\ test' = Write(StandsAs(C), test.job)
                  /\ att'  = [a \in Attempts |-> IF a \in open
                                THEN [att[a] EXCEPT !.status = IF AllGood(C) THEN "done" ELSE "uncertain"]
                                ELSE att[a]]
        /\ SweepFrom({a \in Admitted : att'[a].status = "cancelled" /\ ~att[a].settled})
        /\ UNCHANGED <<jobVars, proc, req, cancel, run, hook, crashes, faults>>

-----------------------------------------------------------------------------
Process(d)  == Dispatch(d) \/ Enqueue(d) \/ Bind(d) \/ Reread(d) \/ Activate(d) \/ Cleanup(d)
Worker      == \/ BeginTestExecution \/ FinishTestExecution \/ GiveUp \/ EndJob
               \/ \E a \in Attempts : Pick(a)
               \/ \E c \in Cands, outcome \in {"good", "failed"} : RunCandidate(c, outcome)
Hook(a)     == HookSettle(a) \/ HookEnd(a) \/ HookConfirm(a)
Sweeper     == \/ SweepStarts \/ SweepCancelled \/ SweepReconciles \/ SweepGoesOn \/ SweepEnds \/ SweepConfirms
               \/ \E a \in Attempts : SweepCancel(a) \/ SweepLooks(a)
Booting     == Boot \/ BootJobs \/ RecoverInterruptedTests

Next ==
    \/ Start \/ (\E ids \in SUBSET Cands : Retry(ids))
    \/ \E d \in Requests : Process(d)
    \/ CancelTest \/ CancelBound \/ Decide \/ Purge
    \/ Worker \/ Sweeper \/ Booting \/ Crash
    \/ \E a \in Attempts : Hook(a)

Spec == Init /\ [][Next]_vars

-----------------------------------------------------------------------------
(* Properties. *)

\* What an attempt reports as its cost is what its job was paid for, and stays
\* so: no settlement is confirmed before the charge is known, and no job that
\* was taken for missing, ended or stale pays for anything afterwards.
SettledIsFinal == \A a \in Attempts : att[a].settled => att[a].credits = spent[a]

\* A bracket is opened, and decided, over finished candidates only.
ReviewIsComplete == test.status \in {"review", "completed"} => AllGood(cand)

\* A test that is going on and bound to a job has a job that is still active,
\* or an end of it that is on its way to the test: no stop, restart, late bind
\* or stale request leaves a running test that nobody runs.
NoOrphanRun ==
    (Up /\ test.status \in {"queued", "running"} /\ test.job # None) =>
      row[test.job] \in {"queued", "running"} \/ hook[test.job] # "none"

\* Nothing is written into a test that was cancelled or purged, by a handler,
\* a hook or a recovery that started before.
ClosedStaysClosed ==
    [][Closed => (test.purged \/ test'.status = "cancelled") /\ test'.status \notin {"queued", "running", "review"}
                 /\ cand' = cand]_vars

\* After a boot no attempt is open, and every attempt has its cost confirmed
\* unless its job is still in the queue.
BootSettles ==
    [][~Up /\ proc' = "up" => \A a \in Admitted : /\ att'[a].status \notin Open
                                                  /\ att'[a].settled \/ row'[a] = "queued"]_vars

\* An attempt's execution epoch is its admission's, and other writes of the
\* test do not disturb it: the job of the current attempt is bound to it.
BindAdmitted ==
    \A d \in Requests : AtPc(d, "bind") =>
      LET a == req[d].att IN
      (Current(a) /\ att[a].status = "prepared" /\ test.status = "queued" /\ ~Closed) => CanBind(a)
=============================================================================
