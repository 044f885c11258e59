----------------------------- MODULE MediaLease -----------------------------
(***************************************************************************)
(* Media stages executed under leases (clip/store/media_stages.go,         *)
(* clip/app/media_control.go, media_artifacts.go, media_recovery.go and    *)
(* clip/worker/loop.go): workers claim a stage, renew the lease while they *)
(* execute it, and report a result or a failure; a reconciler requeues,    *)
(* fails and cancels stages, and tells the jobs that wait for them.        *)
(*                                                                         *)
(* Every server operation is one transaction, and so one step.  A claim or *)
(* a renewal is sent, served and answered in steps of its own, any of      *)
(* which may fail to come; a completion or a report is served and answered *)
(* in one, or served and not answered.  What a claim, a renewal and a      *)
(* failure report take for now was read before their transaction;          *)
(* acceptance and reconciliation read the clock inside it.  A worker       *)
(* measures its lease from when it sent the call.                          *)
(***************************************************************************)
EXTENDS Integers, Sequences, FiniteSetsExt

CONSTANTS
    Stages,     \* numbered in order of creation
    Renders,    \* those that count against the render capacity
    Workers,
    Active,     \* RenderCapacity.Active
    Limit,      \* Limit[s]: attempts of a stage
    Stoppable,  \* bound: stages whose job may be stopped or superseded
    TTL, Wait, Deadline, Retry,  \* lease, queue wait, stage deadline, retry delay
    MaxTime, MaxMishaps          \* bounds: clock; lost calls, lost workers, restarts, superseded work

ASSUME StagesAssumption == Stages \subseteq Nat /\ IsFiniteSet(Stages) /\ Renders \subseteq Stages
ASSUME LimitsAssumption ==
    /\ Active \in Nat \ {0} /\ Limit \in [Stages -> Nat \ {0}] /\ TTL \in Nat \ {0} /\ Wait \in Nat
    /\ Deadline \in Nat /\ Retry \in Nat /\ MaxTime \in Nat /\ MaxMishaps \in Nat

VARIABLES
    now,     \* one clock: only differences of it are ever compared across machines
    stage,   \* stage[s]: the row; its current attempt is the last of att[s]
    att,     \* att[s]: the attempts: lease end, and outcome or "none"
    parent,  \* parent[s]: the job that waits for it
    rec,     \* what the reconciler does after its transaction
    wk,      \* wk[w]: what worker w is at
    beat,    \* beat[w]: its renewal, beside it
    mishaps

rows == <<stage, att, parent, rec>>
vars == <<now, rows, wk, beat, mishaps>>

Times    == 0..MaxTime
Most     == Max({0} \cup {Limit[s] : s \in Stages})
States   == {"queued", "running", "succeeded", "failed", "cancelled"}
Outcomes == {"none", "succeeded", "failed", "expired", "cancelled"}
\* What a worker is at: a claim under way or granted, an execution, a completion
\* between its two transactions (orphan when the worker is gone), a report.
Works    == [pc : {"idle", "claiming", "granted", "executing", "completing", "checked", "orphan",
                   "failing"},
             s : Stages \cup {0}, n : 0..Most, sent : Times, until : 0..Deadline,
             code : {"none", "lost", "final", "cancelled"}]
NoWork   == [pc |-> "idle", s |-> 0, n |-> 0, sent |-> 0, until |-> 0, code |-> "none"]
\* A renewal under way, or granted and not yet received.
Beats    == [pc : {"none", "sent", "granted"}, s : Stages \cup {0}, n : 0..Most, sent : Times, until : 0..Deadline]
NoBeat   == [pc |-> "none", s |-> 0, n |-> 0, sent |-> 0, until |-> 0]
NoPost   == [do |-> "nothing", s |-> 0]

Attempts(s) == Len(att[s])
\* MediaRecovery.Stopped: no attempt of the stage can still be accepted.
Stopped(s, t) == \/ att[s] = <<>>
                 \/ att[s][Attempts(s)].outcome # "none" \/ att[s][Attempts(s)].end <= t

TypeOK ==
    /\ now \in Times /\ mishaps \in 0..MaxMishaps
    /\ stage \in [Stages -> [state : States, retry : 0..(MaxTime + Retry), result : 0..Most, closed : BOOLEAN]]
    /\ \A s \in Stages : /\ Attempts(s) \in 0..Limit[s]
                         /\ \A n \in 1..Attempts(s) : att[s][n] \in [end : 0..Deadline, outcome : Outcomes]
    /\ parent \in [Stages -> [at : {"queued", "waiting", "ready", "ended"}, stop : BOOLEAN, void : BOOLEAN]]
    /\ rec \in [do : {"nothing", "acknowledge", "failqueued"}, s : Stages \cup {0}]
    /\ wk \in [Workers -> Works]
    /\ beat \in [Workers -> Beats]

Init ==
    /\ now = 0 /\ mishaps = 0
    /\ stage = [s \in Stages |-> [state |-> "queued", retry |-> 0, result |-> 0, closed |-> FALSE]]
    /\ att = [s \in Stages |-> <<>>]
    /\ parent = [s \in Stages |-> [at |-> "queued", stop |-> FALSE, void |-> FALSE]]
    /\ rec = NoPost
    /\ wk = [w \in Workers |-> NoWork]
    /\ beat = [w \in Workers |-> NoBeat]

Mishap == mishaps < MaxMishaps /\ mishaps' = mishaps + 1

-----------------------------------------------------------------------------
(* The jobs.  What a job does once it is told is the queue's (JobQueue). *)

\* Dispatched and parked on its stage.  The admission of the stage went before.
Dispatch(s) ==
    /\ parent[s].at = "queued"
    /\ parent' = [parent EXCEPT ![s].at = "waiting"]
    /\ UNCHANGED <<now, stage, att, rec, wk, beat, mishaps>>

\* Its owner stops it: at once while it is queued.
StopJob(s) ==
    /\ s \in Stoppable /\ parent[s].at # "ended" /\ ~parent[s].stop
    /\ parent' = IF parent[s].at = "queued" THEN [parent EXCEPT ![s].at = "ended"]
                 ELSE [parent EXCEPT ![s].stop = TRUE]
    /\ UNCHANGED <<now, stage, att, rec, wk, beat, mishaps>>

\* The edit plan the stage was admitted for is replaced or finalised.
Supersede(s) ==
    /\ s \in Stoppable /\ parent[s].at # "ended" /\ ~parent[s].void /\ Mishap
    /\ parent' = [parent EXCEPT ![s].void = TRUE]
    /\ UNCHANGED <<now, stage, att, rec, wk, beat>>

-----------------------------------------------------------------------------
(* The lease operations of the store. *)

\* authorizeMediaParent
ParentAnswer(s) ==
    IF parent[s].stop THEN "cancelled"
    ELSE IF parent[s].at \notin {"waiting", "ready"} THEN "lost"
    ELSE IF parent[s].void THEN "cancelled" ELSE "ok"

\* What is left of a lease when the server answers, from when the call was sent.
Remaining(sent, end) == Max({sent + end - now, 0})

FullLease(t) == t + TTL                \* mutant: a lease may outlive the stage's deadline
LeaseEnd(t)  == Min({t + TTL, Deadline})
Lapsed(s, t) == att[s] # <<>> /\ att[s][Attempts(s)].end <= t

\* The attempt holds the lease: it is the current one, unfinished, unexpired.
Live(s, n, t) ==
    /\ n = Attempts(s) /\ stage[s].state = "running"
    /\ att[s][n].outcome = "none" /\ att[s][n].end > t /\ Deadline > t

\* Render leases that are occupied.
Occupied(t) == {s \in Renders : att[s] # <<>> /\ ~Stopped(s, t)}

\* A stage is offered while it is queued, or running with a lapsed lease.
AnyQueued(t) ==
    {s \in Stages :
       /\ Deadline > t /\ Attempts(s) < Limit[s] /\ stage[s].retry <= t
       /\ att[s] # <<>> \/ Wait > t
       /\ stage[s].state = "queued" \/ (stage[s].state = "running" /\ Lapsed(s, t))}
Claimable(t) == {s \in AnyQueued(t) : s \in Renders => Cardinality(Occupied(t)) < Active}
Oldest(t)    == {s \in Claimable(t) : \A k \in Claimable(t) : s <= k}

-----------------------------------------------------------------------------
(* Claims.  A worker counts its lease from when it sent the call; the server   *)
(* takes for now a time it read after that and before the transaction.         *)

At(w, pc) == wk[w].pc = pc
Free(w)   == wk' = [wk EXCEPT ![w] = NoWork]

Claim(w) ==
    /\ At(w, "idle")
    /\ wk' = [wk EXCEPT ![w].pc = "claiming", ![w].sent = now]
    /\ UNCHANGED <<now, rows, beat, mishaps>>

\* The oldest claimable stage is taken, and its lapsed attempts expire.
ClaimMediaStage(w, t) ==
    \E s \in Oldest(t) :
    LET old == [n \in 1..Attempts(s) |->
                  IF att[s][n].outcome = "none" /\ att[s][n].end <= t
                    THEN [att[s][n] EXCEPT !.outcome = "expired"] ELSE att[s][n]]
    IN  /\ At(w, "claiming")
        /\ ParentAnswer(s) = "ok"
        /\ stage' = [stage EXCEPT ![s].state = "running"]
        /\ att'   = [att EXCEPT ![s] = Append(old, [end |-> LeaseEnd(t), outcome |-> "none"])]
        /\ wk'    = [wk EXCEPT ![w].pc = "granted", ![w].s = s, ![w].n = Attempts(s) + 1,
                               ![w].until = Remaining(wk[w].sent, LeaseEnd(t))]
        /\ UNCHANGED <<now, parent, rec, beat, mishaps>>

\* Nothing to claim; or the job of the oldest refuses, and the claim rolls
\* back whatever waits behind it.
NothingClaimed(w, t) ==
    /\ At(w, "claiming")
    /\ \A s \in Oldest(t) : ParentAnswer(s) # "ok"
    /\ Free(w)
    /\ UNCHANGED <<now, rows, beat, mishaps>>

\* A lease that is over when the answer arrives is not begun.
FromReceipt(c) == now + c.until - c.sent               \* mutant: counted from when the answer came
Until(c)       == c.until
TakeWork(w) ==
    /\ At(w, "granted")
    /\ wk' = [wk EXCEPT ![w] = IF Until(@) > now
                THEN [NoWork EXCEPT !.pc = "executing", !.s = wk[w].s, !.n = wk[w].n, !.until = Until(wk[w])]
                ELSE NoWork]
    /\ UNCHANGED <<now, rows, beat, mishaps>>

-----------------------------------------------------------------------------
(* The heartbeat and the watchdog, beside an execution and its completion. *)

Runs(w)     == wk[w].pc \in {"executing", "completing", "checked"}
Failing(w, code) == wk' = [wk EXCEPT ![w].pc = "failing", ![w].sent = now, ![w].until = 0, ![w].code = code]
\* The execution is stopped and not reported; a completion in its second
\* transaction may still go through.
Stop(w)     == IF At(w, "checked") THEN wk' = [wk EXCEPT ![w].pc = "orphan", ![w].until = 0] ELSE Free(w)
Own(w)      == Runs(w) /\ beat[w].s = wk[w].s /\ beat[w].n = wk[w].n
Unbeat(w)   == beat' = [beat EXCEPT ![w] = NoBeat]

Beat(w) ==
    /\ Runs(w) /\ beat[w] = NoBeat
    /\ beat' = [beat EXCEPT ![w] = [NoBeat EXCEPT !.pc = "sent", !.s = wk[w].s, !.n = wk[w].n, !.sent = now]]
    /\ UNCHANGED <<now, rows, wk, mishaps>>

\* AuthorizeMediaLease and the job's answer, for the credential of attempt n.
Authorized(s, n, t) ==
    IF n # Attempts(s) THEN "lost"
    ELSE IF stage[s].state = "cancelled" THEN "cancelled"
    ELSE IF ~Live(s, n, t) THEN "lost"
    ELSE ParentAnswer(s)

RenewMediaLease(w, t) ==
    LET s == beat[w].s  n == beat[w].n IN
    /\ beat[w].pc = "sent"
    /\ Authorized(s, n, t) = "ok"
    /\ att'  = [att EXCEPT ![s][n].end = LeaseEnd(t)]
    /\ beat' = [beat EXCEPT ![w].pc = "granted", ![w].until = Remaining(beat[w].sent, LeaseEnd(t))]
    /\ UNCHANGED <<now, stage, parent, rec, wk, mishaps>>

\* A refused renewal ends the execution.
RenewalRefused(w, t) ==
    LET answer == Authorized(beat[w].s, beat[w].n, t) IN
    /\ beat[w].pc = "sent" /\ answer # "ok"
    /\ IF ~Own(w) THEN UNCHANGED wk
       ELSE IF answer = "cancelled" THEN Failing(w, "cancelled") ELSE Stop(w)
    /\ Unbeat(w)
    /\ UNCHANGED <<now, rows, mishaps>>

Renewed(w) ==
    /\ beat[w].pc = "granted" /\ Own(w)
    /\ IF Until(beat[w]) > now THEN wk' = [wk EXCEPT ![w].until = Until(beat[w])] ELSE Stop(w)
    /\ Unbeat(w)
    /\ UNCHANGED <<now, rows, mishaps>>

\* It fires a margin before the lease it knows of ends; the margin is less than
\* a step of the clock.
Due(w)      == Runs(w) /\ wk[w].until <= now + 1
Watchdog(w) ==
    /\ Due(w)
    /\ Stop(w)
    /\ UNCHANGED <<now, rows, beat, mishaps>>

-----------------------------------------------------------------------------
(* Completions and failures.  An answer that is lost is lost after its effect. *)

\* What was published already is answered again; the first transaction
\* authorises and validates, the objects are looked up outside of any, the
\* second authorises again, publishes, and wakes the job.
AcceptAnswer(s, n) ==
    IF n = Attempts(s) /\ stage[s].state = "succeeded" THEN "published" ELSE Authorized(s, n, now)

\* How the worker takes an answer: what the server will never take is an
\* output failure, a lost lease is not reported.
Takes(w, answer) ==
    CASE answer \in {"published", "lost"} -> Free(w)
      [] answer = "cancelled"             -> Failing(w, "cancelled")
      [] answer = "rejected"              -> Failing(w, "final")
\* An unanswered completion is tried again or the stage given back.
Unanswered(w) == wk' = [wk EXCEPT ![w].pc = "completing"] \/ Failing(w, "lost")

Check(w, valid) ==
    LET answer == AcceptAnswer(wk[w].s, wk[w].n) IN
    /\ At(w, "executing") \/ At(w, "completing")
    /\ \/ /\ IF answer = "ok" /\ valid THEN wk' = [wk EXCEPT ![w].pc = "checked"]
             ELSE Takes(w, IF answer = "ok" THEN "rejected" ELSE answer)
          /\ UNCHANGED mishaps
       \/ Unanswered(w) /\ Mishap
    /\ UNCHANGED <<now, rows, beat>>

Wakes(s) == parent[s].at = "waiting" /\ ~parent[s].stop
Woken(s) == IF Wakes(s) THEN [parent EXCEPT ![s].at = "ready"] ELSE parent

TrustedAnswer(s, n) == "ok"                        \* mutant: what the first transaction saw
SecondAnswer(s, n)  == AcceptAnswer(s, n)
Accept(w) ==
    LET s == wk[w].s  n == wk[w].n  answer == SecondAnswer(s, n) IN
    /\ wk[w].pc \in {"checked", "orphan"}
    /\ IF answer = "ok"
         THEN /\ stage'  = [stage EXCEPT ![s].state = "succeeded", ![s].result = n]
              /\ att'    = [att EXCEPT ![s][n].outcome = "succeeded"]
              /\ parent' = Woken(s)
         ELSE UNCHANGED <<stage, att, parent>>
    /\ \/ /\ IF At(w, "orphan") THEN Free(w) ELSE Takes(w, IF answer = "ok" THEN "published" ELSE answer)
          /\ UNCHANGED mishaps
       \/ At(w, "checked") /\ Unanswered(w) /\ Mishap
    /\ UNCHANGED <<now, rec, beat>>

\* The look-up fails, or the second transaction never comes.
AcceptLost(w) ==
    /\ \/ At(w, "checked") /\ Unanswered(w) /\ Mishap
       \/ At(w, "orphan") /\ Free(w) /\ UNCHANGED mishaps
    /\ UNCHANGED <<now, rows, beat>>

ExecutionFailed(w, code) ==
    /\ At(w, "executing")
    /\ Failing(w, code)
    /\ UNCHANGED <<now, rows, beat, mishaps>>

\* SetMediaRecoveryState and StopMediaAttempt: a success stands, and so does
\* the outcome of an attempt.
Set(s, state, retry) == IF stage[s].state = "succeeded" THEN stage
                        ELSE [stage EXCEPT ![s].state = state, ![s].retry = retry]
Ended(s, outcome)    == IF att[s] # <<>> /\ att[s][Attempts(s)].outcome = "none"
                          THEN [att EXCEPT ![s][Attempts(s)].outcome = outcome] ELSE att

\* A failure is taken from the live attempt, a stop from the current one of a
\* job that is to stop.  A stage that is given back is left to another worker,
\* after a while, as long as attempts are left.
FailMediaStage(w, t) ==
    LET s == wk[w].s  n == wk[w].n IN
    /\ At(w, "failing")
    /\ IF wk[w].code = "cancelled"
         THEN IF parent[s].stop /\ n = Attempts(s)
                THEN stage' = Set(s, "cancelled", 0) /\ att' = Ended(s, "cancelled")
                ELSE UNCHANGED <<stage, att>>
         ELSE IF Live(s, n, t)
                THEN /\ stage' = IF wk[w].code = "lost" /\ n < Limit[s] THEN Set(s, "queued", t + Retry)
                                 ELSE Set(s, "failed", 0)
                     /\ att' = Ended(s, "failed")
                ELSE UNCHANGED <<stage, att>>
    /\ \/ Free(w) /\ UNCHANGED mishaps
       \/ UNCHANGED wk /\ Mishap
    /\ UNCHANGED <<now, parent, rec, beat>>

\* The worker process dies, with its execution.
Die(w) ==
    /\ Runs(w) /\ Mishap
    /\ Stop(w)
    /\ UNCHANGED <<now, rows, beat>>

\* A call that has no answer in time is given up: a claim, a report, a renewal
\* whose next heartbeat tries again.
GiveUp(w) ==
    /\ \/ /\ wk[w].pc \in {"claiming", "granted", "failing"}
          /\ Free(w) /\ UNCHANGED beat
       \/ /\ beat[w] # NoBeat
          /\ Unbeat(w) /\ UNCHANGED wk
    /\ UNCHANGED <<now, rows, mishaps>>

-----------------------------------------------------------------------------
(* The reconciler, one stage at a time. *)

\* A stage whose job has ended or is to stop.
Abandon(s) ==
    /\ parent[s].at = "ended" \/ (parent[s].stop /\ parent[s].at # "queued")
    /\ LET over == Stopped(s, now) IN
       /\ att' = IF over THEN Ended(s, "cancelled") ELSE att
       /\ stage' = IF over /\ parent[s].at = "ended"
                     THEN [Set(s, "cancelled", 0) EXCEPT ![s].closed = TRUE] ELSE Set(s, "cancelled", 0)
       /\ rec' = IF over /\ parent[s].at # "ended" THEN [do |-> "acknowledge", s |-> s] ELSE NoPost
    /\ UNCHANGED parent

\* A job not yet dispatched keeps its stage until the wait is over.
Await(s) ==
    /\ parent[s].at = "queued" /\ Wait <= now
    /\ stage' = Set(s, "failed", 0)
    /\ rec' = [do |-> "failqueued", s |-> s]
    /\ UNCHANGED <<att, parent>>

Exhausted(s) ==                 \* mutant: the deadline fails no stage that is queued again
    \/ att[s] = <<>> /\ Wait <= now
    \/ stage[s].state = "running" /\ Stopped(s, now) /\ Attempts(s) >= Limit[s]
Hopeless(s)  == parent[s].void \/ Deadline <= now \/ Exhausted(s)

WakesNow(s)  == Stopped(s, now)

Repair(s) ==
    LET state == IF stage[s].state \in {"succeeded", "failed", "cancelled"} THEN stage[s].state
                 ELSE IF Hopeless(s) THEN "failed"
                 ELSE IF stage[s].state = "running" /\ Stopped(s, now) THEN "queued" ELSE stage[s].state
    IN  /\ parent[s].at \in {"waiting", "ready"} /\ ~parent[s].stop
        /\ stage' = IF state # stage[s].state THEN Set(s, state, 0) ELSE stage
        /\ att' = IF stage[s].state # "succeeded" /\ Stopped(s, now) THEN Ended(s, "expired") ELSE att
        /\ parent' = IF state = "succeeded" \/ (state \in {"failed", "cancelled"} /\ WakesNow(s))
                       THEN Woken(s) ELSE parent
        /\ UNCHANGED rec

Reconcile(s) ==
    /\ rec = NoPost /\ ~stage[s].closed
    /\ Abandon(s) \/ Await(s) \/ Repair(s)
    /\ UNCHANGED <<now, wk, beat, mishaps>>

\* AcknowledgeWaitCancellation and FailQueued, in transactions of their own.
Post ==
    LET s == rec.s IN
    /\ rec # NoPost
    /\ rec' = NoPost
    /\ parent' = IF \/ rec.do = "acknowledge" /\ parent[s].at \in {"waiting", "ready"} /\ parent[s].stop
                    \/ rec.do = "failqueued" /\ parent[s].at = "queued"
                   THEN [parent EXCEPT ![s].at = "ended"] ELSE parent
    /\ UNCHANGED <<now, stage, att, wk, beat, mishaps>>

-----------------------------------------------------------------------------
\* A call ends, one way or another, before the second step of the clock after
\* it was sent: MediaUnaryTimeout is a sixth of a lease.
Overdue(w) == \/ wk[w].pc \in {"claiming", "granted", "failing"} /\ wk[w].sent < now
              \/ beat[w] # NoBeat /\ beat[w].sent < now

Tick ==
    /\ now < MaxTime /\ \A w \in Workers : ~Due(w) /\ ~Overdue(w)
    /\ now' = now + 1
    /\ UNCHANGED <<rows, wk, beat, mishaps>>

\* The server restarts before the reconciler's follow-up.
Restart ==
    /\ rec # NoPost /\ Mishap
    /\ rec' = NoPost
    /\ UNCHANGED <<now, stage, att, parent, wk, beat>>

Next ==
    \/ \E s \in Stages : Dispatch(s) \/ StopJob(s) \/ Supersede(s) \/ Reconcile(s)
    \/ Post \/ Restart \/ Tick
    \/ \E w \in Workers :
         \/ Claim(w) \/ TakeWork(w) \/ Beat(w) \/ Renewed(w) \/ Watchdog(w)
         \/ Accept(w) \/ AcceptLost(w) \/ Die(w) \/ GiveUp(w)
         \/ \E t \in wk[w].sent..now : ClaimMediaStage(w, t) \/ NothingClaimed(w, t) \/ FailMediaStage(w, t)
         \/ \E t \in beat[w].sent..now : RenewMediaLease(w, t) \/ RenewalRefused(w, t)
         \/ \E valid \in BOOLEAN : Check(w, valid)
         \/ \E code \in {"lost", "final"} : ExecutionFailed(w, code)

Spec == Init /\ [][Next]_vars

-----------------------------------------------------------------------------
(* Properties. *)

\* A worker executes only while the attempt it executes is the stage's current
\* one with its lease unexpired: clock readings before a transaction, answers
\* that arrive late or never and renewals that cross a loss never let it run on
\* into another's attempt.
ExecutorHoldsLease ==
    \A w \in Workers : At(w, "executing") =>
        wk[w].n = Attempts(wk[w].s) /\ att[wk[w].s][wk[w].n].end > now

\* One executor at a time, no more renders than the capacity, one result, and
\* the job told only when no execution is left.
Handoff == INSTANCE MediaHandoff WITH
    Executions <- Nat \ {0},
    busy   <- [s \in Stages |-> {w \in Workers : At(w, "executing") /\ wk[w].s = s}],
    result <- [s \in Stages |-> stage[s].result],
    told   <- [s \in Stages |-> parent[s].at \in {"ready", "ended"}]
ImplementsHandoff == Handoff!Spec

\* Past the stage's deadline a single reconciliation ends the wait of its job:
\* whatever became of its workers, leases and retries by then, the job is woken
\* or its stop is acknowledged, and no waiting job's stage is out of the
\* reconciler's sight.
DeadlineTells == [][
    \A s \in Stages : parent[s].at = "waiting" =>
        /\ ~stage[s].closed
        /\ Deadline <= now /\ Reconcile(s) =>
              parent'[s].at = "ready" \/ rec' = [do |-> "acknowledge", s |-> s]]_vars
=============================================================================
