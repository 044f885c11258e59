--------------------------- MODULE EnqueueIdentity ---------------------------
(***************************************************************************)
(* Starts under a stable identity (job/enqueue_identity.go): a caller that *)
(* repeats a start after a lost answer, a restart or a completion is given *)
(* the job its first attempt made, and an identity the hold sweep gave up  *)
(* never becomes a job again.                                              *)
(*                                                                         *)
(* Receipts, rows and holds are in the database; calls and sweeps are in a *)
(* process and die with it.  Several processes may share the database.  A  *)
(* process admits one such call at a time (enqueueMu).  recoverEnqueue     *)
(* reads the receipt and then the row; a receipt only moves forward and a  *)
(* row never disappears, so what the two reads find is what one read at    *)
(* one of the two instants would, and they are one step here.              *)
(***************************************************************************)
EXTENDS Naturals, FiniteSets

CONSTANTS
    Ids,        \* job ids chosen by the callers, one per start
    Procs,      \* processes of the application
    NoId,
    MaxCrashes, \* bound: processes that die
    MaxFaults   \* bound: database calls that fail, or commit and lose their answer

ASSUME IdsAssumption   == NoId \notin Ids
ASSUME FaultsAssumption == MaxCrashes \in Nat /\ MaxFaults \in Nat

Terminal == {"done", "failed", "cancelled"}
Status   == {"absent", "queued", "running"} \cup Terminal
Receipt  == {"none", "claimed", "committed", "abandoned"}

\* A call of EnqueueWithID between two transactions, and its answer until the
\* caller takes it.
CallPc == {"idle", "recover", "claim", "recheck", "guard", "hold", "insert", "reread", "giveback",
           "found", "conflict", "busy", "failed"}
Call   == [pc : CallPc, id : Ids \cup {NoId}]
NoCall == [pc |-> "idle", id |-> NoId]
Answers == {"found", "conflict", "busy", "failed"}

\* A hold sweep: the holds it has listed, and the one it is about to abandon
\* (with the receipt it read) or to release.
Sweep   == [todo : SUBSET Ids, pc : {"look", "abandon", "release"}, id : Ids \cup {NoId}, saw : Receipt]
NoSweep == [todo |-> {}, pc |-> "look", id |-> NoId, saw |-> "none"]
Phases  == {"down", "running", "holds", "unactivated", "holds2", "up"}

VARIABLES
    receipt,  \* job_enqueue_receipts.state
    row,      \* the job row's status
    ready,    \* dispatch_ready: its caller has activated it
    hold,     \* the admission in the ledger, or the outcome it was settled with
    call,     \* call[p]: the EnqueueWithID call process p is in
    proc,     \* proc[p]: where process p is in its boot
    sweep,    \* sweep[p]: its hold sweep
    crashes, faults

idVars == <<receipt, row, ready, hold, call, proc, sweep, crashes, faults>>

IdTypeOK ==
    /\ receipt \in [Ids -> Receipt]
    /\ row     \in [Ids -> Status]
    /\ ready   \in [Ids -> BOOLEAN]
    /\ hold    \in [Ids -> {"none", "open"} \cup Terminal]
    /\ call    \in [Procs -> Call]
    /\ proc    \in [Procs -> Phases]
    /\ sweep   \in [Procs -> Sweep]
    /\ crashes \in 0..MaxCrashes
    /\ faults  \in 0..MaxFaults
    \* The receipt says that there is a row exactly when there is one.
    /\ \A i \in Ids : receipt[i] = "committed" <=> row[i] # "absent"

IdInit ==
    /\ receipt = [i \in Ids |-> "none"]
    /\ row     = [i \in Ids |-> "absent"]
    /\ ready   = [i \in Ids |-> FALSE]
    /\ hold    = [i \in Ids |-> "none"]
    /\ call    = [p \in Procs |-> NoCall]
    /\ proc    = [p \in Procs |-> "down"]
    /\ sweep   = [p \in Procs |-> NoSweep]
    /\ crashes = 0
    /\ faults  = 0

Active(i) == row[i] \in {"queued", "running"}
Up(p)     == proc[p] = "up"
At(p, pc) == Up(p) /\ call[p].pc = pc
Goto(p, pc) == call' = [call EXCEPT ![p].pc = pc]
Fault     == faults < MaxFaults /\ faults' = faults + 1

\* The ledger's two ways to close a hold.
Settled(i, s) == IF hold[i] = "open" THEN [hold EXCEPT ![i] = s] ELSE hold
Released(i)   == IF hold[i] = "open" THEN [hold EXCEPT ![i] = "none"] ELSE hold
\* A failure of either is logged, and whoever asked for it goes on.
Tries(h)      == \/ hold' = h    /\ UNCHANGED faults
                 \/ hold' = hold /\ Fault

-----------------------------------------------------------------------------
(* EnqueueWithID, one action per transaction. *)

Begin(p, i) ==
    /\ Up(p) /\ call[p] = NoCall
    /\ call' = [call EXCEPT ![p] = [pc |-> "recover", id |-> i]]
    /\ UNCHANGED <<receipt, row, ready, hold, proc, sweep, crashes, faults>>

\* recoverEnqueue, before and after the claim: an existing job is the answer,
\* an abandoned identity has none.
Recover(p) ==
    LET i == call[p].id IN
    /\ At(p, "recover") \/ At(p, "recheck")
    /\ Goto(p, IF row[i] # "absent" THEN "found"
               ELSE IF receipt[i] = "abandoned" THEN "conflict"
               ELSE IF call[p].pc = "recover" THEN "claim" ELSE "guard")
    /\ UNCHANGED <<receipt, row, ready, hold, proc, sweep, crashes, faults>>

Claim(p) ==
    LET i == call[p].id IN
    /\ At(p, "claim")
    /\ receipt' = IF receipt[i] = "none" THEN [receipt EXCEPT ![i] = "claimed"] ELSE receipt
    /\ Goto(p, IF receipt[i] = "abandoned" THEN "conflict" ELSE "recheck")
    /\ UNCHANGED <<row, ready, hold, proc, sweep, crashes, faults>>

\* One unattached job of a kind per user.
Guard(p) ==
    LET i == call[p].id IN
    /\ At(p, "guard")
    /\ IF \A k \in Ids : ~Active(k) THEN Goto(p, "hold")
       ELSE Goto(p, IF Active(i) THEN "found" ELSE "busy")
    /\ UNCHANGED <<receipt, row, ready, hold, proc, sweep, crashes, faults>>

\* The ledger finds the admission of an earlier attempt, or takes one.
HoldTaken(p) ==
    LET i == call[p].id IN
    /\ At(p, "hold")
    /\ hold' = IF hold[i] = "none" THEN [hold EXCEPT ![i] = "open"] ELSE hold
    /\ Goto(p, "insert")
    /\ UNCHANGED <<receipt, row, ready, proc, sweep, crashes, faults>>

\* It refuses, or it takes the hold and the answer is lost.
HoldRefused(p) ==
    LET i == call[p].id IN
    /\ At(p, "hold")
    /\ \/ /\ hold[i] = "none"
          /\ UNCHANGED <<hold, faults>>
       \/ /\ Fault
          /\ hold' = IF hold[i] = "none" THEN [hold EXCEPT ![i] = "open"] ELSE hold
    /\ Goto(p, "giveback")
    /\ UNCHANGED <<receipt, row, ready, proc, sweep, crashes>>

\* The row and the receipt's commit are one transaction: no row without a
\* claim that is still standing, and no second active row.
InsertUnclaimed(i) ==                                  \* mutant: the receipt is not looked at
    /\ \A k \in Ids : ~Active(k)
    /\ row[i] = "absent"
CanInsert(i) ==
    /\ \A k \in Ids : ~Active(k)
    /\ row[i] = "absent"
    /\ receipt[i] = "claimed"

Insert(p) ==
    LET i == call[p].id IN
    /\ At(p, "insert")
    /\ \/ /\ CanInsert(i)
          /\ row' = [row EXCEPT ![i] = "queued"]
          /\ receipt' = [receipt EXCEPT ![i] = "committed"]
          /\ \/ /\ Goto(p, "found")
                /\ UNCHANGED faults
             \/ /\ Goto(p, "reread")                   \* committed, and reported as failed
                /\ Fault
       \/ /\ IF CanInsert(i) THEN Fault ELSE UNCHANGED faults
          /\ Goto(p, "reread")
          /\ UNCHANGED <<row, receipt>>
    /\ UNCHANGED <<ready, hold, proc, sweep, crashes>>

\* After a failed insert the hold is kept, whoever may own it, unless the
\* identity was abandoned or cannot be read.
Reread(p) ==
    LET i == call[p].id IN
    /\ At(p, "reread")
    /\ \/ /\ Goto(p, IF row[i] # "absent" THEN "found"
                     ELSE IF receipt[i] = "abandoned" THEN "giveback" ELSE "failed")
          /\ UNCHANGED faults
       \/ /\ Goto(p, "giveback")
          /\ Fault
    /\ UNCHANGED <<receipt, row, ready, hold, proc, sweep, crashes>>

\* releaseAbandonedIdentity: the abandonment is permanent, so the hold cannot
\* belong to a row to come.  If the receipt cannot be read the hold is kept.
GiveAnyBack(p) ==                                      \* mutant: released whoever may own it
    LET i == call[p].id IN
    /\ At(p, "giveback")
    /\ hold' = Released(i) /\ Goto(p, "failed")
    /\ UNCHANGED <<receipt, row, ready, proc, sweep, crashes, faults>>
KeepHold(p) ==                                         \* mutant: the abandoned identity is not read again
    /\ At(p, "giveback")
    /\ Goto(p, "failed")
    /\ UNCHANGED <<receipt, row, ready, hold, proc, sweep, crashes, faults>>
GiveBack(p) ==
    LET i == call[p].id IN
    /\ At(p, "giveback")
    /\ IF receipt[i] = "abandoned"
         THEN \/ Tries(Released(i)) /\ Goto(p, "conflict")
              \/ UNCHANGED hold /\ Fault /\ Goto(p, "failed")
         ELSE UNCHANGED <<hold, faults>> /\ Goto(p, "failed")
    /\ UNCHANGED <<receipt, row, ready, proc, sweep, crashes>>

Return(p) ==
    /\ Up(p) /\ call[p].pc \in Answers
    /\ call' = [call EXCEPT ![p] = NoCall]
    /\ UNCHANGED <<receipt, row, ready, hold, proc, sweep, crashes, faults>>

-----------------------------------------------------------------------------
(* The job's own life, as the queue promises it (JobLifecycle). *)

Activate(i) ==
    /\ row[i] = "queued" /\ ~ready[i]
    /\ ready' = [ready EXCEPT ![i] = TRUE]
    /\ UNCHANGED <<receipt, row, hold, call, proc, sweep, crashes, faults>>

Pick(i) ==
    /\ row[i] = "queued" /\ ready[i]
    /\ row' = [row EXCEPT ![i] = "running"]
    /\ UNCHANGED <<receipt, ready, hold, call, proc, sweep, crashes, faults>>

End(i, s) ==
    /\ row[i] = "running" \/ (row[i] = "queued" /\ s # "done")
    /\ row' = [row EXCEPT ![i] = s]
    /\ UNCHANGED <<receipt, ready, hold, call, proc, sweep, crashes, faults>>

Settle(i) ==
    /\ row[i] \in Terminal
    /\ hold' = Settled(i, row[i])
    /\ UNCHANGED <<receipt, row, ready, call, proc, sweep, crashes, faults>>

-----------------------------------------------------------------------------
(* Restarts, and the boot sweeps in the order of cmd/api. *)

Crash(p) ==
    /\ proc[p] # "down" /\ crashes < MaxCrashes
    /\ crashes' = crashes + 1
    /\ proc'  = [proc EXCEPT ![p] = "down"]
    /\ call'  = [call EXCEPT ![p] = NoCall]
    /\ sweep' = [sweep EXCEPT ![p] = NoSweep]
    /\ UNCHANGED <<receipt, row, ready, hold, faults>>

Boot(p) ==
    /\ proc[p] = "down"
    /\ proc' = [proc EXCEPT ![p] = "running"]
    /\ UNCHANGED <<receipt, row, ready, hold, call, sweep, crashes, faults>>

\* Work a restart interrupted, ended as stop says it was to end; then the
\* holds open now are listed.
ListHolds(p, phase) ==
    /\ proc'  = [proc EXCEPT ![p] = phase]
    /\ sweep' = [sweep EXCEPT ![p] = [NoSweep EXCEPT !.todo = {i \in Ids : hold[i] = "open"}]]

SweepRunning(p, stop) ==
    /\ proc[p] = "running"
    /\ row' = [i \in Ids |-> IF row[i] # "running" THEN row[i]
                             ELSE IF stop[i] THEN "cancelled" ELSE "failed"]
    /\ ListHolds(p, "holds")
    /\ UNCHANGED <<receipt, ready, hold, call, crashes, faults>>

SweepUnactivated(p) ==
    /\ proc[p] = "unactivated"
    /\ row' = [i \in Ids |-> IF row[i] = "queued" /\ ~ready[i] THEN "failed" ELSE row[i]]
    /\ ListHolds(p, "holds2")
    /\ UNCHANGED <<receipt, ready, hold, call, crashes, faults>>

Sweeping(p, pc) == proc[p] \in {"holds", "holds2"} /\ sweep[p].pc = pc
Drop(p, i)      == sweep' = [sweep EXCEPT ![p] = [NoSweep EXCEPT !.todo = sweep[p].todo \ {i}]]

\* The job of a listed hold is read: an ended one is settled, a live one left
\* alone; of a missing one the receipt is read as well.
SweepLook(p, i) ==
    /\ Sweeping(p, "look") /\ i \in sweep[p].todo
    /\ \/ /\ row[i] \in Terminal
          /\ Tries(Settled(i, row[i]))
          /\ Drop(p, i)
       \/ /\ Active(i)
          /\ Drop(p, i)
          /\ UNCHANGED <<hold, faults>>
       \/ /\ row[i] = "absent"
          /\ sweep' = [sweep EXCEPT ![p] =
                 [todo |-> sweep[p].todo, id |-> i, saw |-> receipt[i],
                  pc |-> IF receipt[i] = "none" THEN "release" ELSE "abandon"]]
          /\ UNCHANGED <<hold, faults>>
    /\ UNCHANGED <<receipt, row, ready, call, proc, crashes>>

\* The compare-and-set: a claim without a row is given up for ever.  When it
\* changes nothing, a row was committed meanwhile, or it had been given up
\* before.
AbandonBlindly(i) == receipt[i] \in {"claimed", "committed"}   \* mutant: without asking for the row
CanAbandon(i)     == receipt[i] \in {"claimed", "committed"} /\ row[i] = "absent"

SweepAbandon(p) ==
    LET i == sweep[p].id IN
    /\ Sweeping(p, "abandon")
    /\ receipt' = IF CanAbandon(i) THEN [receipt EXCEPT ![i] = "abandoned"] ELSE receipt
    /\ IF CanAbandon(i) \/ sweep[p].saw = "abandoned"
         THEN sweep' = [sweep EXCEPT ![p].pc = "release"]
         ELSE Drop(p, i)
    /\ UNCHANGED <<row, ready, hold, call, proc, crashes, faults>>

SweepRelease(p) ==
    LET i == sweep[p].id IN
    /\ Sweeping(p, "release")
    /\ Tries(Released(i))
    /\ Drop(p, i)
    /\ UNCHANGED <<receipt, row, ready, call, proc, crashes>>

HoldsSwept(p) ==
    /\ Sweeping(p, "look") /\ sweep[p].todo = {}
    /\ proc' = [proc EXCEPT ![p] = IF proc[p] = "holds" THEN "unactivated" ELSE "up"]
    /\ UNCHANGED <<receipt, row, ready, hold, call, sweep, crashes, faults>>

-----------------------------------------------------------------------------
CallStep(p) == Recover(p) \/ Claim(p) \/ Guard(p) \/ HoldTaken(p) \/ HoldRefused(p)
               \/ Insert(p) \/ Reread(p) \/ GiveBack(p)
SweepStep(p) == SweepUnactivated(p) \/ (\E i \in Ids : SweepLook(p, i))
                \/ SweepAbandon(p) \/ SweepRelease(p) \/ HoldsSwept(p)

IdNext ==
    \/ \E p \in Procs : \/ (\E i \in Ids : Begin(p, i)) \/ CallStep(p) \/ Return(p)
                        \/ Crash(p) \/ Boot(p) \/ SweepStep(p)
                        \/ \E stop \in [Ids -> BOOLEAN] : SweepRunning(p, stop)
    \/ \E i \in Ids : \/ Activate(i) \/ Pick(i) \/ Settle(i)
                      \/ \E s \in Terminal : End(i, s)

IdSpec == IdInit /\ [][IdNext]_idVars

-----------------------------------------------------------------------------
(* Properties. *)

\* A job that waits or runs has its credits reserved, although a restart, the
\* sweep of another process and a repeated start may each be releasing the
\* hold they found without a row.
ReservedWhileActive == \A i \in Ids : Active(i) => hold[i] = "open"

\* Some process will still look at the hold of this start.
InFlight(i) ==
    \E p \in Procs : \/ call[p].id = i /\ call[p].pc \in {"insert", "reread", "giveback"}
                     \/ i \in sweep[p].todo

\* Once every process serves, the hold of an abandoned start is on its way
\* back: one that was taken while the sweep was giving the identity up is
\* returned by the call that took it.
AbandonedHoldsNothing ==
    (faults = 0 /\ \A p \in Procs : Up(p)) =>
      \A i \in Ids : (receipt[i] = "abandoned" /\ hold[i] = "open") => InFlight(i)

\* Rows, stops and holds move only as the queue's abstract start does.
Lifecycle == INSTANCE JobLifecycle WITH
    Jobs <- Ids, status <- row, stopped <- [i \in Ids |-> row[i] = "cancelled"]
IdentityImplementsLifecycle == Lifecycle!Spec
=============================================================================
