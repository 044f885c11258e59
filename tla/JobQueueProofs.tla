--------------------------- MODULE JobQueueProofs ---------------------------
(***************************************************************************)
(* Theorems about JobQueue, for every set of jobs, workers and wait keys   *)
(* and every number of restarts and failed calls.                          *)
(***************************************************************************)
EXTENDS JobQueue, TLAPS

-----------------------------------------------------------------------------
(* The inductive invariant. *)

\* How far a start has come: nothing is held or written for a new one, a held
\* one has no row yet and belongs to a process that serves.
StartInv(j) ==
    /\ enq[j] = "new"  => status[j] = "absent" /\ hold[j] = "none"
    /\ enq[j] = "held" => status[j] = "absent" /\ Serving

\* A stop is accepted for cancellable rows only, and an ended row is cancelled
\* exactly if it was asked to stop.
StopInv(j) ==
    /\ cancelReq[j] => Cancellable(j) /\ status[j] # "absent"
    /\ status[j] \in Terminal => (status[j] = "cancelled" <=> cancelReq[j])

\* Whoever is about to settle has read an ended row.
HoldInv(j) ==
    /\ hold[j] \in Terminal => hold[j] = status[j]
    /\ canceller[j] = "settle" => status[j] = "cancelled"
    /\ waiter[j] = "settle" => status[j] \in Terminal

\* A run means to write "cancelled" only for a stop it has read, and settles
\* only with what its row says.
RunInv(w) ==
    /\ wk[w].pc # "idle" => wk[w].job \in Jobs /\ status[wk[w].job] # "absent"
    /\ wk[w].pc = "finish" /\ wk[w].want = "cancelled" => cancelReq[wk[w].job]
    /\ wk[w].pc = "settle" => wk[w].want = status[wk[w].job]

IInv == /\ TypeOK
        /\ \A j \in Jobs : StartInv(j) /\ StopInv(j) /\ HoldInv(j)
        /\ \A w \in Workers : RunInv(w)

-----------------------------------------------------------------------------
(* Types. *)

\* The waits a step may leave behind are waits.
LEMMA WaitTypes ==
    ASSUME NEW c \in Wait \cup {NoWait}, c # NoWait
    PROVE  /\ c \in Wait
           /\ [c EXCEPT !.state = "ready"] \in Wait
           /\ [c EXCEPT !.state = "claimed"] \in Wait
  BY DEF Wait, NoWait

\* A worker record stays one under each of the ways a step writes it.
LEMMA WorkerTypes ==
    ASSUME NEW r \in Worker
    PROVE  /\ Idle \in Worker
           /\ \A j \in Jobs, pc \in WorkerPc : [Idle EXCEPT !.job = j, !.pc = pc] \in Worker
           /\ \A pc \in WorkerPc : [r EXCEPT !.pc = pc] \in Worker
           /\ \A d \in {"nothing", "parked", "committed"} : [r EXCEPT !.did = d] \in Worker
           /\ [r EXCEPT !.sig = TRUE] \in Worker
           /\ \A pc \in WorkerPc, e \in {"nil", "fail", "ctx", "yield"} :
                  [r EXCEPT !.pc = pc, !.err = e] \in Worker
           /\ \A pc \in WorkerPc, s \in Terminal : [r EXCEPT !.pc = pc, !.want = s] \in Worker
  BY ZenonT(60) DEF Worker, Idle, WorkerPc, Terminal

\* Before the first boot every row is absent, every hold is none and every
\* process is idle, so each conjunct of the invariant holds.
LEMMA InitIInv == Init => IInv
  BY BoundsAssumption DEF Init, IInv, TypeOK, StartInv, StopInv, HoldInv, RunInv, Status, Hold,
     Worker, Idle, WorkerPc, Terminal, NoWait, Phases

\* Every action keeps the types; a settlement does so because whoever settles
\* has read an ended row.
LEMMA TypeStep == ASSUME IInv, Next PROVE TypeOK'
  <1> USE DEF TypeOK, durable, IInv
  <1>1. ASSUME NEW j \in Jobs, Caller(j) PROVE TypeOK'
    <2>1. CASE Admit(j)
      BY <2>1 DEF Admit, Hold
    <2>2. CASE Insert(j)
      BY <2>2 DEF Insert, ConflictReleased, Released, Hold, Status
    <2>3. CASE Activate(j)
      BY <2>3 DEF Activate
    <2>4. CASE FailQueued(j)
      BY <2>4 DEF FailQueued, Status, Terminal
    <2>5. CASE RequestCancel(j)
      BY <2>5 DEF RequestCancel, Status, Terminal
    <2> QED
      BY <1>1, <2>1, <2>2, <2>3, <2>4, <2>5 DEF Caller
  <1>2. ASSUME NEW j \in Jobs, Resolver(j) PROVE TypeOK'
    <2>1. CASE ResolveCancel(j)
      BY <2>1, WorkerTypes DEF ResolveCancel
    <2>2. CASE SettleCancel(j)
      BY <2>2 DEF SettleCancel, Settled, Hold, Terminal
    <2> QED
      BY <1>2, <2>1, <2>2 DEF Resolver
  <1>3. ASSUME NEW j \in Jobs, WaitOwner(j) PROVE TypeOK'
    <2>1. CASE Wake(j)
      <3>1. cont[j] # NoWait
        BY <2>1 DEF Wake, NoWait
      <3> QED
        BY <2>1, <3>1, WaitTypes DEF Wake
    <2>2. CASE FailWait(j)
      BY <2>2 DEF FailWait, Status, Terminal
    <2>3. CASE AcknowledgeStop(j)
      BY <2>3 DEF AcknowledgeStop, Status, Terminal
    <2> QED
      BY <1>3, <2>1, <2>2, <2>3 DEF WaitOwner
  <1>4. ASSUME NEW j \in Jobs, SettleWait(j) PROVE TypeOK'
    BY <1>4 DEF SettleWait, Settled, HoldInv, Hold
  <1>5. ASSUME NEW w \in Workers, NEW j \in Jobs, Pick(w, j) PROVE TypeOK'
    <2>1. IF Cancellable(j) THEN "register" \in WorkerPc ELSE "handler" \in WorkerPc
      BY DEF WorkerPc
    <2>2. wk' \in [Workers -> Worker]
      BY <1>5, <2>1, WorkerTypes DEF Pick
    <2>3. cont' \in [Jobs -> Wait \cup {NoWait}]
      BY <1>5, WaitTypes DEF Pick
    <2> QED
      BY <1>5, <2>2, <2>3 DEF Pick, Status
  <1>6. ASSUME NEW w \in Workers, Handler(w) PROVE TypeOK'
    <2>0. wk[w].pc # "idle" => wk[w].job \in Jobs
      BY DEF RunInv
    <2>1. CASE Reserve(w)
      BY <2>0, <2>1 DEF Reserve, Hold
    <2>2. CASE Commit(w)
      BY <2>0, <2>2, WorkerTypes DEF Commit, Status, Terminal
    <2>3. ASSUME NEW k \in Keys, NEW p \in Policy, NEW s \in {"waiting", "ready"}, Park(w, k, p, s)
          PROVE  TypeOK'
      BY <2>0, <2>3, WorkerTypes DEF Park, Wait
    <2> QED
      BY <1>6, <2>1, <2>2, <2>3 DEF Handler
  <1>7. ASSUME NEW w \in Workers, Returns(w) PROVE TypeOK'
    <2>1. PICK e \in {"nil", "fail", "ctx", "yield"} : HandlerReturn(w, e)
      BY <1>7 DEF Returns
    <2>2. [wk[w] EXCEPT !.pc = "pending", !.err = e] \in Worker
      BY WorkerTypes DEF WorkerPc
    <2>3. wk' = [wk EXCEPT ![w] = [wk[w] EXCEPT !.pc = "pending", !.err = e]]
      BY <2>1 DEF HandlerReturn
    <2> QED
      BY <2>1, <2>2, <2>3 DEF HandlerReturn
  <1>8. ASSUME NEW w \in Workers, RunStep(w) PROVE TypeOK'
    <2>0. wk[w] \in Worker /\ (wk[w].pc # "idle" => wk[w].job \in Jobs)
      BY DEF RunInv
    <2> USE <2>0
    <2>1. CASE Register(w)
      BY <2>1, WorkerTypes DEF Register, WorkerPc
    <2>2. CASE CheckStop(w)
      BY <2>2 DEF CheckStop, Worker, WorkerPc
    <2>3. CASE CheckPending(w)
      BY <2>3, WorkerTypes DEF CheckPending, Leave, Goto, Outcome, WorkerPc, Terminal
    <2>4. CASE CheckYield(w)
      BY <2>4, WorkerTypes DEF CheckYield, Leave, WorkerPc
    <2>5. CASE ReadPersisted(w)
      BY <2>5 DEF ReadPersisted, Leave, Outcome, Idle, Worker, WorkerPc, Terminal
    <2>6. CASE Finish(w)
      BY <2>6 DEF Finish, Finished, FinishStatus, Goto, Status, Worker, WorkerPc, Terminal
    <2>7. CASE Reread(w)
      BY <2>7 DEF Reread, Leave, Idle, Worker, WorkerPc, Terminal
    <2>8. CASE Settle(w)
      BY <2>8, WorkerTypes DEF Settle, Settled, Leave, Hold, Worker
    <2> QED
      BY <1>8, <2>1, <2>2, <2>3, <2>4, <2>5, <2>6, <2>7, <2>8 DEF RunStep
  <1>9. ASSUME Faulty PROVE TypeOK'
    <2>0. Fault => faults' \in 0..MaxFaults
      BY BoundsAssumption DEF Fault
    <2>1. ASSUME NEW w \in Workers, ReadFails(w) PROVE TypeOK'
      <3>1. CASE wk' = Leave(w)
        BY <2>0, <2>1, <3>1, WorkerTypes DEF ReadFails, Leave
      <3>2. CASE wk' = [wk EXCEPT ![w] = [wk[w] EXCEPT !.pc = "pending", !.err = "fail"]]
        <4>1. [wk[w] EXCEPT !.pc = "pending", !.err = "fail"] \in Worker
          BY WorkerTypes DEF WorkerPc
        <4> QED
          BY <2>0, <2>1, <3>2, <4>1 DEF ReadFails
      <3> QED
        BY <2>1, <3>1, <3>2 DEF ReadFails
    <2>2. ASSUME NEW w \in Workers, FinishFails(w) PROVE TypeOK'
      <3>1. wk[w] \in Worker /\ wk[w].job \in Jobs
        BY <2>2 DEF RunInv, FinishFails
      <3> QED
        BY <2>0, <2>2, <3>1 DEF FinishFails, Finished, FinishStatus, Goto, Status, Worker, WorkerPc, Terminal
    <2>3. ASSUME NEW w \in Workers, SettleFails(w) PROVE TypeOK'
      BY <2>0, <2>3, WorkerTypes DEF SettleFails, Leave
    <2>4. ASSUME NEW j \in Jobs, CallFails(j) PROVE TypeOK'
      BY <2>0, <2>4 DEF CallFails
    <2>5. ASSUME NEW j \in Jobs, SweepMisses(j) PROVE TypeOK'
      BY <2>0, <2>5 DEF SweepMisses
    <2>6. ASSUME NEW j \in Jobs, InsertFails(j) PROVE TypeOK'
      BY <2>0, <2>6 DEF InsertFails, Released, Hold
    <2> QED
      BY <1>9, <2>1, <2>2, <2>3, <2>4, <2>5, <2>6 DEF Faulty
  <1>10. ASSUME BootStep PROVE TypeOK'
    <2>1. CASE RecoverCancellations
      BY <2>1 DEF RecoverCancellations, Status, Terminal, Phases
    <2>2. CASE SweepRunning
      <3>1. cont' \in [Jobs -> Wait \cup {NoWait}]
        BY <2>2, WaitTypes DEF SweepRunning, Replayed
      <3> QED
        BY <2>2, <3>1 DEF SweepRunning, Status, Terminal, Phases
    <2>3. CASE HoldsSwept
      BY <2>3 DEF HoldsSwept, Phases
    <2>4. CASE SweepUnactivated
      BY <2>4 DEF SweepUnactivated, AfterUnactivated, Status, Terminal, Phases
    <2>5. ASSUME NEW j \in Jobs, SweepHold(j) PROVE TypeOK'
      BY <2>5 DEF SweepHold, SweepFinds, Active, Released, Settled, Hold, Status
    <2>6. CASE ListHolds
      BY <2>6 DEF ListHolds, Phases
    <2> QED
      BY <1>10, <2>1, <2>2, <2>3, <2>4, <2>5, <2>6 DEF BootStep
  <1>11. ASSUME Reset PROVE TypeOK' \/ boots' \notin 0..MaxBoots
    BY <1>11 DEF Reset, Phases, Worker, Idle, WorkerPc, Terminal
  <1>12. CASE Crash
    BY <1>11, <1>12, BoundsAssumption DEF Crash
  <1>13. CASE Shutdown
    BY <1>13, BoundsAssumption DEF Shutdown, Phases
  <1>14. CASE Exit
    BY <1>11, <1>14 DEF Exit
  <1>15. ASSUME NEW j \in Jobs, NEW k \in Keys, Adopt(j, k) PROVE TypeOK'
    <2>1. [state |-> "waiting", key |-> k, policy |-> "replay_safe"] \in Wait
      BY DEF Wait, Policy
    <2> QED
      BY <1>15, <2>1 DEF Adopt
  <1> QED
    BY <1>1, <1>2, <1>3, <1>4, <1>5, <1>6, <1>7, <1>8, <1>9, <1>10, <1>12, <1>13, <1>14, <1>15 DEF Next

-----------------------------------------------------------------------------
(* Every step moves every job as JobLifecycle allows. *)

Moves(j) == Lifecycle!StatusMoves(j) /\ Lifecycle!StopMoves(j) /\ Lifecycle!HoldMoves(j)

\* A step that writes none of the three columns moves no job.
LEMMA NoMove ==
    ASSUME IInv, NEW j \in Jobs, UNCHANGED <<status, cancelReq, hold>>
    PROVE  Moves(j)
  BY DEF IInv, StopInv, Moves, Lifecycle!StatusMoves, Lifecycle!StopMoves, Lifecycle!HoldMoves,
     Terminal, Lifecycle!Terminal

\* Every step, a restart included, moves a row only forwards: the lifecycle
\* moves of its status, its stop request and its hold.
LEMMA MovesStep == ASSUME IInv, Next, NEW i \in Jobs PROVE Moves(i)
  <1> USE DEF durable, Moves, Lifecycle!StatusMoves, Lifecycle!StopMoves, Lifecycle!HoldMoves, Terminal,
              Lifecycle!Terminal
  <1>0. /\ status[i] \in Status /\ cancelReq[i] \in BOOLEAN /\ hold[i] \in Hold
        /\ status \in [Jobs -> Status] /\ cancelReq \in [Jobs -> BOOLEAN] /\ hold \in [Jobs -> Hold]
        /\ StartInv(i) /\ StopInv(i) /\ HoldInv(i)
    BY DEF IInv, TypeOK
  <1>1. ASSUME NEW j \in Jobs, Caller(j) PROVE Moves(i)
    <2>1. CASE Admit(j)
      BY <1>0, <2>1 DEF Admit, StartInv, StopInv
    <2>2. CASE Insert(j)
      BY <1>0, <2>2 DEF Insert, ConflictReleased, Released, StartInv, StopInv
    <2>3. CASE Activate(j)
      BY <2>3, NoMove DEF Activate
    <2>4. CASE FailQueued(j)
      BY <1>0, <2>4 DEF FailQueued, StopInv
    <2>5. CASE RequestCancel(j)
      BY <1>0, <2>5 DEF RequestCancel, Active, StopInv
    <2> QED
      BY <1>1, <2>1, <2>2, <2>3, <2>4, <2>5 DEF Caller
  <1>2. ASSUME NEW j \in Jobs, Resolver(j) PROVE Moves(i)
    <2>1. CASE ResolveCancel(j)
      BY <2>1, NoMove DEF ResolveCancel
    <2>2. CASE SettleCancel(j)
      <3>1. HoldInv(j)
        BY DEF IInv
      <3> QED
        BY <1>0, <2>2, <3>1 DEF SettleCancel, Settled, StopInv, HoldInv
    <2> QED
      BY <1>2, <2>1, <2>2 DEF Resolver
  <1>3. ASSUME NEW j \in Jobs, WaitOwner(j) PROVE Moves(i)
    <2>1. CASE Wake(j)
      BY <2>1, NoMove DEF Wake
    <2>2. CASE FailWait(j)
      BY <1>0, <2>2 DEF FailWait, Pending, StopInv
    <2>3. CASE AcknowledgeStop(j)
      BY <1>0, <2>3 DEF AcknowledgeStop, Pending, StopInv
    <2> QED
      BY <1>3, <2>1, <2>2, <2>3 DEF WaitOwner
  <1>4. ASSUME NEW j \in Jobs, SettleWait(j) PROVE Moves(i)
    <2>1. HoldInv(j)
      BY DEF IInv
    <2> QED
      BY <1>0, <1>4, <2>1 DEF SettleWait, Settled, StopInv, HoldInv
  <1>5. ASSUME NEW w \in Workers, NEW j \in Jobs, Pick(w, j) PROVE Moves(i)
    BY <1>0, <1>5 DEF Pick, Runnable, StopInv
  <1>6. ASSUME NEW w \in Workers, Handler(w) PROVE Moves(i)
    <2>1. CASE Reserve(w)
      BY <1>0, <2>1 DEF Reserve, StopInv
    <2>2. CASE Commit(w)
      BY <1>0, <2>2 DEF Commit, StopInv
    <2>3. ASSUME NEW k \in Keys, NEW p \in Policy, NEW s \in {"waiting", "ready"}, Park(w, k, p, s)
          PROVE  Moves(i)
      BY <2>3, NoMove DEF Park
    <2> QED
      BY <1>6, <2>1, <2>2, <2>3 DEF Handler
  <1>7. ASSUME NEW w \in Workers, Returns(w) PROVE Moves(i)
    BY <1>7, NoMove DEF Returns, HandlerReturn
  <1>8. ASSUME NEW w \in Workers, Finish(w) \/ FinishFails(w) PROVE Moves(i)
    <2>1. CASE status' = status
      BY <1>8, <2>1, NoMove DEF Finish, FinishFails
    <2>2. CASE status' = Finished(w)
      <3>1. RunInv(w) /\ wk[w].want \in Terminal
        BY DEF IInv, TypeOK, Worker
      <3>2. UNCHANGED <<cancelReq, hold>> /\ wk[w].pc = "finish"
        BY <1>8 DEF Finish, FinishFails
      <3> QED
        BY <1>0, <2>2, <3>1, <3>2 DEF Finished, FinishStatus, RunInv, StopInv
    <2> QED
      BY <1>8, <2>1, <2>2 DEF Finish, FinishFails
  <1>9. ASSUME NEW w \in Workers, RunStep(w), ~Finish(w) PROVE Moves(i)
    <2>1. CASE Settle(w)
      <3>1. RunInv(w) /\ wk[w].want \in Terminal
        BY DEF IInv, TypeOK, Worker
      <3> QED
        BY <1>0, <2>1, <3>1 DEF Settle, Settled, RunInv, StopInv
    <2> QED
      BY <1>9, <2>1, NoMove DEF RunStep, Register, CheckStop, CheckPending, CheckYield,
         ReadPersisted, Reread
  <1>10. ASSUME Faulty, \A w \in Workers : ~FinishFails(w) PROVE Moves(i)
    <2>1. ASSUME NEW j \in Jobs, InsertFails(j) PROVE Moves(i)
      <3>1. UNCHANGED <<status, cancelReq>> /\ status[j] = "absent" /\ hold' \in {hold, Released(hold, j)}
        BY <2>1 DEF InsertFails, IInv, StartInv
      <3>2. CASE hold' = hold
        BY <3>1, <3>2, NoMove
      <3>3. CASE hold' = Released(hold, j)
        <4>1. hold'[i] = hold[i] \/ (hold[i] = "open" /\ hold'[i] = "none" /\ status[i] = "absent")
          BY <1>0, <3>1, <3>3 DEF Released
        <4>2. status'[i] = status[i] /\ cancelReq'[i] = cancelReq[i]
          BY <3>1
        <4>3. Lifecycle!StatusMoves(i)
          BY <4>2
        <4>4. Lifecycle!StopMoves(i)
          BY <1>0, <4>2 DEF StopInv
        <4>5. Lifecycle!HoldMoves(i)
          BY <4>1
        <4> QED
          BY <4>3, <4>4, <4>5
      <3> QED
        BY <3>1, <3>2, <3>3
    <2> QED
      BY <1>10, <2>1, NoMove DEF Faulty, ReadFails, SettleFails, CallFails, SweepMisses
  <1>11. ASSUME BootStep PROVE Moves(i)
    <2>1. CASE RecoverCancellations
      BY <1>0, <2>1 DEF RecoverCancellations, Active, StopInv
    <2>2. CASE SweepRunning
      BY <1>0, <2>2 DEF SweepRunning, StopInv
    <2>3. CASE ListHolds \/ HoldsSwept
      BY <2>3, NoMove DEF ListHolds, HoldsSwept
    <2>4. CASE SweepUnactivated
      BY <1>0, <2>4 DEF SweepUnactivated, StopInv
    <2>5. ASSUME NEW j \in Jobs, SweepHold(j) PROVE Moves(i)
      BY <1>0, <2>5 DEF SweepHold, SweepFinds, Active, Released, Settled, StopInv, Status
    <2> QED
      BY <1>11, <2>1, <2>2, <2>3, <2>4, <2>5 DEF BootStep
  <1>12. CASE Crash \/ Shutdown \/ Exit
    BY <1>12, NoMove DEF Crash, Shutdown, Exit, Reset
  <1>13. ASSUME NEW j \in Jobs, NEW k \in Keys, Adopt(j, k) PROVE Moves(i)
    BY <1>13, NoMove DEF Adopt
  <1> QED
    BY <1>1, <1>2, <1>3, <1>4, <1>5, <1>6, <1>7, <1>8, <1>9, <1>10, <1>11, <1>12, <1>13
    DEF Next, Faulty, RunStep

-----------------------------------------------------------------------------
(* The rest of the inductive step. *)

\* What JobLifecycle allows keeps the part of the invariant that is about the
\* three columns alone: an ended row stays as it ended.
LEMMA MovesKeep ==
    ASSUME IInv, TypeOK', NEW i \in Jobs, Moves(i)
    PROVE  /\ hold'[i] \in Terminal => hold'[i] = status'[i]
           /\ status'[i] \in Terminal => (status'[i] = "cancelled" <=> cancelReq'[i])
           /\ cancelReq[i] => cancelReq'[i]
           /\ status[i] \in Terminal => status'[i] = status[i]
           /\ status[i] # "absent" => status'[i] # "absent"
           /\ cancelReq'[i] => cancelReq[i] \/ status[i] # "absent"
  BY DEF IInv, TypeOK, Hold, Status, HoldInv, Moves, Lifecycle!StatusMoves, Lifecycle!StopMoves,
     Lifecycle!HoldMoves, Terminal, Lifecycle!Terminal

\* A start's place in Enqueue stays borne out by the row and the hold it has
\* made: no other start, worker or sweep writes to a row that is not inserted.
LEMMA StartStep == ASSUME IInv, Next, TypeOK', NEW i \in Jobs PROVE StartInv(i)'
  <1> USE DEF durable, IInv, StartInv, Serving
  <1>1. ASSUME NEW j \in Jobs, Caller(j) PROVE StartInv(i)'
    <2>0. StartInv(j) /\ StartInv(i)
      OBVIOUS
    <2>1. CASE Admit(j)
      BY <2>0, <2>1 DEF Admit, TypeOK
    <2>2. CASE Insert(j)
      BY <2>0, <2>2 DEF Insert, ConflictReleased, Released, TypeOK
    <2>3. CASE Activate(j) \/ FailQueued(j) \/ RequestCancel(j)
      BY <2>0, <2>3 DEF Activate, FailQueued, RequestCancel, Active, TypeOK
    <2> QED
      BY <1>1, <2>1, <2>2, <2>3 DEF Caller
  <1>2. ASSUME NEW j \in Jobs, Resolver(j) \/ SettleWait(j) PROVE StartInv(i)'
    <2>1. HoldInv(j) /\ StartInv(j)
      OBVIOUS
    <2> QED
      BY <1>2, <2>1 DEF Resolver, ResolveCancel, SettleCancel, SettleWait, Settled, HoldInv, TypeOK
  <1>3. ASSUME NEW j \in Jobs, WaitOwner(j) PROVE StartInv(i)'
    BY <1>3 DEF WaitOwner, Wake, FailWait, AcknowledgeStop, Pending, TypeOK
  <1>4. ASSUME NEW w \in Workers, NEW j \in Jobs, Pick(w, j) PROVE StartInv(i)'
    BY <1>4 DEF Pick, Runnable, TypeOK
  <1>5. ASSUME NEW w \in Workers, Handler(w) \/ Returns(w) PROVE StartInv(i)'
    <2>1. CASE Reserve(w) \/ Commit(w)
      <3>1. status[wk[w].job] = "running"
        BY <2>1 DEF Reserve, Commit
      <3>2. status' = status \/ status' = [status EXCEPT ![wk[w].job] = "done"]
        BY <2>1 DEF Reserve, Commit
      <3>3. hold' = hold \/ hold' = [hold EXCEPT ![wk[w].job] = "open"]
        BY <2>1 DEF Reserve, Commit
      <3>4. enq' = enq /\ phase' = phase
        BY <2>1 DEF Reserve, Commit
      <3> QED
        BY <3>1, <3>2, <3>3, <3>4 DEF TypeOK
    <2>2. ASSUME NEW k \in Keys, NEW p \in Policy, NEW s \in {"waiting", "ready"}, Park(w, k, p, s)
          PROVE  StartInv(i)'
      BY <2>2 DEF Park
    <2>3. CASE Returns(w)
      BY <2>3 DEF Returns, HandlerReturn
    <2> QED
      BY <1>5, <2>1, <2>2, <2>3 DEF Handler
  <1>6. ASSUME NEW w \in Workers, Finish(w) \/ FinishFails(w) PROVE StartInv(i)'
    <2>1. status' \in {status, Finished(w)} /\ UNCHANGED <<enq, hold, phase>>
      BY <1>6 DEF Finish, FinishFails
    <2> QED
      BY <2>1 DEF Finished, TypeOK
  <1>7. ASSUME NEW w \in Workers, RunStep(w), ~Finish(w) PROVE StartInv(i)'
    <2>1. RunInv(w)
      OBVIOUS
    <2>2. CASE Settle(w)
      BY <2>1, <2>2 DEF Settle, Settled, RunInv, TypeOK
    <2> QED
      BY <1>7, <2>2 DEF RunStep, Register, CheckStop, CheckPending, CheckYield, ReadPersisted, Reread
  <1>8. ASSUME Faulty, \A w \in Workers : ~FinishFails(w) PROVE StartInv(i)'
    <2>1. ASSUME NEW j \in Jobs, InsertFails(j) PROVE StartInv(i)'
      <3>1. StartInv(j) /\ StartInv(i)
        OBVIOUS
      <3>2. enq'[i] \in {enq[i], "over"} /\ hold'[i] \in {hold[i], "none"} /\ UNCHANGED <<status, phase>>
        BY <2>1 DEF InsertFails, Released, TypeOK
      <3> QED
        BY <3>1, <3>2
    <2> QED
      BY <1>8, <2>1 DEF Faulty, ReadFails, SettleFails, CallFails, SweepMisses
  <1>9. ASSUME BootStep PROVE StartInv(i)'
    <2>1. CASE RecoverCancellations \/ SweepRunning \/ SweepUnactivated
      BY <2>1 DEF RecoverCancellations, SweepRunning, SweepUnactivated, Active, TypeOK
    <2>2. CASE ListHolds \/ HoldsSwept
      BY <2>2 DEF ListHolds, HoldsSwept
    <2>3. ASSUME NEW j \in Jobs, SweepHold(j) PROVE StartInv(i)'
      BY <2>3 DEF SweepHold, Sweeps, SweepFinds, Active, Released, Settled, TypeOK
    <2> QED
      BY <1>9, <2>1, <2>2, <2>3 DEF BootStep
  <1>10. CASE Crash \/ Shutdown \/ Exit
    BY <1>10 DEF Crash, Shutdown, Exit, Reset, TypeOK
  <1>11. ASSUME NEW j \in Jobs, NEW k \in Keys, Adopt(j, k) PROVE StartInv(i)'
    BY <1>11 DEF Adopt
  <1> QED
    BY <1>1, <1>2, <1>3, <1>4, <1>5, <1>6, <1>7, <1>8, <1>9, <1>10, <1>11 DEF Next, Faulty, RunStep

\* Only an owner's request on a cancellable row stops it.
LEMMA StopStep == ASSUME IInv, Next, TypeOK', NEW i \in Jobs PROVE StopInv(i)'
  <1>1. /\ status'[i] \in Terminal => (status'[i] = "cancelled" <=> cancelReq'[i])
        /\ status[i] # "absent" => status'[i] # "absent"
        /\ cancelReq'[i] => cancelReq[i] \/ status[i] # "absent"
    BY MovesStep, MovesKeep
  <1>2. cancelReq'[i] => cancelReq[i] \/ Cancellable(i)
    <2>1. ASSUME NEW j \in Jobs, RequestCancel(j) PROVE cancelReq'[i] => cancelReq[i] \/ Cancellable(i)
      BY <2>1 DEF RequestCancel, IInv, TypeOK
    <2>2. (\A j \in Jobs : ~RequestCancel(j)) => UNCHANGED cancelReq
      <3>1. ASSUME NEW j \in Jobs, Caller(j), ~RequestCancel(j) PROVE UNCHANGED cancelReq
        BY <3>1 DEF Caller, Admit, Insert, Activate, FailQueued
      <3>2. ASSUME NEW j \in Jobs,
                   Resolver(j) \/ WaitOwner(j) \/ SettleWait(j) \/ \E k \in Keys : Adopt(j, k)
            PROVE  UNCHANGED cancelReq
        BY <3>2 DEF Resolver, ResolveCancel, SettleCancel, WaitOwner, Wake, FailWait, AcknowledgeStop,
           SettleWait, Adopt
      <3>3. ASSUME NEW w \in Workers, Handler(w) \/ \E j \in Jobs : Pick(w, j)
            PROVE  UNCHANGED cancelReq
        BY <3>3 DEF Handler, Reserve, Commit, Park, Pick
      <3>8. ASSUME NEW w \in Workers, Returns(w) PROVE UNCHANGED cancelReq
        BY <3>8 DEF Returns, HandlerReturn, durable
      <3>4. ASSUME NEW w \in Workers, RunStep(w) PROVE UNCHANGED cancelReq
        BY <3>4 DEF RunStep, Register, CheckStop, CheckPending, CheckYield, ReadPersisted, Finish,
           Reread, Settle, durable
      <3>5. ASSUME Faulty PROVE UNCHANGED cancelReq
        BY <3>5 DEF Faulty, ReadFails, FinishFails, SettleFails, CallFails, InsertFails, SweepMisses, durable
      <3>6. ASSUME BootStep PROVE UNCHANGED cancelReq
        BY <3>6 DEF BootStep, RecoverCancellations, SweepRunning, ListHolds, HoldsSwept, SweepUnactivated,
           SweepHold, durable
      <3>7. ASSUME Crash \/ Shutdown \/ Exit PROVE UNCHANGED cancelReq
        BY <3>7 DEF Crash, Shutdown, Exit, Reset, durable
      <3> QED
        BY <3>1, <3>2, <3>3, <3>4, <3>5, <3>6, <3>7, <3>8 DEF Next
    <2> QED
      BY <2>1, <2>2
  <1> QED
    BY <1>1, <1>2 DEF IInv, StopInv, TypeOK, Cancellable

\* A settlement is on its way only for a row that has ended.
LEMMA HoldStep == ASSUME IInv, Next, TypeOK', NEW i \in Jobs PROVE HoldInv(i)'
  <1>1. /\ hold'[i] \in Terminal => hold'[i] = status'[i]
        /\ status[i] \in Terminal => status'[i] = status[i]
    BY MovesStep, MovesKeep
  <1>2. /\ canceller'[i] = "settle" => canceller[i] = "settle" \/ (status'[i] = "cancelled")
        /\ waiter'[i] = "settle" => waiter[i] = "settle" \/ status'[i] \in Terminal
    <2> USE DEF durable, IInv, TypeOK
    <2> DEFINE Goal == /\ canceller'[i] = "settle" => canceller[i] = "settle" \/ (status'[i] = "cancelled")
                       /\ waiter'[i] = "settle" => waiter[i] = "settle" \/ status'[i] \in Terminal
    <2>1. ASSUME NEW j \in Jobs, Caller(j) \/ Resolver(j) PROVE Goal
      BY <2>1 DEF Caller, Admit, Insert, Activate, FailQueued, RequestCancel, Resolver, ResolveCancel,
         SettleCancel
    <2>2. ASSUME NEW j \in Jobs, WaitOwner(j) \/ SettleWait(j) \/ \E k \in Keys : Adopt(j, k) PROVE Goal
      BY <2>2 DEF WaitOwner, Wake, FailWait, AcknowledgeStop, SettleWait, Adopt, Terminal
    <2>3. ASSUME NEW w \in Workers, Handler(w) \/ Returns(w) \/ \E j \in Jobs : Pick(w, j) PROVE Goal
      BY <2>3 DEF Handler, Reserve, Commit, Park, Returns, HandlerReturn, Pick
    <2>4. ASSUME NEW w \in Workers, RunStep(w) PROVE Goal
      BY <2>4 DEF RunStep, Register, CheckStop, CheckPending, CheckYield, ReadPersisted, Finish,
         Reread, Settle
    <2>5. ASSUME Faulty PROVE Goal
      <3>1. ASSUME NEW w \in Workers, ReadFails(w) \/ FinishFails(w) \/ SettleFails(w)
            PROVE  UNCHANGED <<canceller, waiter>>
        BY <3>1 DEF ReadFails, FinishFails, SettleFails
      <3>2. ASSUME NEW j \in Jobs, InsertFails(j) \/ SweepMisses(j) PROVE UNCHANGED <<canceller, waiter>>
        BY <3>2 DEF InsertFails, SweepMisses
      <3>3. ASSUME NEW j \in Jobs, CallFails(j) PROVE Goal
        BY <3>3 DEF CallFails
      <3> QED
        BY <2>5, <3>1, <3>2, <3>3 DEF Faulty
    <2>6. ASSUME BootStep PROVE Goal
      BY <2>6 DEF BootStep, RecoverCancellations, SweepRunning, ListHolds, HoldsSwept, SweepUnactivated, SweepHold
    <2>7. ASSUME Crash \/ Shutdown \/ Exit PROVE Goal
      BY <2>7 DEF Crash, Shutdown, Exit, Reset
    <2> QED
      BY <2>1, <2>2, <2>3, <2>4, <2>5, <2>6, <2>7 DEF Next
  <1> QED
    BY <1>1, <1>2 DEF IInv, HoldInv, Terminal

\* A run whose position, job and intent a step leaves alone keeps its part of
\* the invariant whatever the step did to the rows; so does one that moved on
\* without reaching its terminal write or its settlement.
LEMMA SameRun ==
    ASSUME IInv, Next, TypeOK', NEW v \in Workers,
           wk'[v].pc = wk[v].pc, wk'[v].job = wk[v].job, wk'[v].want = wk[v].want
    PROVE  RunInv(v)'
  <1>1. CASE wk[v].pc = "idle"
    BY <1>1 DEF RunInv
  <1>2. CASE wk[v].pc # "idle"
    <2>1. wk[v].job \in Jobs /\ RunInv(v) /\ wk[v].want \in Terminal
      BY <1>2 DEF IInv, RunInv, TypeOK, Worker
    <2> QED
      BY <2>1, MovesStep, MovesKeep DEF RunInv
  <1> QED
    BY <1>1, <1>2

\* A worker that has reached neither its terminal write nor its settlement
\* owes the row nothing: any step that leaves it there keeps its part.
LEMMA PassiveRun ==
    ASSUME IInv, Next, TypeOK', NEW v \in Workers, wk[v].pc # "idle",
           wk'[v].pc \notin {"finish", "settle"}, wk'[v].job = wk[v].job
    PROVE  RunInv(v)'
  <1>1. wk[v].job \in Jobs /\ RunInv(v)
    BY DEF IInv, RunInv
  <1> QED
    BY <1>1, MovesStep, MovesKeep DEF RunInv

\* A worker with no job owes no row anything.
LEMMA IdleRun == ASSUME NEW v \in Workers, wk'[v] = Idle PROVE RunInv(v)'
  BY DEF RunInv, Idle

\* One worker's step: the terminal write and the settlement are reached only
\* with an intent the row bears out.
LEMMA OwnRun == ASSUME IInv, Next, TypeOK', NEW w \in Workers, RunStep(w) PROVE RunInv(w)'
  <1> USE DEF durable
  <1>0. /\ wk \in [Workers -> Worker] /\ wk[w] \in Worker /\ RunInv(w)
        /\ wk[w].pc # "idle" => wk[w].job \in Jobs
        /\ wk[w].pc # "idle" => status[wk[w].job] \in Status /\ StopInv(wk[w].job)
    BY DEF IInv, TypeOK, RunInv
  <1>1. CASE Register(w)
    BY <1>0, <1>1, PassiveRun DEF Register, Worker
  <1>2. CASE CheckStop(w)
    BY <1>0, <1>2, PassiveRun DEF CheckStop, Worker
  <1>3. CASE CheckPending(w)
    <2>1. CASE wk'[w] = Idle
      BY <2>1, IdleRun
    <2>2. CASE wk'[w].job = wk[w].job /\ wk'[w].pc \in {"yield", "persisted"}
      BY <1>3, <2>2, PassiveRun DEF CheckPending
    <2>3. CASE wk'[w].job = wk[w].job /\ wk'[w].pc = "finish" /\ wk'[w].want \in {"done", "failed"}
      BY <1>0, <1>3, <2>3 DEF CheckPending, RunInv
    <2>4. wk' \in {Leave(w), Goto(w, "yield"), Goto(w, "persisted"),
                    [wk EXCEPT ![w].pc = "finish", ![w].want = Outcome(wk[w].err, FALSE)]}
      BY <1>3 DEF CheckPending
    <2> QED
      BY <1>0, <2>1, <2>2, <2>3, <2>4 DEF Leave, Goto, Outcome, Worker
  <1>4. CASE CheckYield(w)
    <2>1. CASE wk' = Leave(w)
      BY <1>0, <2>1, IdleRun DEF Leave
    <2>2. CASE wk' # Leave(w)
      BY <1>0, <1>4, <2>2, PassiveRun DEF CheckYield, Worker
    <2> QED
      BY <2>1, <2>2
  <1>5. CASE ReadPersisted(w)
    <2>1. CASE wk' = Leave(w)
      BY <1>0, <2>1, IdleRun DEF Leave
    <2>2. CASE wk' # Leave(w)
      <3>1. wk' = [wk EXCEPT ![w].want = Outcome(wk[w].err, cancelReq[wk[w].job]),
                             ![w].pc = IF status[wk[w].job] \in Terminal THEN "reread" ELSE "finish"]
        BY <1>5, <2>2 DEF ReadPersisted
      <3>2. /\ wk'[w].job = wk[w].job /\ wk'[w].pc \in {"reread", "finish"}
            /\ wk'[w].want = "cancelled" => cancelReq[wk[w].job]
        BY <1>0, <3>1 DEF Worker, Outcome
      <3> QED
        BY <1>0, <1>5, <3>2 DEF ReadPersisted, RunInv
    <2> QED
      BY <2>1, <2>2
  <1>6. CASE Finish(w)
    <2>1. wk[w].job \in Jobs /\ wk'[w] = [wk[w] EXCEPT !.pc = IF MustReread(w) THEN "reread" ELSE "settle"]
      BY <1>0, <1>6 DEF Finish, Goto
    <2>2. CASE MustReread(w)
      BY <1>0, <1>6, <2>1, <2>2, PassiveRun DEF Finish, Worker
    <2>3. CASE ~MustReread(w)
      <3>1. ~cancelReq[wk[w].job] /\ status[wk[w].job] = "running"
        BY <1>0, <1>6, <2>3 DEF Finish, MustReread, StopInv
      <3>2. status'[wk[w].job] = wk[w].want
        BY <1>6, <2>1, <3>1 DEF Finish, Finished, FinishStatus, IInv, TypeOK
      <3> QED
        BY <1>0, <2>1, <2>3, <3>2 DEF RunInv, Worker, Terminal
    <2> QED
      BY <2>2, <2>3
  <1>7. CASE Reread(w)
    <2>1. CASE status[wk[w].job] \in Terminal
      BY <1>0, <1>7, <2>1 DEF Reread, RunInv, Worker, Terminal
    <2>2. CASE status[wk[w].job] \notin Terminal
      BY <1>0, <1>7, <2>2, IdleRun DEF Reread, Leave
    <2> QED
      BY <2>1, <2>2
  <1>8. CASE Settle(w)
    BY <1>0, <1>8, IdleRun DEF Settle, Leave
  <1> QED
    BY <1>1, <1>2, <1>3, <1>4, <1>5, <1>6, <1>7, <1>8 DEF RunStep

\* Every step keeps what a worker's intent says of its row: its own steps by
\* OwnRun, everyone else's because rows only move forwards.
LEMMA RunsStep == ASSUME IInv, Next, TypeOK', NEW v \in Workers PROVE RunInv(v)'
  <1> USE DEF durable
  <1>0. wk \in [Workers -> Worker] /\ RunInv(v) /\ wk[v] \in Worker
    BY DEF IInv, TypeOK
  <1>1. CASE wk'[v] = wk[v]
    BY <1>1, SameRun
  <1>2. CASE wk'[v] = Idle
    BY <1>2, IdleRun
  <1>3. ASSUME NEW j \in Jobs, ResolveCancel(j) PROVE RunInv(v)'
    BY <1>0, <1>3, SameRun DEF ResolveCancel, Worker
  <1>4. ASSUME NEW j \in Jobs, Pick(v, j) PROVE RunInv(v)'
    BY <1>0, <1>4 DEF Pick, RunInv, Idle, IInv, TypeOK
  <1>5. ASSUME Handler(v) \/ Returns(v) PROVE RunInv(v)'
    BY <1>0, <1>5, PassiveRun DEF Handler, Reserve, Commit, Park, Returns, HandlerReturn, Worker
  <1>6. ASSUME RunStep(v) PROVE RunInv(v)'
    BY <1>6, OwnRun
  <1>7. ASSUME ReadFails(v) \/ FinishFails(v) \/ SettleFails(v) PROVE RunInv(v)'
    <2>1. CASE wk' = Leave(v)
      BY <1>0, <2>1, IdleRun DEF Leave
    <2>2. CASE wk' # Leave(v)
      BY <1>0, <1>7, <2>2, PassiveRun DEF ReadFails, FinishFails, SettleFails, Goto, Worker
    <2> QED
      BY <2>1, <2>2
  <1>8. ASSUME NEW w \in Workers \ {v},
               \/ (\E j \in Jobs : Pick(w, j)) \/ Handler(w) \/ Returns(w) \/ RunStep(w)
               \/ ReadFails(w) \/ FinishFails(w) \/ SettleFails(w)
        PROVE  wk'[v] = wk[v]
    <2>1. CASE (\E j \in Jobs : Pick(w, j)) \/ Handler(w) \/ Returns(w)
      BY <1>0, <1>8, <2>1 DEF Pick, Handler, Reserve, Commit, Park, Returns, HandlerReturn
    <2>2. CASE RunStep(w)
      BY <1>0, <1>8, <2>2 DEF RunStep, Register, CheckStop, CheckPending, CheckYield, ReadPersisted,
         Finish, Reread, Settle, Leave, Goto
    <2>3. CASE ReadFails(w) \/ FinishFails(w) \/ SettleFails(w)
      BY <1>0, <1>8, <2>3 DEF ReadFails, FinishFails, SettleFails, Leave, Goto
    <2> QED
      BY <1>8, <2>1, <2>2, <2>3
  <1>9. ASSUME NEW j \in Jobs,
               \/ Caller(j) \/ SettleCancel(j) \/ WaitOwner(j) \/ SettleWait(j) \/ CallFails(j)
               \/ InsertFails(j) \/ SweepMisses(j) \/ \E k \in Keys : Adopt(j, k)
        PROVE  wk'[v] = wk[v]
    BY <1>9 DEF Caller, Admit, Insert, Activate, FailQueued, RequestCancel, SettleCancel, WaitOwner,
       Wake, FailWait, AcknowledgeStop, SettleWait, CallFails, InsertFails, SweepMisses, Adopt
  <1>10. ASSUME BootStep \/ Crash \/ Shutdown \/ Exit PROVE wk'[v] \in {wk[v], Idle}
    BY <1>10 DEF BootStep, RecoverCancellations, SweepRunning, ListHolds, HoldsSwept, SweepUnactivated, SweepHold,
       Crash, Shutdown, Exit, Reset
  <1>11. ASSUME NEW w \in Workers,
                \/ (\E j \in Jobs : Pick(w, j)) \/ Handler(w) \/ Returns(w) \/ RunStep(w)
                \/ ReadFails(w) \/ FinishFails(w) \/ SettleFails(w)
         PROVE  RunInv(v)'
    BY <1>1, <1>4, <1>5, <1>6, <1>7, <1>8, <1>11
  <1>12. ASSUME NEW j \in Jobs,
                \/ Caller(j) \/ Resolver(j) \/ WaitOwner(j) \/ SettleWait(j) \/ CallFails(j)
                \/ InsertFails(j) \/ SweepMisses(j) \/ \E k \in Keys : Adopt(j, k)
         PROVE  RunInv(v)'
    BY <1>1, <1>3, <1>9, <1>12 DEF Resolver
  <1>13. ASSUME BootStep \/ Crash \/ Shutdown \/ Exit PROVE RunInv(v)'
    BY <1>1, <1>2, <1>10, <1>13
  <1> QED
    BY <1>11, <1>12, <1>13 DEF Next, Faulty

-----------------------------------------------------------------------------
(* The theorems. *)

\* The strengthening the theorems below rest on holds in every behaviour: the
\* start, stop, hold and run parts each need the others, because a settlement
\* is right only if the read that authorized it stays true.
THEOREM Invariance == Spec => []IInv
  <1>1. Init => IInv
    BY InitIInv
  <1>2. IInv /\ [Next]_vars => IInv'
    <2>1. ASSUME IInv, Next PROVE IInv'
      <3>1. TypeOK'
        BY <2>1, TypeStep
      <3>2. \A j \in Jobs : StartInv(j)' /\ StopInv(j)' /\ HoldInv(j)'
        BY <2>1, <3>1, StartStep, StopStep, HoldStep
      <3>3. \A w \in Workers : RunInv(w)'
        BY <2>1, <3>1, RunsStep
      <3> QED
        BY <3>1, <3>2, <3>3 DEF IInv
    <2>2. ASSUME IInv, UNCHANGED vars PROVE IInv'
      BY <2>2 DEF IInv, vars, TypeOK, StartInv, StopInv, HoldInv, RunInv, Serving
    <2> QED
      BY <2>1, <2>2
  <1> QED
    BY <1>1, <1>2, PTL DEF Spec

\* Every row, hold, call and run keeps to its type, whatever step comes next.
THEOREM TypeCorrect == Spec => []TypeOK
  <1>1. IInv => TypeOK
    BY DEF IInv
  <1> QED
    BY <1>1, Invariance, PTL

\* No result, failure or sweep overtakes an accepted stop (jobs.sql looks at
\* the request again in every terminal write).
THEOREM StopsDecide == Spec => []StopDecides
  <1>1. IInv => StopDecides
    BY DEF IInv, StopInv, StopDecides
  <1> QED
    BY <1>1, Invariance, PTL

\* Whichever of the four settlers reaches the ledger first, it closes the hold
\* with the status the row ended with.
THEOREM SettlesAsEnded == Spec => []SettledAsEnded
  <1>1. IInv => SettledAsEnded
    BY DEF IInv, HoldInv, SettledAsEnded
  <1> QED
    BY <1>1, Invariance, PTL

\* The queue implements the lifecycle of a start: each initial state maps to
\* one of JobLifecycle's and each step to one of its steps or to a stutter.
THEOREM QueueImplementsLifecycle == Spec => ImplementsLifecycle
  <1>1. Init => Lifecycle!Init
    BY DEF Init, Lifecycle!Init
  <1>2. TypeOK => Lifecycle!TypeOK
    BY DEF TypeOK, Lifecycle!TypeOK, Status, Hold, Terminal, Lifecycle!Status, Lifecycle!Hold,
       Lifecycle!Terminal
  <1>3. IInv /\ IInv' /\ [Next]_vars => [Lifecycle!Next]_Lifecycle!vars
    <2>1. ASSUME IInv, IInv', Next PROVE Lifecycle!Next
      <3>1. Lifecycle!TypeOK'
        BY <2>1 DEF IInv, TypeOK, Lifecycle!TypeOK, Status, Hold, Terminal, Lifecycle!Status,
           Lifecycle!Hold, Lifecycle!Terminal
      <3>2. \A j \in Jobs : Moves(j)
        BY <2>1, MovesStep
      <3> QED
        BY <3>1, <3>2 DEF Lifecycle!Next, Moves
    <2>2. UNCHANGED vars => UNCHANGED Lifecycle!vars
      BY DEF vars, Lifecycle!vars
    <2> QED
      BY <2>1, <2>2
  <1> QED
    BY <1>1, <1>3, Invariance, PTL DEF Spec, ImplementsLifecycle, Lifecycle!Spec

-----------------------------------------------------------------------------
(* Work that was priced before it was queued. *)

HeldInv(j) == HeldAtStart(j) /\ (enq[j] = "held" \/ Active(j)) => hold[j] = "open"

\* Between the hold and the insert, and from the insert to the end, nothing
\* closes the hold: a conflict releases the loser's only, the sweeps and the
\* settlers take ended or absent rows, and no start is half-way during boot.
LEMMA HeldStep ==
    ASSUME IInv, IInv', Next, NEW i \in Jobs, HeldInv(i)
    PROVE  HeldInv(i)'
  <1> USE DEF durable
  <1>0. /\ StartInv(i) /\ hold[i] \in Hold /\ status[i] \in Status /\ Moves(i)
        /\ status \in [Jobs -> Status] /\ hold \in [Jobs -> Hold]
        /\ enq \in [Jobs -> {"new", "held", "over"}] /\ wk \in [Workers -> Worker]
        /\ StartInv(i)' /\ hold'[i] \in Hold /\ status'[i] \in Status
    BY MovesStep DEF IInv, TypeOK
  <1> DEFINE Kept == /\ enq'[i] = enq[i] \/ enq'[i] = "over"
                     /\ status[i] = "absent" => status'[i] = "absent"
                     /\ hold'[i] = hold[i] \/ hold'[i] # "none"
  <1>1. ASSUME NEW j \in Jobs, Admit(j) PROVE HeldInv(i)'
    BY <1>0, <1>1 DEF Admit, HeldInv, Active, StartInv
  <1>2. ASSUME NEW j \in Jobs, Insert(j) PROVE HeldInv(i)'
    BY <1>0, <1>2 DEF Insert, ConflictReleased, Released, HeldInv, Active, StartInv
  <1>3. ASSUME NEW j \in Jobs, SweepHold(j) PROVE HeldInv(i)'
    BY <1>0, <1>3 DEF SweepHold, Sweeps, SweepFinds, Released, Settled, HeldInv, Active, StartInv, Serving
  <1>4. ASSUME Kept PROVE HeldInv(i)'
    BY <1>0, <1>4 DEF HeldInv, Active, Moves, Lifecycle!StatusMoves, Lifecycle!HoldMoves, StartInv,
       Status, Hold, Terminal, Lifecycle!Terminal
  <1>5. ASSUME NEW j \in Jobs, Caller(j), ~Admit(j), ~Insert(j) PROVE Kept
    BY <1>0, <1>5 DEF Caller, Activate, FailQueued, RequestCancel, Active
  <1>6. ASSUME NEW j \in Jobs,
               Resolver(j) \/ WaitOwner(j) \/ SettleWait(j) \/ \E k \in Keys : Adopt(j, k)
        PROVE  Kept
    BY <1>0, <1>6 DEF Adopt, Resolver, ResolveCancel, SettleCancel, WaitOwner, Wake, FailWait,
       AcknowledgeStop, Pending, SettleWait, Settled, IInv, HoldInv, Terminal
  <1>7. ASSUME NEW w \in Workers, Handler(w) \/ Returns(w) \/ \E j \in Jobs : Pick(w, j) PROVE Kept
    BY <1>0, <1>7 DEF Handler, Reserve, Commit, Park, Returns, HandlerReturn, Pick, Runnable
  <1>8. ASSUME NEW w \in Workers, RunStep(w) PROVE Kept
    <2>1. CASE Finish(w)
      BY <1>0, <2>1 DEF Finish, Finished
    <2>2. CASE Settle(w)
      <3>1. wk[w].want \in Terminal
        BY <1>0 DEF Worker
      <3> QED
        BY <1>0, <2>2, <3>1 DEF Settle, Settled, Terminal
    <2> QED
      BY <1>8, <2>1, <2>2 DEF RunStep, Register, CheckStop, CheckPending, CheckYield, ReadPersisted, Reread
  <1>9. ASSUME Faulty, \A j \in Jobs : ~InsertFails(j) PROVE Kept
    BY <1>0, <1>9 DEF Faulty, ReadFails, FinishFails, Finished, SettleFails, CallFails, SweepMisses
  <1>10. ASSUME BootStep, \A j \in Jobs : ~SweepHold(j) PROVE Kept
    BY <1>0, <1>10 DEF BootStep, RecoverCancellations, SweepRunning, ListHolds, HoldsSwept, SweepUnactivated, Active
  <1>11. ASSUME Crash \/ Shutdown \/ Exit PROVE Kept
    BY <1>0, <1>11 DEF Crash, Shutdown, Exit, Reset
  <1>12. ASSUME NEW j \in Jobs, InsertFails(j) PROVE HeldInv(i)'
    <2>1. /\ enq' = [enq EXCEPT ![j] = "over"] /\ UNCHANGED status /\ status[j] = "absent"
          /\ \A k \in Jobs : k # j => hold'[k] = hold[k]
      BY <1>0, <1>12 DEF InsertFails, Released, IInv, StartInv
    <2> QED
      BY <1>0, <2>1 DEF HeldInv, Active
  <1> QED
    BY <1>1, <1>2, <1>3, <1>4, <1>5, <1>6, <1>7, <1>8, <1>9, <1>10, <1>11, <1>12 DEF Next, BootStep

\* Work that was priced before it was queued is never queued or running
\* without its hold.
THEOREM HeldThroughout == Spec => []HeldWhileActive
  <1> DEFINE Held == \A j \in Jobs : HeldInv(j)
  <1>1. Init => Held
    BY DEF Init, HeldInv, Active
  <1>2. IInv /\ IInv' /\ Held /\ [Next]_vars => Held'
    <2>1. ASSUME UNCHANGED vars, NEW j \in Jobs, HeldInv(j) PROVE HeldInv(j)'
      BY <2>1 DEF vars, HeldInv, Active
    <2> QED
      BY <2>1, HeldStep
  <1>3. Held => HeldWhileActive
    BY DEF HeldInv, HeldWhileActive
  <1> QED
    BY <1>1, <1>2, <1>3, Invariance, PTL DEF Spec
=============================================================================
