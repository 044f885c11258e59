----------------------- MODULE JobQueueServingProofs -----------------------
(***************************************************************************)
(* Theorems about the queue while it serves: nobody leaves a hold behind,  *)
(* a stop reaches the handler, and, with the one worker the process runs,  *)
(* nobody works on or ends a job that is not his.  They rest on the        *)
(* invariant of JobQueueProofs.                                            *)
(***************************************************************************)
EXTENDS JobQueueProofs

-----------------------------------------------------------------------------
(* Who moves what. *)

\* A worker's record is written by its own steps, by a Cancel call's signal,
\* and by a restart.
OwnStep(v) == \/ \E j \in Jobs : Pick(v, j)
              \/ Handler(v) \/ Returns(v) \/ RunStep(v)
              \/ ReadFails(v) \/ FinishFails(v) \/ SettleFails(v)

LEMMA OthersStep ==
    ASSUME IInv, NEW v \in Workers, NEW w \in Workers \ {v}, OwnStep(w)
    PROVE  wk'[v] = wk[v]
  <1> USE DEF durable
  <1>0. wk \in [Workers -> Worker]
    BY DEF IInv, TypeOK
  <1>1. CASE (\E j \in Jobs : Pick(w, j)) \/ Handler(w) \/ Returns(w)
    BY <1>0, <1>1 DEF Pick, Handler, Reserve, Commit, Park, Returns, HandlerReturn
  <1>2. CASE RunStep(w)
    BY <1>0, <1>2 DEF RunStep, Register, CheckStop, CheckPending, CheckYield, ReadPersisted,
       Finish, Reread, Settle, Leave, Goto
  <1>3. CASE ReadFails(w) \/ FinishFails(w) \/ SettleFails(w)
    BY <1>0, <1>3 DEF ReadFails, FinishFails, SettleFails, Leave, Goto
  <1> QED
    BY <1>1, <1>2, <1>3 DEF OwnStep

\* The steps that write no worker's record.
Aside == \/ \E j \in Jobs : \/ Caller(j) \/ SettleCancel(j) \/ WaitOwner(j) \/ SettleWait(j) \/ CallFails(j)
                            \/ InsertFails(j) \/ SweepMisses(j) \/ \E k \in Keys : Adopt(j, k)
         \/ BootStep \/ Shutdown

LEMMA AsideStep == ASSUME Aside PROVE wk' = wk
  BY DEF Aside, Caller, Admit, Insert, Activate, FailQueued, RequestCancel, SettleCancel, WaitOwner,
     Wake, FailWait, AcknowledgeStop, SettleWait, CallFails, InsertFails, SweepMisses, Adopt, BootStep, RecoverCancellations,
     SweepRunning, ListHolds, HoldsSwept, SweepUnactivated, SweepHold, Shutdown

LEMMA Parties ==
    ASSUME Next
    PROVE  \/ \E w \in Workers : OwnStep(w)
           \/ \E j \in Jobs : ResolveCancel(j)
           \/ Aside
           \/ Crash \/ Exit
  BY DEF Next, OwnStep, Aside, Resolver, Faulty

-----------------------------------------------------------------------------
(* A stop reaches the handler. *)

\* A handler starts with nothing returned and nothing done, and only clip work
\* commits its own result; such a handler does not yield.
RunForm(w) ==
    /\ wk[w].pc \in {"register", "check", "handler"} => wk[w].err = "nil"
    /\ wk[w].did = "committed" => Resumable(wk[w].job) /\ wk[w].err # "yield"

\* A stop is either being resolved, or has reached the handler.
Told(w) == LET j == wk[w].job IN
    faults = 0 /\ wk[w].pc = "handler" /\ cancelReq[j] => wk[w].sig \/ canceller[j] = "resolve"

\* A Cancel call is resolved only after its request was written; clip work
\* holds nothing before it runs.
Asked(j)   == canceller[j] = "resolve" => cancelReq[j]
Unpriced(j) == ~HeldAtStart(j) /\ status[j] \in {"absent", "queued"} => hold[j] # "open"

LEMMA FormStep ==
    ASSUME IInv, Next, NEW v \in Workers, RunForm(v)
    PROVE  RunForm(v)'
  <1> USE DEF durable
  <1>0. wk \in [Workers -> Worker] /\ wk[v] \in Worker
    BY DEF IInv, TypeOK
  <1>1. CASE wk'[v] = wk[v]
    BY <1>1 DEF RunForm
  <1>2. CASE wk'[v] = Idle
    BY <1>2 DEF RunForm, Idle
  <1>3. ASSUME NEW j \in Jobs, ResolveCancel(j) PROVE RunForm(v)'
    BY <1>0, <1>3 DEF ResolveCancel, RunForm, Worker
  <1>4. ASSUME NEW j \in Jobs, Pick(v, j) PROVE RunForm(v)'
    BY <1>0, <1>4 DEF Pick, RunForm, Idle
  <1>5. CASE Handler(v)
    BY <1>0, <1>5 DEF Handler, Reserve, Commit, Park, RunForm, Worker
  <1>6. CASE Returns(v)
    BY <1>0, <1>6 DEF Returns, HandlerReturn, RunForm, Worker
  <1>7. CASE RunStep(v)
    <2>1. CASE Register(v)
      BY <1>0, <2>1 DEF Register, RunForm, Worker
    <2>2. CASE CheckStop(v)
      BY <1>0, <2>2 DEF CheckStop, RunForm, Worker
    <2>3. CASE CheckPending(v)
      <3>1. CASE wk' = Leave(v)
        BY <1>0, <1>2, <3>1 DEF Leave
      <3>2. CASE wk' # Leave(v)
        <4>1. wk' \in {Goto(v, "yield"), Goto(v, "persisted"),
                        [wk EXCEPT ![v].pc = "finish", ![v].want = Outcome(wk[v].err, FALSE)]}
          BY <2>3, <3>2 DEF CheckPending
        <4>2. /\ wk'[v].did = wk[v].did /\ wk'[v].job = wk[v].job /\ wk'[v].err = wk[v].err
              /\ wk'[v].pc \in {"yield", "persisted", "finish"}
          <5>1. CASE wk' = Goto(v, "yield")
            BY <1>0, <5>1 DEF Goto, Worker
          <5>2. CASE wk' = Goto(v, "persisted")
            BY <1>0, <5>2 DEF Goto, Worker
          <5>3. CASE wk' = [wk EXCEPT ![v].pc = "finish", ![v].want = Outcome(wk[v].err, FALSE)]
            BY <1>0, <5>3 DEF Worker
          <5> QED
            BY <4>1, <5>1, <5>2, <5>3
        <4> QED
          BY <4>2 DEF RunForm
      <3> QED
        BY <3>1, <3>2
    <2>4. CASE CheckYield(v)
      BY <1>0, <1>2, <2>4 DEF CheckYield, Leave, RunForm, Worker
    <2>5. CASE ReadPersisted(v)
      <3>1. CASE wk' = Leave(v)
        BY <1>0, <1>2, <3>1 DEF Leave
      <3>2. CASE wk' # Leave(v)
        <4>1. wk' = [wk EXCEPT ![v].want = Outcome(wk[v].err, cancelReq[wk[v].job]),
                               ![v].pc = IF status[wk[v].job] \in Terminal THEN "reread" ELSE "finish"]
          BY <2>5, <3>2 DEF ReadPersisted
        <4> QED
          BY <1>0, <4>1 DEF RunForm, Worker
      <3> QED
        BY <3>1, <3>2
    <2>6. CASE Finish(v)
      BY <1>0, <2>6 DEF Finish, Goto, RunForm, Worker
    <2>7. CASE Reread(v)
      BY <1>0, <1>2, <2>7 DEF Reread, Leave, RunForm, Worker
    <2>8. CASE Settle(v)
      BY <1>0, <1>2, <2>8 DEF Settle, Leave
    <2> QED
      BY <1>7, <2>1, <2>2, <2>3, <2>4, <2>5, <2>6, <2>7, <2>8 DEF RunStep
  <1>8. CASE ReadFails(v) \/ FinishFails(v) \/ SettleFails(v)
    <2>1. CASE wk' = Leave(v)
      BY <1>0, <1>2, <2>1 DEF Leave
    <2>2. CASE wk' # Leave(v)
      BY <1>0, <1>8, <2>2 DEF ReadFails, FinishFails, SettleFails, Goto, RunForm, Worker
    <2> QED
      BY <2>1, <2>2
  <1>9. ASSUME NEW w \in Workers, OwnStep(w) PROVE RunForm(v)'
    BY <1>1, <1>4, <1>5, <1>6, <1>7, <1>8, <1>9, OthersStep DEF OwnStep
  <1>10. CASE Crash \/ Exit
    BY <1>2, <1>10 DEF Crash, Exit, Reset
  <1>11. CASE Aside
    BY <1>1, <1>11, AsideStep
  <1> QED
    BY <1>3, <1>9, <1>10, <1>11, Parties

LEMMA AskedStep ==
    ASSUME IInv, Next, NEW i \in Jobs, Asked(i)
    PROVE  Asked(i)'
  <1> USE DEF durable
  <1>0. Moves(i) /\ canceller \in [Jobs -> {"idle", "resolve", "settle"}] /\ cancelReq \in [Jobs -> BOOLEAN]
    BY MovesStep DEF IInv, TypeOK
  <1>1. CASE canceller'[i] \in {canceller[i], "idle", "settle"}
    BY <1>0, <1>1 DEF Asked, Moves, Lifecycle!StopMoves
  <1>2. ASSUME NEW j \in Jobs, RequestCancel(j) PROVE Asked(i)'
    BY <1>0, <1>2 DEF RequestCancel, Asked
  <1>3. ASSUME NEW j \in Jobs, ResolveCancel(j) PROVE Asked(i)'
    BY <1>0, <1>1, <1>3 DEF ResolveCancel
  <1>4. ASSUME NEW w \in Workers, OwnStep(w) PROVE canceller' = canceller
    BY <1>4 DEF OwnStep, Pick, Handler, Reserve, Commit, Park, Returns, HandlerReturn, RunStep, Register, CheckStop,
       CheckPending, CheckYield, ReadPersisted, Finish, Reread, Settle, ReadFails, FinishFails, SettleFails
  <1>5. CASE Crash \/ Exit
    BY <1>1, <1>5 DEF Crash, Exit, Reset
  <1>6. ASSUME Aside, \A j \in Jobs : ~RequestCancel(j) PROVE canceller'[i] \in {canceller[i], "idle"}
    BY <1>0, <1>6 DEF Aside, Caller, Admit, Insert, Activate, FailQueued, SettleCancel, WaitOwner,
     Wake, FailWait, AcknowledgeStop, SettleWait, CallFails, InsertFails, SweepMisses, Adopt, BootStep, RecoverCancellations,
     SweepRunning, ListHolds, HoldsSwept, SweepUnactivated, SweepHold, Shutdown
  <1> QED
    BY <1>1, <1>2, <1>3, <1>4, <1>5, <1>6, Parties

\* A failed call is counted.
LEMMA FaultsUp == ASSUME IInv, Fault PROVE faults' # 0
  BY BoundsAssumption DEF IInv, TypeOK, Fault

\* No failed call counts down.
LEMMA FaultsStep == ASSUME IInv, Next PROVE faults' = faults \/ faults' # 0
  <1>1. Fault => faults' # 0
    BY FaultsUp
  <1>2. Faulty => Fault
    BY DEF Faulty, ReadFails, FinishFails, SettleFails, CallFails, InsertFails, SweepMisses
  <1>3. ASSUME NEW w \in Workers, NEW j \in Jobs,
               Pick(w, j) \/ Handler(w) \/ Returns(w) \/ RunStep(w)
        PROVE faults' = faults
    BY <1>3 DEF Pick, Handler, Reserve, Commit, Park, Returns, HandlerReturn, RunStep, Register, CheckStop,
       CheckPending, CheckYield, ReadPersisted, Finish, Reread, Settle
  <1>3a. ASSUME NEW w \in Workers, Handler(w) \/ Returns(w) \/ RunStep(w)
        PROVE faults' = faults
    BY <1>3a DEF Handler, Reserve, Commit, Park, Returns, HandlerReturn, RunStep, Register, CheckStop,
       CheckPending, CheckYield, ReadPersisted, Finish, Reread, Settle
  <1>4. ASSUME NEW j \in Jobs, Caller(j) \/ Resolver(j) \/ WaitOwner(j) \/ SettleWait(j) \/ \E k \in Keys : Adopt(j, k)
        PROVE faults' = faults
    BY <1>4 DEF Caller, Admit, Insert, Activate, FailQueued, RequestCancel, Resolver, ResolveCancel, SettleCancel,
       WaitOwner, Wake, FailWait, AcknowledgeStop, SettleWait, Adopt
  <1>5. CASE BootStep \/ Shutdown \/ Crash \/ Exit
    BY <1>5 DEF BootStep, RecoverCancellations, SweepRunning, ListHolds, HoldsSwept, SweepUnactivated, SweepHold, Shutdown,
       Crash, Exit, Reset
  <1> QED
    BY <1>1, <1>2, <1>3, <1>3a, <1>4, <1>5 DEF Next

\* A stop is told to the handler by the call that resolves it, or seen by the
\* read the run makes once it is registered.
LEMMA ToldStep ==
    ASSUME IInv, Next, NEW v \in Workers, Told(v), faults' = 0
    PROVE  Told(v)'
  <1> USE DEF durable
  <1>0. /\ wk \in [Workers -> Worker] /\ wk[v] \in Worker /\ faults = 0
        /\ canceller \in [Jobs -> {"idle", "resolve", "settle"}] /\ cancelReq \in [Jobs -> BOOLEAN]
        /\ wk[v].pc # "idle" => wk[v].job \in Jobs
    BY FaultsStep DEF IInv, TypeOK, RunInv
  <1>1. CASE wk'[v] = wk[v] /\ cancelReq' = cancelReq /\ canceller' = canceller
    BY <1>0, <1>1 DEF Told
  <1>2. CASE wk'[v].pc # "handler"
    BY <1>2 DEF Told
  <1>3. ASSUME NEW j \in Jobs, ResolveCancel(j) PROVE Told(v)'
    <2>1. CASE wk[v].job = j /\ wk[v].pc = "handler"
      BY <1>0, <1>3, <2>1 DEF ResolveCancel, Registered, Told, Worker
    <2>2. CASE wk[v].pc # "handler"
      BY <1>0, <1>2, <1>3, <2>2 DEF ResolveCancel, Worker
    <2>3. CASE wk[v].job # j /\ wk[v].pc = "handler"
      <3>1. wk'[v] = wk[v] /\ cancelReq' = cancelReq /\ canceller'[wk[v].job] = canceller[wk[v].job]
        BY <1>0, <1>3, <2>3 DEF ResolveCancel, Registered
      <3> QED
        BY <1>0, <3>1 DEF Told
    <2> QED
      BY <2>1, <2>2, <2>3
  <1>4. ASSUME NEW j \in Jobs, Pick(v, j) PROVE Told(v)'
    BY <1>0, <1>4 DEF Pick, Runnable, Told, Idle
  <1>5. CASE Handler(v)
    BY <1>0, <1>5 DEF Handler, Reserve, Commit, Park, Told, Worker
  <1>6. CASE Returns(v)
    BY <1>0, <1>2, <1>6 DEF Returns, HandlerReturn, Worker
  <1>7. CASE RunStep(v)
    <2>1. CASE CheckStop(v)
      BY <1>0, <2>1 DEF CheckStop, StopSeen, Told, Worker
    <2>2. CASE RunStep(v) /\ ~CheckStop(v)
      <3>1. CASE Register(v) \/ Finish(v) \/ Reread(v) \/ Settle(v) \/ CheckYield(v)
        BY <1>0, <1>2, <3>1 DEF Register, Finish, Reread, Settle, CheckYield, Goto, Leave, Idle, Worker
      <3>2. CASE CheckPending(v)
        BY <1>0, <1>2, <3>2 DEF CheckPending, Goto, Leave, Idle, Worker
      <3>3. CASE ReadPersisted(v)
        BY <1>0, <1>2, <3>3 DEF ReadPersisted, Leave, Idle, Worker
      <3> QED
        BY <2>2, <3>1, <3>2, <3>3 DEF RunStep
    <2> QED
      BY <1>7, <2>1, <2>2
  <1>8. CASE ReadFails(v) \/ FinishFails(v) \/ SettleFails(v)
    BY <1>0, <1>2, <1>8 DEF ReadFails, FinishFails, SettleFails, Goto, Leave, Idle, Worker
  <1>9. ASSUME NEW w \in Workers, OwnStep(w), w # v PROVE Told(v)'
    <2>1. cancelReq' = cancelReq /\ canceller' = canceller
      BY <1>9 DEF OwnStep, Pick, Handler, Reserve, Commit, Park, Returns, HandlerReturn, RunStep, Register, CheckStop,
         CheckPending, CheckYield, ReadPersisted, Finish, Reread, Settle, ReadFails, FinishFails, SettleFails
    <2> QED
      BY <1>1, <1>9, <2>1, OthersStep
  <1>10. CASE Crash \/ Exit
    BY <1>2, <1>10 DEF Crash, Exit, Reset, Idle
  <1>11. CASE Aside
    <2>0. wk' = wk
      BY <1>11, AsideStep
    <2>1. ASSUME NEW j \in Jobs, RequestCancel(j) PROVE Told(v)'
      BY <1>0, <2>0, <2>1 DEF RequestCancel, Told
    <2>2. ASSUME NEW j \in Jobs, SettleCancel(j) PROVE Told(v)'
      BY <1>0, <2>0, <2>2 DEF SettleCancel, Told
    <2>3. ASSUME NEW j \in Jobs PROVE ~CallFails(j) /\ ~InsertFails(j) /\ ~SweepMisses(j)
      BY <1>0 DEF CallFails, InsertFails, SweepMisses, Fault
    <2>4. ASSUME \A j \in Jobs : ~RequestCancel(j) /\ ~SettleCancel(j) /\ ~CallFails(j) /\ ~InsertFails(j) /\ ~SweepMisses(j)
          PROVE  canceller' = canceller /\ cancelReq' = cancelReq
      BY <1>11, <2>4 DEF Aside, Caller, Admit, Insert, Activate, FailQueued, WaitOwner,
         Wake, FailWait, AcknowledgeStop, SettleWait, Adopt, BootStep, RecoverCancellations,
         SweepRunning, ListHolds, HoldsSwept, SweepUnactivated, SweepHold, Shutdown
    <2> QED
      BY <1>1, <2>0, <2>1, <2>2, <2>3, <2>4
  <1>12. ASSUME NEW w \in Workers, OwnStep(w) PROVE Told(v)'
    BY <1>4, <1>5, <1>6, <1>7, <1>8, <1>9, <1>12 DEF OwnStep
  <1> QED
    BY <1>3, <1>10, <1>11, <1>12, Parties

\* Once a Cancel call has returned, every handler still at work on its job has
\* been signalled, with any number of workers.
THEOREM StopsReachHandlers == Spec => []StopReachesHandler
  <1> DEFINE Tells == faults = 0 => \A w \in Workers : Told(w)
  <1>1. Init => Tells
    BY DEF Init, Told, Idle
  <1>2. IInv /\ Tells /\ [Next]_vars => Tells'
    <2>1. ASSUME IInv, Tells, Next PROVE Tells'
      BY <2>1, ToldStep, FaultsStep
    <2>2. ASSUME Tells, UNCHANGED vars PROVE Tells'
      BY <2>2 DEF vars, Told
    <2> QED
      BY <2>1, <2>2
  <1>3. Tells => StopReachesHandler
    BY DEF Told, StopReachesHandler
  <1> QED
    BY <1>1, <1>2, <1>3, Invariance, PTL DEF Spec

-----------------------------------------------------------------------------
(* What a boot leaves behind. *)

\* The steps that move the process through its boot and into its shutdown.
Onwards == \/ RecoverCancellations \/ SweepRunning \/ ListHolds \/ HoldsSwept \/ SweepUnactivated
           \/ Shutdown

LEMMA PhaseStep == ASSUME Next, ~Onwards, ~Crash, ~Exit PROVE phase' = phase
  <1>1. ASSUME NEW w \in Workers, OwnStep(w) PROVE phase' = phase
    BY <1>1 DEF OwnStep, Pick, Handler, Reserve, Commit, Park, Returns, HandlerReturn, RunStep, Register, CheckStop,
       CheckPending, CheckYield, ReadPersisted, Finish, Reread, Settle, ReadFails, FinishFails, SettleFails
  <1>2. ASSUME NEW j \in Jobs, ResolveCancel(j) PROVE phase' = phase
    BY <1>2 DEF ResolveCancel
  <1>3. ASSUME NEW j \in Jobs,
               \/ Caller(j) \/ SettleCancel(j) \/ WaitOwner(j) \/ SettleWait(j) \/ CallFails(j) \/ SweepHold(j)
               \/ InsertFails(j) \/ SweepMisses(j) \/ \E k \in Keys : Adopt(j, k)
        PROVE  phase' = phase
    BY <1>3 DEF Caller, Admit, Insert, Activate, FailQueued, RequestCancel, SettleCancel, WaitOwner, Wake, FailWait,
       AcknowledgeStop, SettleWait, CallFails, InsertFails, SweepMisses, Adopt, SweepHold
  <1> QED
    BY <1>1, <1>2, <1>3, Parties DEF Onwards, Aside, BootStep

\* Workers run only in a process that serves.
OffDuty(w) == wk[w].pc # "idle" => Serving

LEMMA OffDutyStep ==
    ASSUME IInv, Next, NEW v \in Workers, OffDuty(v)
    PROVE  OffDuty(v)'
  <1>0. wk \in [Workers -> Worker]
    BY DEF IInv, TypeOK
  <1>1. CASE Onwards
    <2>1. wk' = wk
      BY <1>1, AsideStep DEF Onwards, Aside, BootStep
    <2>2. Serving => Serving'
      BY <1>1 DEF Onwards, RecoverCancellations, SweepRunning, ListHolds, HoldsSwept, SweepUnactivated, Shutdown, Serving
    <2> QED
      BY <2>1, <2>2 DEF OffDuty
  <1>2. CASE Crash \/ Exit
    BY <1>2 DEF Crash, Exit, Reset, Idle, OffDuty
  <1>3. CASE ~Onwards /\ ~Crash /\ ~Exit
    <2>1. phase' = phase
      BY <1>3, PhaseStep
    <2>2. wk[v].pc # "idle" \/ wk'[v].pc = "idle" \/ phase = "up"
      <3>1. ASSUME NEW j \in Jobs, ResolveCancel(j) PROVE wk'[v].pc = wk[v].pc
        BY <1>0, <3>1 DEF ResolveCancel, Worker
      <3>2. ASSUME NEW w \in Workers, OwnStep(w), w # v PROVE wk'[v] = wk[v]
        BY <3>2, OthersStep
      <3>3. CASE OwnStep(v)
        BY <3>3 DEF OwnStep, Pick, Handler, Reserve, Commit, Park, Returns, HandlerReturn, RunStep, Register, CheckStop,
           CheckPending, CheckYield, ReadPersisted, Finish, Reread, Settle, ReadFails, FinishFails, SettleFails
      <3> QED
        BY <1>3, <3>1, <3>2, <3>3, AsideStep, Parties
    <2> QED
      BY <2>1, <2>2 DEF OffDuty, Serving
  <1> QED
    BY <1>1, <1>2, <1>3

\* The last sweep still has before it, or has missed, every hold that is loose.
SweepInv(j) ==
    /\ phase = "holds2" /\ Loose(j) => sweeper[j] # "idle"
    /\ sweeper[j] = "missed" => faults # 0

\* Nothing else runs while the sweep goes through its list, so a hold that is
\* loose when it is done was listed, and every listed one was settled, missed
\* or passed over because its job lives.
LEMMA SweepStep ==
    ASSUME IInv, Next, \A w \in Workers : OffDuty(w), NEW i \in Jobs, SweepInv(i)
    PROVE  SweepInv(i)'
  <1> USE DEF durable
  <1>0. /\ hold \in [Jobs -> Hold] /\ status \in [Jobs -> Status] /\ wk \in [Workers -> Worker]
        /\ sweeper \in [Jobs -> {"idle", "listed", "missed"}] /\ \A j \in Jobs : HoldInv(j)
        /\ faults' = faults \/ faults' # 0
    BY FaultsStep DEF IInv, TypeOK
  <1> DEFINE Same == hold'[i] = hold[i] /\ status'[i] = status[i]
  <1>1. CASE UNCHANGED sweeper /\ (phase' # "holds2" \/ (phase = "holds2" /\ (Same \/ ~Loose(i)')))
    BY <1>0, <1>1 DEF SweepInv, Loose
  <1>2. CASE ListHolds
    BY <1>2 DEF ListHolds, SweepInv, Loose
  <1>3. CASE HoldsSwept
    BY <1>3 DEF HoldsSwept, SweepInv
  <1>4. CASE RecoverCancellations \/ SweepRunning \/ SweepUnactivated \/ Shutdown
    BY <1>1, <1>4 DEF RecoverCancellations, SweepRunning, SweepUnactivated, AfterUnactivated, Shutdown
  <1>5. CASE Crash \/ Exit
    BY <1>5 DEF Crash, Exit, Reset, SweepInv
  <1>6. CASE ~Onwards /\ ~Crash /\ ~Exit
    <2>0. phase' = phase
      BY <1>6, PhaseStep
    <2>1. ASSUME NEW j \in Jobs, SweepHold(j) PROVE SweepInv(i)'
      <3>1. CASE j = i
        <4>1. sweeper'[i] = "idle" /\ ~Loose(i)'
          BY <1>0, <2>1, <3>1
          DEF SweepHold, SweepFinds, Active, Released, Settled, Loose, Status, Terminal
        <4> QED
          BY <4>1 DEF SweepInv
      <3>2. CASE j # i
        <4>1. Same /\ sweeper'[i] = sweeper[i] /\ faults' = faults
          BY <1>0, <2>1, <3>2 DEF SweepHold, Released, Settled
        <4> QED
          BY <2>0, <4>1 DEF SweepInv, Loose
      <3> QED
        BY <3>1, <3>2
    <2>2. ASSUME NEW j \in Jobs, SweepMisses(j) PROVE SweepInv(i)'
      <3>1. faults' # 0 /\ Same /\ sweeper'[i] \in {sweeper[i], "missed"}
        BY <1>0, <2>2, FaultsUp DEF SweepMisses
      <3> QED
        BY <2>0, <3>1 DEF SweepInv, Loose
    <2>3. ASSUME NEW w \in Workers, OwnStep(w) PROVE SweepInv(i)'
      <3>1. UNCHANGED sweeper
        BY <2>3 DEF OwnStep, Pick, Handler, Reserve, Commit, Park, Returns, HandlerReturn, RunStep, Register, CheckStop,
           CheckPending, CheckYield, ReadPersisted, Finish, Reread, Settle, ReadFails, FinishFails, SettleFails
      <3>2. wk[w].pc # "idle" \/ phase = "up"
        BY <2>3 DEF OwnStep, Pick, Handler, Reserve, Commit, Park, Returns, HandlerReturn, RunStep, Register, CheckStop,
           CheckPending, CheckYield, ReadPersisted, Finish, Reread, Settle, ReadFails, FinishFails, SettleFails
      <3> QED
        BY <1>1, <2>0, <3>1, <3>2 DEF OffDuty, Serving
    <2>4. ASSUME NEW j \in Jobs, Caller(j) \/ WaitOwner(j) \/ \E k \in Keys : Adopt(j, k) PROVE SweepInv(i)'
      <3>1. UNCHANGED sweeper /\ phase # "holds2"
        BY <2>4 DEF Caller, Admit, Insert, Activate, FailQueued, RequestCancel, WaitOwner, Wake, FailWait,
           AcknowledgeStop, Adopt, Serving, WaitOwnerRuns
      <3> QED
        BY <1>1, <2>0, <3>1
    <2>5. ASSUME NEW j \in Jobs, ResolveCancel(j) \/ CallFails(j) PROVE SweepInv(i)'
      BY <1>1, <2>0, <2>5 DEF ResolveCancel, CallFails
    <2>6. ASSUME NEW j \in Jobs, SettleCancel(j) \/ SettleWait(j) PROVE SweepInv(i)'
      <3>1. UNCHANGED sweeper /\ status' = status /\ (hold'[i] = hold[i] \/ hold'[i] \in Terminal)
        BY <1>0, <2>6 DEF SettleCancel, SettleWait, Settled, HoldInv, Terminal
      <3>2. hold'[i] \in Terminal => ~Loose(i)'
        BY DEF Loose, Terminal
      <3> QED
        BY <1>1, <2>0, <3>1, <3>2
    <2>7. ASSUME NEW j \in Jobs, InsertFails(j) PROVE SweepInv(i)'
      <3>1. UNCHANGED sweeper /\ phase # "holds2"
        BY <2>7 DEF InsertFails, Serving
      <3> QED
        BY <1>1, <2>0, <3>1
    <2> QED
      BY <1>6, <2>1, <2>2, <2>3, <2>4, <2>5, <2>6, <2>7, Parties DEF Onwards, Aside, BootStep
  <1> QED
    BY <1>2, <1>3, <1>4, <1>5, <1>6 DEF Onwards

\* A boot leaves open only the holds whose own settlement failed in its last
\* sweep: whatever was loose when that sweep began was on its list, nothing
\* becomes loose while it runs, and a failure costs the one hold it happens on.
THEOREM BootsCloseHolds == Spec => BootClosesHolds
  <1> DEFINE Swept == /\ \A w \in Workers : OffDuty(w)
                      /\ \A j \in Jobs : SweepInv(j)
             Step  == phase # "up" /\ phase' = "up" => \A j \in Jobs : Loose(j)' => sweeper[j] = "missed"
  <1>1. Init => Swept
    BY DEF Init, OffDuty, Idle, SweepInv
  <1>2. IInv /\ Swept /\ [Next]_vars => Swept'
    <2>1. ASSUME IInv, Swept, Next PROVE Swept'
      BY <2>1, OffDutyStep, SweepStep
    <2>2. ASSUME Swept, UNCHANGED vars PROVE Swept'
      BY <2>2 DEF vars, OffDuty, SweepInv, Loose, Serving
    <2> QED
      BY <2>1, <2>2
  <1>3. ASSUME IInv, Swept, Next, phase # "up", phase' = "up", NEW j \in Jobs, Loose(j)'
        PROVE  sweeper[j] = "missed"
    <2>1. HoldsSwept
      BY <1>3, PhaseStep DEF Onwards, RecoverCancellations, SweepRunning, ListHolds, SweepUnactivated, AfterUnactivated,
         Shutdown, Crash, Exit, Reset
    <2>2. phase = "holds2" /\ Loose(j) /\ sweeper[j] # "listed"
      BY <1>3, <2>1 DEF HoldsSwept, durable, Loose
    <2> QED
      BY <1>3, <2>2 DEF SweepInv, IInv, TypeOK
  <1>4. IInv /\ Swept /\ [Next]_vars => [Step]_vars
    BY <1>3 DEF vars
  <1> QED
    BY <1>1, <1>2, <1>4, Invariance, PTL DEF Spec, BootClosesHolds

-----------------------------------------------------------------------------
(* Nobody leaves a hold behind. *)

\* Clip work holds nothing before a worker runs it, so a clip start that is
\* failed in the queue leaves no hold (FailQueued settles nothing).
LEMMA UnpricedStep ==
    ASSUME IInv, Next, NEW i \in Jobs, Unpriced(i)
    PROVE  Unpriced(i)'
  <1> USE DEF durable
  <1>0. /\ status \in [Jobs -> Status] /\ hold \in [Jobs -> Hold] /\ Moves(i)
        /\ status[i] \in Status /\ hold[i] \in Hold /\ wk \in [Workers -> Worker]
    BY MovesStep DEF IInv, TypeOK
  <1>1. CASE hold'[i] = hold[i] /\ (status'[i] \in {"absent", "queued"} => status[i] \in {"absent", "queued"})
    BY <1>1 DEF Unpriced
  <1>2. CASE hold'[i] # "open"
    BY <1>2 DEF Unpriced
  <1>3. status'[i] \in {"absent", "queued"} => status[i] \in {"absent", "queued"}
    BY <1>0 DEF Moves, Lifecycle!StatusMoves, Status, Terminal, Lifecycle!Terminal
  <1>4. ASSUME NEW j \in Jobs, Admit(j) PROVE Unpriced(i)'
    BY <1>0, <1>3, <1>4 DEF Admit, Unpriced
  <1>5. ASSUME NEW j \in Jobs, Insert(j) PROVE Unpriced(i)'
    BY <1>0, <1>1, <1>2, <1>3, <1>5 DEF Insert, ConflictReleased, Released
  <1>6. ASSUME NEW w \in Workers, Reserve(w) PROVE Unpriced(i)'
    BY <1>0, <1>1, <1>3, <1>6 DEF Reserve, Unpriced
  <1>7. ASSUME NEW j \in Jobs, SettleCancel(j) PROVE Unpriced(i)'
    BY <1>0, <1>1, <1>2, <1>3, <1>7 DEF SettleCancel, Settled
  <1>8. ASSUME NEW j \in Jobs, SettleWait(j) PROVE Unpriced(i)'
    BY <1>0, <1>1, <1>2, <1>3, <1>8 DEF SettleWait, Settled, IInv, HoldInv, Terminal
  <1>9. ASSUME NEW w \in Workers, Settle(w) PROVE Unpriced(i)'
    BY <1>0, <1>1, <1>2, <1>3, <1>9 DEF Settle, Settled, Worker, Terminal
  <1>10. ASSUME NEW j \in Jobs, SweepHold(j) PROVE Unpriced(i)'
    BY <1>0, <1>1, <1>2, <1>3, <1>10 DEF SweepHold, SweepFinds, Active, Released, Settled, Status, Terminal
  <1>11. ASSUME NEW j \in Jobs, InsertFails(j) PROVE Unpriced(i)'
    BY <1>0, <1>1, <1>2, <1>3, <1>11 DEF InsertFails, Released
  <1>12. ASSUME \A j \in Jobs : /\ ~Admit(j) /\ ~Insert(j) /\ ~InsertFails(j) /\ ~SettleCancel(j)
                                /\ ~SettleWait(j) /\ ~SweepHold(j),
                \A w \in Workers : ~Reserve(w) /\ ~Settle(w)
         PROVE  hold' = hold
    <2>1. ASSUME NEW w \in Workers, OwnStep(w) PROVE hold' = hold
      BY <1>12, <2>1 DEF OwnStep, Pick, Handler, Commit, Park, Returns, HandlerReturn, RunStep, Register, CheckStop,
         CheckPending, CheckYield, ReadPersisted, Finish, Reread, ReadFails, FinishFails, SettleFails
    <2>2. ASSUME NEW j \in Jobs, ResolveCancel(j) PROVE hold' = hold
      BY <2>2 DEF ResolveCancel
    <2>3. CASE Aside
      BY <1>12, <2>3 DEF Aside, Caller, Activate, FailQueued, RequestCancel, WaitOwner,
         Wake, FailWait, AcknowledgeStop, CallFails, SweepMisses, Adopt, BootStep, RecoverCancellations,
         SweepRunning, ListHolds, HoldsSwept, SweepUnactivated, Shutdown
    <2>4. CASE Crash \/ Exit
      BY <2>4 DEF Crash, Exit, Reset
    <2> QED
      BY <2>1, <2>2, <2>3, <2>4, Parties
  <1> QED
    BY <1>1, <1>3, <1>4, <1>5, <1>6, <1>7, <1>8, <1>9, <1>10, <1>11, <1>12

\* The worker that ended the row, or that has read that it ended, and settles.
Settler(w, j) == /\ wk[w].job = j
                 /\ \/ wk[w].did = "committed" /\ wk[w].pc \in {"handler", "pending", "persisted", "reread"}
                    \/ wk[w].pc \in {"reread", "settle"}
Owed(j) == \/ enq[j] = "held" \/ canceller[j] # "idle" \/ waiter[j] # "idle"
           \/ \E w \in Workers : Settler(w, j)
Owned(j) == Serving /\ faults = 0 /\ Loose(j) => Owed(j)

\* A worker that has to settle goes on to, until it has.
LEMMA SettlerStep ==
    ASSUME IInv, Next, NEW v \in Workers, RunForm(v), NEW i \in Jobs, Settler(v, i), Loose(i), Loose(i)',
           faults' = 0, Serving'
    PROVE  Settler(v, i)'
  <1> USE DEF durable
  <1>0. /\ wk \in [Workers -> Worker] /\ wk[v] \in Worker /\ faults = 0 /\ RunInv(v)
        /\ status \in [Jobs -> Status] /\ hold \in [Jobs -> Hold] /\ hold[i] = "open"
        /\ status[i] \in Terminal /\ hold'[i] = "open"
    BY FaultsStep DEF IInv, TypeOK, RunInv, Settler, Loose
  <1>1. CASE wk'[v] = wk[v]
    BY <1>1 DEF Settler
  <1>2. ASSUME NEW j \in Jobs, ResolveCancel(j) PROVE Settler(v, i)'
    BY <1>0, <1>2 DEF ResolveCancel, Settler, Worker
  <1>3. ASSUME NEW j \in Jobs PROVE ~Pick(v, j)
    BY DEF Pick, Settler
  <1>4. CASE Handler(v)
    BY <1>0, <1>4 DEF Handler, Reserve, Commit, Park, Settler, Worker
  <1>5. CASE Returns(v)
    BY <1>0, <1>5 DEF Returns, HandlerReturn, Settler, Worker
  <1>6. CASE RunStep(v)
    <2>1. CASE CheckPending(v)
      <3>1. /\ wk[v].did = "committed" /\ wk[v].err # "yield" /\ Cancellable(wk[v].job) /\ ~WaitWins(wk[v].job)
            /\ wk[v].job = i
        BY <1>0, <2>1 DEF CheckPending, Settler, RunForm, Cancellable, Resumable, WaitWins, Pending, Terminal
      <3>2. wk' = Goto(v, "persisted")
        BY <2>1, <3>1 DEF CheckPending
      <3> QED
        BY <1>0, <3>1, <3>2 DEF Goto, Settler, Worker
    <2>2. CASE ReadPersisted(v)
      <3>1. wk[v].did = "committed" /\ wk[v].job = i
        BY <2>2 DEF ReadPersisted, Settler
      <3>2. wk' = [wk EXCEPT ![v].want = Outcome(wk[v].err, cancelReq[i]), ![v].pc = "reread"]
        BY <1>0, <2>2, <3>1 DEF ReadPersisted
      <3> QED
        BY <1>0, <3>1, <3>2 DEF Settler, Worker
    <2>3. CASE Reread(v)
      BY <1>0, <2>3 DEF Reread, Settler, Worker
    <2>4. ~Settle(v)
      BY <1>0 DEF Settle, Settled, Settler, RunInv, Terminal
    <2>5. ~Register(v) /\ ~CheckStop(v) /\ ~CheckYield(v) /\ ~Finish(v)
      BY DEF Settler, Register, CheckStop, CheckYield, Finish
    <2> QED
      BY <1>6, <2>1, <2>2, <2>3, <2>4, <2>5 DEF RunStep
  <1>7. ~ReadFails(v) /\ ~FinishFails(v) /\ ~SettleFails(v)
    BY <1>0 DEF ReadFails, FinishFails, SettleFails, Fault
  <1>8. ASSUME NEW w \in Workers, OwnStep(w) PROVE Settler(v, i)'
    BY <1>1, <1>3, <1>4, <1>5, <1>6, <1>7, <1>8, OthersStep DEF OwnStep
  <1>9. ~Crash /\ ~Exit
    BY DEF Crash, Exit, Reset, Serving
  <1>10. CASE Aside
    BY <1>1, <1>10, AsideStep
  <1> QED
    BY <1>2, <1>8, <1>9, <1>10, Parties

\* Serving starts only where the second sweep of the holds ends, and if no call
\* has failed it has closed them all.
LEMMA ServingStep ==
    ASSUME IInv, Next, Serving', faults' = 0, NEW i \in Jobs, SweepInv(i), Loose(i)'
    PROVE  Serving
  <1>1. CASE Onwards
    <2>1. CASE HoldsSwept
      <3>1. faults = 0 /\ sweeper[i] \in {"idle", "listed", "missed"} /\ sweeper[i] # "listed"
        BY <2>1, FaultsStep DEF HoldsSwept, IInv, TypeOK
      <3>2. phase = "holds2" /\ Loose(i)
        BY <2>1 DEF HoldsSwept, durable, Loose, Serving
      <3> QED
        BY <3>1, <3>2 DEF SweepInv
    <2> QED
      BY <1>1, <2>1 DEF Onwards, RecoverCancellations, SweepRunning, ListHolds, SweepUnactivated, AfterUnactivated,
         Shutdown, Serving
  <1>2. CASE ~Onwards
    BY <1>2, PhaseStep DEF Crash, Exit, Reset, Serving
  <1> QED
    BY <1>1, <1>2

\* A hold that is already loose stays somebody's: each of the four settlers
\* lets go of it by closing it.
LEMMA StaysOwed ==
    ASSUME IInv, Next, \A w \in Workers : RunForm(w), NEW i \in Jobs, Asked(i), Loose(i), Owed(i), Loose(i)',
           faults' = 0, Serving'
    PROVE  Owed(i)'
  <1> USE DEF durable
  <1>0. /\ faults = 0 /\ hold[i] = "open" /\ hold'[i] = "open" /\ StopInv(i) /\ HoldInv(i)
        /\ hold \in [Jobs -> Hold] /\ enq \in [Jobs -> {"new", "held", "over"}]
        /\ canceller \in [Jobs -> {"idle", "resolve", "settle"}] /\ waiter \in [Jobs -> {"idle", "settle"}]
        /\ cancelReq[i] \in BOOLEAN /\ status[i] \in Terminal \cup {"absent"}
    BY FaultsStep DEF IInv, TypeOK, Loose
  <1>1. ASSUME NEW w \in Workers, Settler(w, i) PROVE Owed(i)'
    BY <1>1, SettlerStep DEF Owed
  <1>2. CASE enq'[i] = enq[i] /\ canceller'[i] = canceller[i] /\ waiter'[i] = waiter[i]
    BY <1>1, <1>2 DEF Owed
  <1>3. ASSUME NEW w \in Workers, OwnStep(w) PROVE Owed(i)'
    BY <1>2, <1>3 DEF OwnStep, Pick, Handler, Reserve, Commit, Park, Returns, HandlerReturn, RunStep, Register,
       CheckStop, CheckPending, CheckYield, ReadPersisted, Finish, Reread, Settle, ReadFails, FinishFails, SettleFails
  <1>4. ASSUME NEW j \in Jobs, ResolveCancel(j) PROVE Owed(i)'
    <2>1. CASE j = i
      BY <1>0, <1>4, <2>1 DEF ResolveCancel, Asked, StopInv, Owed
    <2>2. CASE j # i
      BY <1>0, <1>2, <1>4, <2>2 DEF ResolveCancel
    <2> QED
      BY <2>1, <2>2
  <1>5. ~Crash /\ ~Exit
    BY DEF Crash, Exit, Reset, Serving
  <1>6. CASE Aside
    <2>1. ASSUME NEW j \in Jobs, Admit(j) PROVE Owed(i)'
      <3>1. CASE j = i
        BY <1>0, <2>1, <3>1 DEF Admit, Owed
      <3>2. CASE j # i
        BY <1>0, <1>2, <2>1, <3>2 DEF Admit
      <3> QED
        BY <3>1, <3>2
    <2>2. ASSUME NEW j \in Jobs, Insert(j) PROVE Owed(i)'
      <3>1. CASE j = i
        BY <1>0, <2>2, <3>1 DEF Insert, ConflictReleased, Released, Loose, Terminal, IInv, TypeOK
      <3>2. CASE j # i
        BY <1>0, <1>2, <2>2, <3>2 DEF Insert
      <3> QED
        BY <3>1, <3>2
    <2>3. ASSUME NEW j \in Jobs, RequestCancel(j) PROVE Owed(i)'
      <3>1. CASE j = i
        BY <1>0, <2>3, <3>1 DEF RequestCancel, Owed
      <3>2. CASE j # i
        BY <1>0, <1>2, <2>3, <3>2 DEF RequestCancel
      <3> QED
        BY <3>1, <3>2
    <2>4. ASSUME NEW j \in Jobs, SettleCancel(j) PROVE Owed(i)'
      <3>1. j # i
        BY <1>0, <2>4 DEF SettleCancel, Settled
      <3> QED
        BY <1>0, <1>2, <2>4, <3>1 DEF SettleCancel
    <2>5. ASSUME NEW j \in Jobs, SettleWait(j) PROVE Owed(i)'
      <3>1. j # i
        BY <1>0, <2>5 DEF SettleWait, Settled, HoldInv, Terminal
      <3> QED
        BY <1>0, <1>2, <2>5, <3>1 DEF SettleWait
    <2>6. ASSUME NEW j \in Jobs, FailWait(j) \/ AcknowledgeStop(j) PROVE Owed(i)'
      <3>1. CASE j = i
        BY <1>0, <2>6, <3>1 DEF FailWait, AcknowledgeStop, Owed
      <3>2. CASE j # i
        BY <1>0, <1>2, <2>6, <3>2 DEF FailWait, AcknowledgeStop
      <3> QED
        BY <3>1, <3>2
    <2>7. ASSUME NEW j \in Jobs PROVE ~CallFails(j) /\ ~InsertFails(j) /\ ~SweepMisses(j)
      BY <1>0 DEF CallFails, InsertFails, SweepMisses, Fault
    <2>8. ASSUME NEW j \in Jobs, Activate(j) \/ FailQueued(j) \/ Wake(j) \/ \E k \in Keys : Adopt(j, k) PROVE Owed(i)'
      BY <1>2, <2>8 DEF Activate, FailQueued, Wake, Adopt
    <2>9. CASE BootStep \/ Shutdown
      BY <1>2, <2>9 DEF BootStep, RecoverCancellations, SweepRunning, ListHolds, HoldsSwept, SweepUnactivated, SweepHold, Shutdown
    <2> QED
      BY <1>6, <2>1, <2>2, <2>3, <2>4, <2>5, <2>6, <2>7, <2>8, <2>9 DEF Aside, Caller, WaitOwner
  <1> QED
    BY <1>3, <1>4, <1>5, <1>6, Parties

\* Whoever makes a hold loose is on the way to close it.
LEMMA BecomesOwed ==
    ASSUME IInv, Next, NEW i \in Jobs, Unpriced(i), ~Loose(i), Loose(i)', \A w \in Workers : RunForm(w),
           faults' = 0, Serving, Serving'
    PROVE  Owed(i)'
  <1> USE DEF durable
  <1>0. /\ hold'[i] = "open" /\ StopInv(i) /\ HoldInv(i)
        /\ hold \in [Jobs -> Hold] /\ enq \in [Jobs -> {"new", "held", "over"}]
        /\ canceller \in [Jobs -> {"idle", "resolve", "settle"}] /\ waiter \in [Jobs -> {"idle", "settle"}]
        /\ status \in [Jobs -> Status] /\ wk \in [Workers -> Worker]
        /\ faults = 0
    BY FaultsStep DEF IInv, TypeOK, Loose
  <1>1. hold'[i] = hold[i] /\ status'[i] = status[i] => FALSE
    BY DEF Loose
  <1>2. ASSUME NEW j \in Jobs, Admit(j) PROVE Owed(i)'
    BY <1>0, <1>1, <1>2 DEF Admit, Owed
  <1>3. ASSUME NEW j \in Jobs, Insert(j) PROVE FALSE
    <2>1. CASE j = i
      BY <1>0, <1>1, <1>3, <2>1 DEF Insert, ConflictReleased, Released, Loose, Terminal
    <2>2. CASE j # i
      BY <1>0, <1>1, <1>3, <2>2 DEF Insert, ConflictReleased, Released
    <2> QED
      BY <2>1, <2>2
  <1>4. ASSUME NEW j \in Jobs, FailQueued(j) PROVE FALSE
    BY <1>0, <1>1, <1>4 DEF FailQueued, Unpriced, Resumable, HeldAtStart
  <1>5. ASSUME NEW j \in Jobs, RequestCancel(j) PROVE Owed(i)'
    BY <1>0, <1>1, <1>5 DEF RequestCancel, Owed
  <1>6. ASSUME NEW j \in Jobs, FailWait(j) \/ AcknowledgeStop(j) PROVE Owed(i)'
    BY <1>0, <1>1, <1>6 DEF FailWait, AcknowledgeStop, Owed
  <1>7. ASSUME NEW j \in Jobs, SettleCancel(j) \/ SettleWait(j) PROVE FALSE
    BY <1>0, <1>1, <1>7 DEF SettleCancel, SettleWait, Settled, IInv, HoldInv, Terminal
  <1>8. ASSUME NEW j \in Jobs, Activate(j) \/ Wake(j) \/ ResolveCancel(j) \/ \E k \in Keys : Adopt(j, k) PROVE FALSE
    BY <1>1, <1>8 DEF Activate, Wake, ResolveCancel, Adopt
  <1>9. ASSUME NEW w \in Workers, Handler(w) PROVE Owed(i)'
    <2>1. CASE Reserve(w)
      BY <1>0, <1>1, <2>1 DEF Reserve, Loose, Terminal
    <2>2. CASE Commit(w)
      <3>1. wk[w].job = i
        BY <1>0, <1>1, <2>2 DEF Commit
      <3> QED
        BY <1>0, <2>2, <3>1 DEF Commit, Owed, Settler, Worker
    <2>3. ASSUME NEW k \in Keys, NEW p \in Policy, NEW s \in {"waiting", "ready"}, Park(w, k, p, s) PROVE FALSE
      BY <1>1, <2>3 DEF Park
    <2> QED
      BY <1>9, <2>1, <2>2, <2>3 DEF Handler
  <1>10. ASSUME NEW w \in Workers, NEW j \in Jobs, Pick(w, j) PROVE FALSE
    BY <1>0, <1>1, <1>10 DEF Pick, Loose, Terminal
  <1>11. ASSUME NEW w \in Workers, RunStep(w) PROVE Owed(i)'
    <2>1. CASE Finish(w)
      <3>1. wk[w].job = i
        BY <1>0, <1>1, <2>1 DEF Finish, Finished
      <3>2. wk'[w].job = i /\ wk'[w].pc \in {"reread", "settle"}
        BY <1>0, <2>1, <3>1 DEF Finish, Goto, Worker
      <3> QED
        BY <3>2 DEF Owed, Settler
    <2>2. CASE Settle(w)
      BY <1>0, <1>1, <2>2 DEF Settle, Settled, Worker, Terminal
    <2> QED
      BY <1>1, <1>11, <2>1, <2>2 DEF RunStep, Register, CheckStop, CheckPending, CheckYield, ReadPersisted, Reread
  <1>12. ASSUME NEW w \in Workers, Returns(w) PROVE FALSE
    BY <1>1, <1>12 DEF Returns, HandlerReturn
  <1>13. ~Faulty
    BY <1>0 DEF Faulty, ReadFails, FinishFails, SettleFails, CallFails, InsertFails, SweepMisses, Fault
  <1>14. ~BootStep
    BY DEF BootStep, RecoverCancellations, SweepRunning, ListHolds, HoldsSwept, SweepUnactivated, SweepHold,
       Sweeps, Serving
  <1>15. CASE Shutdown
    BY <1>1, <1>15 DEF Shutdown
  <1>16. ~Crash /\ ~Exit
    BY DEF Crash, Exit, Reset, Serving
  <1> QED
    BY <1>2, <1>3, <1>4, <1>5, <1>6, <1>7, <1>8, <1>9, <1>10, <1>11, <1>12, <1>13, <1>14, <1>15, <1>16
    DEF Next, Caller, Resolver, WaitOwner

\* While the process serves and no call has failed, an open hold of an ended or
\* missing job has somebody on the way to close it: the argument follows the
\* hold from the step that makes it loose to the step that closes it.
THEOREM HoldsAreOwned == Spec => []NoStrandedHold
  <1> DEFINE Care == /\ \A w \in Workers : RunForm(w) /\ OffDuty(w)
                     /\ \A j \in Jobs : Asked(j) /\ Unpriced(j) /\ SweepInv(j) /\ Owned(j)
  <1>1. Init => Care
    BY DEF Init, RunForm, Idle, OffDuty, Asked, Unpriced, SweepInv, Owned, Loose
  <1>2. IInv /\ Care /\ [Next]_vars => Care'
    <2>1. ASSUME IInv, Care, Next PROVE Care'
      <3>1. \A w \in Workers : RunForm(w)' /\ OffDuty(w)'
        BY <2>1, FormStep, OffDutyStep
      <3>2. \A j \in Jobs : Asked(j)' /\ Unpriced(j)' /\ SweepInv(j)'
        BY <2>1, AskedStep, UnpricedStep, SweepStep
      <3>3. ASSUME NEW j \in Jobs, Serving', faults' = 0, Loose(j)' PROVE Owed(j)'
        <4>1. Serving /\ faults = 0
          BY <2>1, <3>3, ServingStep, FaultsStep
        <4>2. CASE Loose(j)
          BY <2>1, <3>3, <4>1, <4>2, StaysOwed DEF Owned
        <4>3. CASE ~Loose(j)
          BY <2>1, <3>3, <4>1, <4>3, BecomesOwed
        <4> QED
          BY <4>2, <4>3
      <3> QED
        BY <3>1, <3>2, <3>3 DEF Owned
    <2>2. ASSUME Care, UNCHANGED vars PROVE Care'
      BY <2>2 DEF vars, RunForm, OffDuty, Asked, Unpriced, SweepInv, Owned, Owed, Settler, Loose, Serving
    <2> QED
      BY <2>1, <2>2
  <1>3. Care => NoStrandedHold
    BY DEF Owned, Owed, Settler, Closing, NoStrandedHold
  <1> QED
    BY <1>1, <1>2, <1>3, Invariance, PTL DEF Spec

-----------------------------------------------------------------------------
(* With the one worker the process runs (WorkerConcurrency). *)

OneWorker == \A v, w \in Workers : v = w

\* A row that is running without a handoff nobody has taken up.
Quiet(j) == cont[j].state \notin {"waiting", "ready"}

\* A run belongs to a process that serves; until its handler has parked or
\* committed, the row is its own; and once it has found no pending wait, none
\* appears before it has finished.
Ours(w) == LET j == wk[w].job IN
    /\ wk[w].pc # "idle" => Serving
    /\ wk[w].pc \in {"register", "check"} \/ (wk[w].pc = "handler" /\ wk[w].did = "nothing")
          => status[j] = "running" /\ Quiet(j)
    /\ wk[w].pc \in {"yield", "persisted", "finish"} /\ status[j] = "running" => Quiet(j)

\* What the others do to a running row that has no pending handoff, while the
\* process serves: nothing.
LEMMA AsideRow ==
    ASSUME IInv, Serving, Aside \/ \E i \in Jobs : ResolveCancel(i), NEW j \in Jobs
    PROVE  /\ Serving'
           /\ status'[j] = "running" => status[j] = "running"
           /\ status[j] = "running" /\ Quiet(j) => status'[j] = "running"
           /\ Quiet(j) => Quiet(j)'
  <1> USE DEF durable
  <1>0. /\ status \in [Jobs -> Status] /\ cont \in [Jobs -> Wait \cup {NoWait}]
        /\ \A i \in Jobs : StartInv(i)
    BY DEF IInv, TypeOK
  <1> DEFINE Rows == cont' = cont /\ status'[j] = status[j]
  <1>1. CASE Rows /\ phase' = phase
    BY <1>1 DEF Quiet, Serving
  <1>2. CASE Shutdown
    BY <1>1, <1>2 DEF Shutdown, Serving, Quiet
  <1>3. ~BootStep /\ \A i \in Jobs, k \in Keys : ~Adopt(i, k)
    BY DEF BootStep, RecoverCancellations, SweepRunning, ListHolds, HoldsSwept, SweepUnactivated, SweepHold,
       Sweeps, Adopt, Serving
  <1>4. ASSUME NEW i \in Jobs, \/ Admit(i) \/ Activate(i) \/ SettleCancel(i) \/ SettleWait(i) \/ CallFails(i)
                               \/ InsertFails(i) \/ SweepMisses(i) \/ ResolveCancel(i)
        PROVE  Rows /\ phase' = phase
    BY <1>4 DEF Admit, Activate, SettleCancel, SettleWait, CallFails, InsertFails, SweepMisses, ResolveCancel
  <1>5. ASSUME NEW i \in Jobs, Insert(i) \/ FailQueued(i) \/ RequestCancel(i)
        PROVE  /\ cont' = cont /\ phase' = phase
               /\ status'[j] = "running" <=> status[j] = "running"
    BY <1>0, <1>5 DEF Insert, FailQueued, RequestCancel, StartInv
  <1>6. ASSUME NEW i \in Jobs, FailWait(i) \/ AcknowledgeStop(i)
        PROVE  /\ cont' = cont /\ phase' = phase
               /\ status'[j] = "running" => status[j] = "running"
               /\ status[j] = "running" /\ Quiet(j) => status'[j] = "running"
    BY <1>0, <1>6 DEF FailWait, AcknowledgeStop, Pending, Quiet
  <1>7. ASSUME NEW i \in Jobs, Wake(i)
        PROVE  phase' = phase /\ status' = status /\ (Quiet(j) => Quiet(j)')
    BY <1>0, <1>7 DEF Wake, Quiet
  <1>8. ASSUME NEW i \in Jobs, Insert(i) \/ FailQueued(i) \/ RequestCancel(i) \/ FailWait(i) \/ AcknowledgeStop(i)
                               \/ Wake(i)
        PROVE  /\ Serving'
               /\ status'[j] = "running" => status[j] = "running"
               /\ status[j] = "running" /\ Quiet(j) => status'[j] = "running"
               /\ Quiet(j) => Quiet(j)'
    <2>1. CASE Insert(i) \/ FailQueued(i) \/ RequestCancel(i)
      BY <1>5, <2>1 DEF Serving, Quiet
    <2>2. CASE FailWait(i) \/ AcknowledgeStop(i)
      BY <1>6, <2>2 DEF Serving, Quiet
    <2>3. CASE Wake(i)
      BY <1>7, <2>3 DEF Serving
    <2> QED
      BY <1>8, <2>1, <2>2, <2>3
  <1> QED
    BY <1>1, <1>2, <1>3, <1>4, <1>8 DEF Aside, Caller, WaitOwner

LEMMA OursStep ==
    ASSUME OneWorker, IInv, Next, NEW v \in Workers, Ours(v)
    PROVE  Ours(v)'
  <1> USE DEF durable
  <1>0. /\ wk \in [Workers -> Worker] /\ wk[v] \in Worker /\ RunInv(v)
        /\ wk[v].pc # "idle" => wk[v].job \in Jobs /\ Serving
        /\ status \in [Jobs -> Status] /\ cont \in [Jobs -> Wait \cup {NoWait}]
    BY DEF IInv, TypeOK, RunInv, Ours
  <1>1. CASE wk'[v].pc = "idle"
    BY <1>1 DEF Ours
  <1>2. CASE Serving' /\ wk'[v].pc \in {"pending", "reread", "settle"}
    BY <1>2 DEF Ours
  <1>3. ASSUME wk'[v].pc = wk[v].pc, wk'[v].job = wk[v].job, wk'[v].did = wk[v].did,
               Aside \/ \E i \in Jobs : ResolveCancel(i)
        PROVE  Ours(v)'
    <2>1. CASE wk[v].pc = "idle"
      BY <1>1, <1>3, <2>1
    <2>2. CASE wk[v].pc # "idle"
      <3> DEFINE j == wk[v].job
      <3>1. j \in Jobs /\ Serving
        BY <1>0, <2>2
      <3>2. /\ Serving'
            /\ status'[j] = "running" => status[j] = "running"
            /\ status[j] = "running" /\ Quiet(j) => status'[j] = "running"
            /\ cont[j].state \notin {"waiting", "ready"} => cont'[j].state \notin {"waiting", "ready"}
        BY <1>3, <3>1, AsideRow DEF Quiet
      <3> QED
        BY <1>3, <3>2 DEF Ours, Quiet
    <2> QED
      BY <2>1, <2>2
  <1>4. ASSUME NEW i \in Jobs, ResolveCancel(i) PROVE Ours(v)'
    <2>1. wk'[v].pc = wk[v].pc /\ wk'[v].job = wk[v].job /\ wk'[v].did = wk[v].did
      BY <1>0, <1>4 DEF ResolveCancel, Worker
    <2> QED
      BY <1>3, <1>4, <2>1
  <1>5. CASE Aside
    BY <1>3, <1>5, AsideStep
  <1>6. CASE Crash \/ Exit
    BY <1>1, <1>6 DEF Crash, Exit, Reset, Idle
  <1>7. ASSUME NEW i \in Jobs, Pick(v, i) PROVE Ours(v)'
    <2>1. /\ wk'[v].job = i /\ wk'[v].pc \in {"register", "handler"} /\ wk'[v].did = "nothing"
          /\ status'[i] = "running" /\ Serving'
      BY <1>0, <1>7 DEF Pick, Idle, Serving
    <2>2. cont'[i].state \notin {"waiting", "ready"}
      BY <1>0, <1>7 DEF Pick, NoWait, Wait
    <2> QED
      BY <2>1, <2>2 DEF Ours, Quiet
  <1>8. CASE Handler(v)
    <2>1. CASE Reserve(v)
      BY <1>0, <2>1 DEF Reserve, Ours, Quiet, Serving
    <2>2. CASE Commit(v)
      <3>1. wk'[v].pc = "handler" /\ wk'[v].did = "committed" /\ Serving'
        BY <1>0, <2>2 DEF Commit, Worker, Serving
      <3> QED
        BY <3>1 DEF Ours
    <2>3. ASSUME NEW k \in Keys, NEW p \in Policy, NEW s \in {"waiting", "ready"}, Park(v, k, p, s) PROVE Ours(v)'
      <3>1. wk'[v].pc = "handler" /\ wk'[v].did = "parked" /\ Serving'
        BY <1>0, <2>3 DEF Park, Worker, Serving
      <3> QED
        BY <3>1 DEF Ours
    <2> QED
      BY <1>8, <2>1, <2>2, <2>3 DEF Handler
  <1>9. CASE Returns(v)
    BY <1>0, <1>2, <1>9 DEF Returns, HandlerReturn, Worker, Serving
  <1>10. CASE RunStep(v)
    <2>1. CASE Register(v)
      BY <1>0, <2>1 DEF Register, Ours, Quiet, Serving, Worker
    <2>2. CASE CheckStop(v)
      BY <1>0, <2>2 DEF CheckStop, Ours, Quiet, Serving, Worker
    <2>3. CASE CheckPending(v)
      <3> DEFINE j == wk[v].job
      <3>0. UNCHANGED <<status, cont, phase>>
        BY <2>3 DEF CheckPending
      <3>1. CASE wk' = Leave(v)
        BY <1>0, <1>1, <3>1 DEF Leave, Idle
      <3>2. CASE wk' # Leave(v)
        <4>1. ~Pending(j) /\ wk[v].pc = "pending"
          BY <2>3, <3>2 DEF CheckPending, WaitWins
        <4>2. status[j] = "running" => Quiet(j)
          BY <4>1 DEF Pending, Quiet
        <4>3. wk' \in {Goto(v, "yield"), Goto(v, "persisted"),
                        [wk EXCEPT ![v].pc = "finish", ![v].want = Outcome(wk[v].err, FALSE)]}
          BY <2>3, <3>2 DEF CheckPending
        <4>4. wk'[v].job = wk[v].job /\ wk'[v].pc \in {"yield", "persisted", "finish"}
          <5>1. CASE wk' = Goto(v, "yield")
            BY <1>0, <5>1 DEF Goto, Worker
          <5>2. CASE wk' = Goto(v, "persisted")
            BY <1>0, <5>2 DEF Goto, Worker
          <5>3. CASE wk' = [wk EXCEPT ![v].pc = "finish", ![v].want = Outcome(wk[v].err, FALSE)]
            BY <1>0, <5>3 DEF Worker
          <5> QED
            BY <4>3, <5>1, <5>2, <5>3
        <4> QED
          BY <1>0, <3>0, <4>1, <4>2, <4>4 DEF Ours, Quiet, Serving
      <3> QED
        BY <3>1, <3>2
    <2>4. CASE CheckYield(v)
      <3>1. CASE wk' = Leave(v)
        BY <1>0, <1>1, <3>1 DEF Leave, Idle
      <3>2. CASE wk' # Leave(v)
        BY <1>0, <2>4, <3>2 DEF CheckYield, Ours, Quiet, Serving, Worker
      <3> QED
        BY <3>1, <3>2
    <2>5. CASE ReadPersisted(v)
      <3>1. CASE wk' = Leave(v)
        BY <1>0, <1>1, <3>1 DEF Leave, Idle
      <3>2. CASE wk' # Leave(v)
        <4>1. wk' = [wk EXCEPT ![v].want = Outcome(wk[v].err, cancelReq[wk[v].job]),
                               ![v].pc = IF status[wk[v].job] \in Terminal THEN "reread" ELSE "finish"]
          BY <2>5, <3>2 DEF ReadPersisted
        <4>2. wk'[v].job = wk[v].job /\ wk'[v].pc \in {"reread", "finish"}
          BY <1>0, <4>1 DEF Worker
        <4>3. UNCHANGED <<status, cont, phase>> /\ wk[v].pc = "persisted"
          BY <2>5 DEF ReadPersisted
        <4> QED
          BY <1>0, <4>2, <4>3 DEF Ours, Quiet, Serving
      <3> QED
        BY <3>1, <3>2
    <2>6. CASE Finish(v)
      BY <1>0, <1>2, <2>6 DEF Finish, Goto, Worker, Serving
    <2>7. CASE Reread(v)
      BY <1>0, <1>1, <1>2, <2>7 DEF Reread, Leave, Idle, Worker, Serving
    <2>8. CASE Settle(v)
      BY <1>0, <1>1, <2>8 DEF Settle, Leave, Idle
    <2> QED
      BY <1>10, <2>1, <2>2, <2>3, <2>4, <2>5, <2>6, <2>7, <2>8 DEF RunStep
  <1>11. CASE ReadFails(v) \/ FinishFails(v) \/ SettleFails(v)
    BY <1>0, <1>1, <1>2, <1>11 DEF ReadFails, FinishFails, SettleFails, Goto, Leave, Idle, Worker, Serving
  <1>12. ASSUME NEW w \in Workers, OwnStep(w) PROVE Ours(v)'
    <2>1. w = v
      BY DEF OneWorker
    <2> QED
      BY <1>7, <1>8, <1>9, <1>10, <1>11, <1>12, <2>1 DEF OwnStep
  <1> QED
    BY <1>4, <1>5, <1>6, <1>12, Parties

LEMMA OursAlways == ASSUME OneWorker PROVE Spec => [](IInv /\ \A w \in Workers : Ours(w))
  <1> DEFINE AllOurs == \A w \in Workers : Ours(w)
  <1>1. Init => AllOurs
    BY DEF Init, Ours, Idle
  <1>2. IInv /\ AllOurs /\ [Next]_vars => AllOurs'
    <2>1. ASSUME AllOurs, UNCHANGED vars PROVE AllOurs'
      BY <2>1 DEF vars, Ours, Quiet, Serving
    <2> QED
      BY <2>1, OursStep
  <1> QED
    BY <1>1, <1>2, Invariance, PTL DEF Spec

\* Nobody ends a job under its handler: with one worker.  With two it is false
\* (a woken job may be claimed before the run that parked it has returned).
THEOREM SoleOwnership == ASSUME OneWorker PROVE Spec => []SoleOwner
  <1>1. (\A w \in Workers : Ours(w)) => SoleOwner
    BY DEF Ours, SoleOwner
  <1> QED
    BY <1>1, OursAlways, PTL

\* A job whose work was handed off, or may be replayed, is ended by the owner
\* of the handoff only: with one worker.
THEOREM HandoffsSurvive == ASSUME OneWorker PROVE Spec => HandoffSurvives
  <1> DEFINE Kept == \A j \in Jobs : Guarded(j) => status'[j] = "running" \/ waiter'[j] = "settle"
  <1> USE DEF durable
  <1>1. ASSUME IInv, \A w \in Workers : Ours(w), Next, NEW j \in Jobs, Guarded(j), status'[j] # "running"
        PROVE  waiter'[j] = "settle"
    <2>0. /\ status[j] = "running" /\ status \in [Jobs -> Status] /\ wk \in [Workers -> Worker]
          /\ waiter \in [Jobs -> {"idle", "settle"}] /\ \A i \in Jobs : StartInv(i)
          /\ cont \in [Jobs -> Wait \cup {NoWait}]
          /\ \A w \in Workers : wk[w].pc # "idle" => Serving
      BY <1>1 DEF Guarded, IInv, TypeOK, Ours
    <2>1. ASSUME NEW w \in Workers, OwnStep(w) PROVE FALSE
      <3>1. CASE Commit(w) \/ Finish(w) \/ FinishFails(w)
        <4>1. wk[w].job = j /\ Serving /\ wk[w].pc \in {"handler", "finish"} /\ (wk[w].pc = "handler" => wk[w].did = "nothing")
          BY <1>1, <2>0, <3>1 DEF Commit, Finish, FinishFails, Finished
        <4> QED
          BY <1>1, <2>0, <4>1 DEF Ours, Quiet, Guarded
      <3>2. CASE ~Commit(w) /\ ~Finish(w) /\ ~FinishFails(w)
        BY <1>1, <2>0, <2>1, <3>2 DEF OwnStep, Pick, Handler, Reserve, Park, Returns, HandlerReturn, RunStep, Register,
           CheckStop, CheckPending, CheckYield, ReadPersisted, Reread, Settle, ReadFails, SettleFails
      <3> QED
        BY <3>1, <3>2
    <2>2. ASSUME NEW i \in Jobs, FailWait(i) \/ AcknowledgeStop(i) PROVE waiter'[j] = "settle"
      BY <1>1, <2>0, <2>2 DEF FailWait, AcknowledgeStop
    <2>3. ASSUME NEW i \in Jobs, Caller(i) PROVE FALSE
      BY <1>1, <2>0, <2>3 DEF Caller, Admit, Insert, Activate, FailQueued, RequestCancel, StartInv
    <2>4. ASSUME NEW i \in Jobs, \/ Resolver(i) \/ Wake(i) \/ SettleWait(i) \/ CallFails(i) \/ InsertFails(i) \/ SweepMisses(i)
                                 \/ \E k \in Keys : Adopt(i, k)
          PROVE  FALSE
      BY <1>1, <2>0, <2>4 DEF Resolver, ResolveCancel, SettleCancel, Wake, SettleWait, CallFails, InsertFails, SweepMisses, Adopt
    <2>5. CASE BootStep
      <3>1. ~RecoverCancellations
        BY <1>1, <2>0 DEF RecoverCancellations, Guarded, Serving
      <3>2. ~SweepRunning
        BY <1>1, <2>0 DEF SweepRunning, Guarded, Serving, Replayed, HandedOff, NoWait, Wait
      <3>3. ~ListHolds /\ ~HoldsSwept /\ ~SweepUnactivated /\ \A i \in Jobs : ~SweepHold(i)
        BY <1>1, <2>0 DEF ListHolds, HoldsSwept, SweepUnactivated, SweepHold
      <3> QED
        BY <2>5, <3>1, <3>2, <3>3 DEF BootStep
    <2>6. ~Crash /\ ~Shutdown /\ ~Exit
      BY <1>1, <2>0 DEF Crash, Shutdown, Exit, Reset
    <2> QED
      BY <1>1, <2>1, <2>2, <2>3, <2>4, <2>5, <2>6, Parties DEF Aside, Resolver, WaitOwner
  <1>2. IInv /\ (\A w \in Workers : Ours(w)) /\ [Next]_vars => [Kept]_vars
    BY <1>1
  <1> QED
    BY <1>2, OursAlways, PTL DEF Spec, HandoffSurvives
=============================================================================
