------------------------ MODULE EnqueueIdentityProofs ------------------------
(***************************************************************************)
(* Theorems about EnqueueIdentity, for every set of identities and of      *)
(* processes and every number of crashes and failed calls.                 *)
(***************************************************************************)
EXTENDS EnqueueIdentity, TLAPS

-----------------------------------------------------------------------------
(* The inductive invariant. *)

\* A row has a hold from its insert on, settled if at all as the row ended,
\* and nothing is held for an identity nobody has claimed.
HoldInv(i) ==
    /\ Active(i) => hold[i] = "open"
    /\ row[i] # "absent" => hold[i] # "none"
    /\ hold[i] \in Terminal => hold[i] = row[i]
    /\ hold[i] # "none" => receipt[i] # "none"

\* A call past its claim has a receipt, and one about to insert under a claim
\* that still stands has its hold.
CallInv(p) ==
    /\ call[p].pc # "idle" => call[p].id \in Ids
    /\ call[p].pc \in {"recheck", "guard", "hold", "insert", "reread", "giveback"}
         => receipt[call[p].id] # "none"
    /\ call[p].pc = "insert" /\ receipt[call[p].id] = "claimed" => hold[call[p].id] = "open"

\* A sweep lists claimed identities only, and releases abandoned ones only.
SweepInv(p) ==
    /\ \A i \in sweep[p].todo : receipt[i] # "none"
    /\ sweep[p].pc \in {"abandon", "release"} => sweep[p].id \in Ids /\ sweep[p].id \in sweep[p].todo
    /\ sweep[p].pc = "abandon" /\ sweep[p].saw = "abandoned" => receipt[sweep[p].id] = "abandoned"
    /\ sweep[p].pc = "release" => receipt[sweep[p].id] = "abandoned"

IInv == /\ IdTypeOK
        /\ \A i \in Ids : HoldInv(i)
        /\ \A p \in Procs : CallInv(p) /\ SweepInv(p)

\* At first nothing is claimed, held, written, called or swept.
LEMMA InitIInv == IdInit => IInv
  BY IdsAssumption, FaultsAssumption DEF IdInit, IInv, IdTypeOK, HoldInv, CallInv, SweepInv, Active,
     Receipt, Status, Terminal, Call, CallPc, NoCall, Sweep, NoSweep, Phases

-----------------------------------------------------------------------------
(* Types. *)

\* A call that moves on stays a call.
LEMMA GotoType ==
    ASSUME NEW p \in Procs, call \in [Procs -> Call], \E pc \in CallPc : Goto(p, pc)
    PROVE  call' \in [Procs -> Call]
  BY DEF Goto, Call

\* A sweep that starts, drops a hold or moves on to another step stays a sweep.
LEMMA SweepTypes ==
    ASSUME NEW s \in Sweep
    PROVE  /\ NoSweep \in Sweep
           /\ \A T \in SUBSET Ids : [NoSweep EXCEPT !.todo = T] \in Sweep
           /\ [s EXCEPT !.pc = "release"] \in Sweep
  BY DEF Sweep, NoSweep, Receipt

\* A sweep that is done with a hold stays a sweep.
LEMMA DropType ==
    ASSUME NEW p \in Procs, sweep \in [Procs -> Sweep], NEW i, Drop(p, i)
    PROVE  sweep' \in [Procs -> Sweep]
  <1>1. sweep[p].todo \ {i} \in SUBSET Ids
    BY DEF Sweep
  <1> QED
    BY <1>1, SweepTypes DEF Drop

\* Every transaction keeps the types, and a receipt is committed in the
\* transaction that inserts the row and in no other.
LEMMA TypeStep == ASSUME IInv, IdNext PROVE IdTypeOK'
  <1> USE DEF IdTypeOK, IInv
  <1>0. /\ \A p \in Procs : call[p] \in Call /\ sweep[p] \in Sweep
        /\ Fault => faults' \in 0..MaxFaults
        /\ Answers \subseteq CallPc
    BY FaultsAssumption DEF Fault, Answers, CallPc
  <1>1. ASSUME NEW p \in Procs, CallStep(p) PROVE IdTypeOK'
    <2>1. \E pc \in CallPc : Goto(p, pc)
      <3>1. CASE Recover(p) \/ Claim(p) \/ Guard(p) \/ GiveBack(p)
        BY <3>1 DEF Recover, Claim, Guard, GiveBack, Tries, CallPc
      <3>2. CASE HoldTaken(p) \/ HoldRefused(p) \/ Insert(p) \/ Reread(p)
        BY <3>2 DEF HoldTaken, HoldRefused, Insert, Reread, CallPc
      <3> QED
        BY <1>1, <3>1, <3>2 DEF CallStep
    <2>2. call' \in [Procs -> Call]
      BY <2>1, GotoType
    <2>3. CASE Recover(p) \/ Claim(p) \/ Guard(p)
      BY <2>2, <2>3 DEF Recover, Claim, Guard, Receipt
    <2>4. CASE HoldTaken(p) \/ HoldRefused(p) \/ Reread(p) \/ GiveBack(p)
      BY <1>0, <2>2, <2>4 DEF HoldTaken, HoldRefused, Reread, GiveBack, Tries, Released
    <2>5. CASE Insert(p)
      <3>1. faults' \in 0..MaxFaults
        BY <1>0, <2>5 DEF Insert
      <3> QED
        BY <2>2, <2>5, <3>1 DEF Insert, CanInsert, Receipt, Status
    <2> QED
      BY <1>1, <2>3, <2>4, <2>5 DEF CallStep
  <1>2. ASSUME NEW p \in Procs, NEW i \in Ids, Begin(p, i) PROVE IdTypeOK'
    BY <1>2 DEF Begin, Call, CallPc
  <1>3. ASSUME NEW p \in Procs, Return(p) PROVE IdTypeOK'
    BY <1>3 DEF Return, Call, CallPc, NoCall
  <1>4. ASSUME NEW p \in Procs, Crash(p) \/ Boot(p) PROVE IdTypeOK'
    <2>1. NoCall \in Call /\ NoSweep \in Sweep
      BY SweepTypes DEF NoCall, Call, CallPc
    <2>2. Crash(p) => crashes' \in 0..MaxCrashes
      BY FaultsAssumption DEF Crash
    <2> QED
      BY <1>4, <2>1, <2>2 DEF Crash, Boot, Phases
  <1>5. ASSUME NEW p \in Procs, SweepStep(p) PROVE IdTypeOK'
    <2>1. CASE SweepUnactivated(p)
      BY <2>1, SweepTypes DEF SweepUnactivated, ListHolds, Phases, Status, Terminal
    <2>2. ASSUME NEW i \in Ids, SweepLook(p, i) PROVE IdTypeOK'
      <3>1. sweep' \in [Procs -> Sweep]
        <4>1. CASE Drop(p, i)
          BY <4>1, DropType
        <4>2. CASE row[i] = "absent"
          BY <1>0, <2>2, <4>2 DEF SweepLook, Tries, Active, Terminal, Sweep
        <4> QED
          BY <2>2, <4>1, <4>2 DEF SweepLook, Tries
      <3>2. hold' \in [Ids -> {"none", "open"} \cup Terminal]
        BY <2>2 DEF SweepLook, Tries, Settled
      <3>3. UNCHANGED <<receipt, row, ready, call, proc, crashes>> /\ faults' \in 0..MaxFaults
        BY <1>0, <2>2 DEF SweepLook, Tries
      <3> QED
        BY <3>1, <3>2, <3>3
    <2>3. CASE SweepAbandon(p)
      <3>1. sweep[p].id \in Ids
        BY <2>3 DEF SweepAbandon, Sweeping, SweepInv
      <3> QED
        BY <1>0, <2>3, <3>1, SweepTypes, DropType DEF SweepAbandon, CanAbandon, Receipt
    <2>4. CASE SweepRelease(p)
      <3>1. sweep[p].id \in Ids
        BY <2>4 DEF SweepRelease, Tries, Sweeping, SweepInv
      <3> QED
        BY <1>0, <2>4, <3>1, DropType DEF SweepRelease, Tries, Released
    <2>5. CASE HoldsSwept(p)
      BY <2>5 DEF HoldsSwept, Phases
    <2> QED
      BY <1>5, <2>1, <2>2, <2>3, <2>4, <2>5 DEF SweepStep
  <1>6. ASSUME NEW p \in Procs, NEW stop \in [Ids -> BOOLEAN], SweepRunning(p, stop) PROVE IdTypeOK'
    BY <1>6, SweepTypes DEF SweepRunning, ListHolds, Phases, Status, Terminal
  <1>7. ASSUME NEW i \in Ids, Activate(i) \/ Pick(i) \/ Settle(i) \/ \E s \in Terminal : End(i, s)
        PROVE  IdTypeOK'
    BY <1>7 DEF Activate, Pick, Settle, Settled, End, Status, Terminal
  <1> QED
    BY <1>1, <1>2, <1>3, <1>4, <1>5, <1>6, <1>7 DEF IdNext

-----------------------------------------------------------------------------
(* Receipts, holds, calls and sweeps. *)

\* A receipt only moves forward: a claim is never withdrawn, an abandonment is
\* for ever, and "claimed" is where a receipt starts and never returns to.
LEMMA ReceiptMoves ==
    ASSUME IInv, IdNext, NEW i \in Ids
    PROVE  /\ receipt[i] # "none" => receipt'[i] # "none"
           /\ receipt[i] = "abandoned" => receipt'[i] = "abandoned"
           /\ receipt'[i] = "claimed" => receipt[i] \in {"none", "claimed"}
  <1> USE DEF IInv, IdTypeOK
  <1>1. ASSUME NEW p \in Procs, CallStep(p) PROVE
            /\ receipt[i] # "none" => receipt'[i] # "none"
            /\ receipt[i] = "abandoned" => receipt'[i] = "abandoned"
            /\ receipt'[i] = "claimed" => receipt[i] \in {"none", "claimed"}
    BY <1>1 DEF CallStep, Recover, Claim, Guard, HoldTaken, HoldRefused, Insert, CanInsert, Reread, GiveBack, Tries
  <1>2. ASSUME NEW p \in Procs, SweepStep(p) PROVE
            /\ receipt[i] # "none" => receipt'[i] # "none"
            /\ receipt[i] = "abandoned" => receipt'[i] = "abandoned"
            /\ receipt'[i] = "claimed" => receipt[i] \in {"none", "claimed"}
    BY <1>2 DEF SweepStep, SweepUnactivated, SweepLook, Tries, SweepAbandon, CanAbandon, SweepRelease, HoldsSwept
  <1>3. ASSUME NEW p \in Procs, \/ (\E k \in Ids : Begin(p, k)) \/ Return(p) \/ Crash(p) \/ Boot(p)
                                \/ \E stop \in [Ids -> BOOLEAN] : SweepRunning(p, stop)
        PROVE  receipt' = receipt
    BY <1>3 DEF Begin, Return, Crash, Boot, SweepRunning
  <1>4. ASSUME NEW k \in Ids, Activate(k) \/ Pick(k) \/ Settle(k) \/ \E s \in Terminal : End(k, s)
        PROVE  receipt' = receipt
    BY <1>4 DEF Activate, Pick, Settle, End
  <1> QED
    BY <1>1, <1>2, <1>3, <1>4 DEF IdNext

\* What a hold says of its row and receipt stays true: the insert finds the
\* hold its own call took, and whoever releases a hold knows that the identity
\* was abandoned and so has no row.
LEMMA HoldKept == ASSUME IInv, IdNext, IdTypeOK', NEW i \in Ids PROVE HoldInv(i)'
  <1> USE DEF IInv, IdTypeOK
  <1>0. HoldInv(i) /\ row[i] \in Status
    OBVIOUS
  <1>1. ASSUME NEW p \in Procs, CallStep(p) PROVE HoldInv(i)'
    <2>0. CallInv(p)
      OBVIOUS
    <2>1. CASE Recover(p) \/ Guard(p) \/ Reread(p)
      BY <1>0, <2>1 DEF Recover, Guard, Reread, HoldInv, Active
    <2>2. CASE Claim(p)
      BY <1>0, <2>2 DEF Claim, HoldInv, Active
    <2>3. CASE HoldTaken(p) \/ HoldRefused(p)
      BY <1>0, <2>0, <2>3 DEF HoldTaken, HoldRefused, HoldInv, CallInv, Active, At, Terminal
    <2>4. CASE Insert(p)
      BY <1>0, <2>0, <2>4 DEF Insert, CanInsert, HoldInv, CallInv, Active, At, Terminal
    <2>5. CASE GiveBack(p)
      <3>1. receipt[call[p].id] = "abandoned" => row[call[p].id] = "absent"
        BY <2>0, <2>5 DEF GiveBack, Tries, At, CallInv
      <3> QED
        BY <1>0, <2>0, <2>5, <3>1 DEF GiveBack, Tries, Released, HoldInv, Active, Terminal
    <2> QED
      BY <1>1, <2>1, <2>2, <2>3, <2>4, <2>5 DEF CallStep
  <1>2. ASSUME NEW p \in Procs, SweepStep(p) PROVE HoldInv(i)'
    <2>0. SweepInv(p)
      OBVIOUS
    <2>1. CASE SweepUnactivated(p)
      BY <1>0, <2>1 DEF SweepUnactivated, HoldInv, Active, Terminal
    <2>2. ASSUME NEW k \in Ids, SweepLook(p, k) PROVE HoldInv(i)'
      BY <1>0, <2>2 DEF SweepLook, Tries, Settled, HoldInv, Active, Terminal
    <2>3. CASE SweepAbandon(p)
      BY <1>0, <2>3 DEF SweepAbandon, CanAbandon, HoldInv, Active
    <2>4. CASE SweepRelease(p)
      <3>1. row[sweep[p].id] = "absent"
        BY <2>0, <2>4 DEF SweepRelease, Tries, Sweeping, SweepInv
      <3> QED
        BY <1>0, <2>4, <3>1 DEF SweepRelease, Tries, Released, HoldInv, Active, Terminal
    <2>5. CASE HoldsSwept(p)
      BY <1>0, <2>5 DEF HoldsSwept, HoldInv, Active
    <2> QED
      BY <1>2, <2>1, <2>2, <2>3, <2>4, <2>5 DEF SweepStep
  <1>3. ASSUME NEW p \in Procs, \/ (\E k \in Ids : Begin(p, k)) \/ Return(p) \/ Crash(p) \/ Boot(p)
        PROVE  HoldInv(i)'
    BY <1>0, <1>3 DEF Begin, Return, Crash, Boot, HoldInv, Active
  <1>4. ASSUME NEW p \in Procs, NEW stop \in [Ids -> BOOLEAN], SweepRunning(p, stop) PROVE HoldInv(i)'
    BY <1>0, <1>4 DEF SweepRunning, HoldInv, Active, Terminal
  <1>5. ASSUME NEW k \in Ids, Activate(k) \/ Pick(k) \/ Settle(k) \/ \E s \in Terminal : End(k, s)
        PROVE  HoldInv(i)'
    BY <1>0, <1>5 DEF Activate, Pick, Settle, Settled, End, HoldInv, Active, Terminal
  <1> QED
    BY <1>1, <1>2, <1>3, <1>4, <1>5 DEF IdNext

\* A call keeps its hold until it inserts: a hold is given back or settled only
\* under a receipt that is no longer just claimed.
LEMMA CallKept == ASSUME IInv, IdNext, IdTypeOK', NEW q \in Procs PROVE CallInv(q)'
  <1> USE DEF IInv, IdTypeOK
  <1> DEFINE i == call[q].id
  <1>0. CallInv(q) /\ call[q] \in Call
    OBVIOUS
  <1>1. ASSUME call'[q] = call[q],
               i \in Ids /\ receipt'[i] = "claimed" /\ hold[i] = "open" => hold'[i] = "open"
        PROVE  CallInv(q)'
    BY <1>0, <1>1, ReceiptMoves DEF CallInv
  <1>2. CASE CallStep(q)
    BY SMTT(30), <1>0, <1>2 DEF CallStep, Recover, Claim, Guard, HoldTaken, HoldRefused, Insert, Reread, GiveBack, Tries,
       Goto, At, CallInv, Call, CallPc, HoldInv, Terminal
  <1>3. ASSUME NEW p \in Procs \ {q}, CallStep(p) PROVE CallInv(q)'
    BY <1>1, <1>3 DEF CallStep, Recover, Claim, Guard, HoldTaken, HoldRefused, Insert, Reread, GiveBack, Tries,
       Goto, Released
  <1>4. ASSUME NEW p \in Procs, SweepStep(p) PROVE CallInv(q)'
    <2>1. \A k \in Ids : receipt'[k] = "claimed" /\ hold[k] = "open" => hold'[k] = "open"
      BY <1>4 DEF SweepStep, SweepUnactivated, SweepLook, Tries, Settled, SweepAbandon, SweepRelease, Released,
         HoldsSwept, Sweeping, SweepInv, Terminal
    <2> QED
      BY <1>1, <1>4, <2>1 DEF SweepStep, SweepUnactivated, SweepLook, Tries, SweepAbandon, SweepRelease, HoldsSwept
  <1>5. ASSUME NEW p \in Procs, NEW k \in Ids, Begin(p, k) PROVE CallInv(q)'
    BY <1>0, <1>1, <1>5 DEF Begin, CallInv
  <1>6. ASSUME NEW p \in Procs, Return(p) \/ Crash(p) PROVE CallInv(q)'
    BY <1>0, <1>1, <1>6 DEF Return, Crash, CallInv, NoCall
  <1>7. ASSUME NEW p \in Procs, Boot(p) \/ \E stop \in [Ids -> BOOLEAN] : SweepRunning(p, stop)
        PROVE  CallInv(q)'
    BY <1>1, <1>7 DEF Boot, SweepRunning
  <1>8. ASSUME NEW k \in Ids, Activate(k) \/ Pick(k) \/ Settle(k) \/ \E s \in Terminal : End(k, s)
        PROVE  CallInv(q)'
    BY <1>1, <1>8 DEF Activate, Pick, Settle, Settled, End, Terminal
  <1> QED
    BY <1>2, <1>3, <1>4, <1>5, <1>6, <1>7, <1>8 DEF IdNext

\* A sweep abandons before it releases, and what it saw abandoned stays so.
LEMMA SweepKept == ASSUME IInv, IdNext, IdTypeOK', NEW q \in Procs PROVE SweepInv(q)'
  <1> USE DEF IInv, IdTypeOK
  <1>0. SweepInv(q) /\ sweep[q] \in Sweep
    OBVIOUS
  <1>1. CASE sweep'[q] = sweep[q]
    BY <1>0, <1>1, ReceiptMoves DEF SweepInv, Sweep
  <1>2. CASE sweep'[q].pc = "look" /\ \A i \in sweep'[q].todo : receipt'[i] # "none"
    BY <1>2 DEF SweepInv
  <1>3. ASSUME NEW i, Drop(q, i) PROVE SweepInv(q)'
    BY <1>0, <1>2, <1>3, ReceiptMoves DEF Drop, NoSweep, SweepInv, Sweep
  <1>4. ASSUME NEW phase, ListHolds(q, phase), UNCHANGED <<receipt, hold>> PROVE SweepInv(q)'
    BY <1>2, <1>4 DEF ListHolds, NoSweep, HoldInv
  <1>5. CASE SweepStep(q)
    <2>1. CASE SweepUnactivated(q)
      BY <1>4, <2>1 DEF SweepUnactivated
    <2>2. ASSUME NEW i \in Ids, SweepLook(q, i) PROVE SweepInv(q)'
      <3>1. CASE Drop(q, i)
        BY <1>3, <3>1
      <3>2. CASE row[i] = "absent"
        BY <1>0, <2>2, <3>2 DEF SweepLook, Tries, Active, Terminal, SweepInv, Sweeping
      <3> QED
        BY <2>2, <3>1, <3>2 DEF SweepLook, Tries
    <2>3. CASE SweepAbandon(q)
      <3>1. CASE Drop(q, sweep[q].id)
        BY <1>3, <3>1
      <3>2. CASE sweep' = [sweep EXCEPT ![q].pc = "release"]
        <4>1. /\ sweep[q].id \in Ids /\ sweep[q].id \in sweep[q].todo
              /\ (sweep[q].saw = "abandoned" => receipt[sweep[q].id] = "abandoned")
          BY <1>0, <2>3 DEF SweepAbandon, Sweeping, SweepInv
        <4>2. sweep'[q] = [sweep[q] EXCEPT !.pc = "release"]
          BY <3>2
        <4>3. CanAbandon(sweep[q].id) \/ sweep[q].saw = "abandoned"
          BY <1>0, <2>3, <4>2 DEF SweepAbandon, Drop, NoSweep, Sweep
        <4>4. receipt'[sweep[q].id] = "abandoned"
          BY <2>3, <4>1, <4>3 DEF SweepAbandon
        <4> QED
          BY <1>0, <4>1, <4>2, <4>4, ReceiptMoves DEF SweepInv, Sweep
      <3> QED
        BY <2>3, <3>1, <3>2 DEF SweepAbandon
    <2>4. CASE SweepRelease(q)
      BY <1>3, <2>4 DEF SweepRelease, Tries
    <2>5. CASE HoldsSwept(q)
      BY <1>1, <2>5 DEF HoldsSwept
    <2> QED
      BY <1>5, <2>1, <2>2, <2>3, <2>4, <2>5 DEF SweepStep
  <1>6. ASSUME NEW p \in Procs \ {q}, SweepStep(p) PROVE SweepInv(q)'
    BY <1>1, <1>6 DEF SweepStep, SweepUnactivated, ListHolds, SweepLook, Tries, SweepAbandon, SweepRelease,
       HoldsSwept, Drop
  <1>7. ASSUME NEW p \in Procs, NEW stop \in [Ids -> BOOLEAN], SweepRunning(p, stop) PROVE SweepInv(q)'
    BY <1>1, <1>4, <1>7 DEF SweepRunning, ListHolds
  <1>8. ASSUME NEW p \in Procs, Crash(p) PROVE SweepInv(q)'
    BY <1>1, <1>2, <1>8 DEF Crash, NoSweep
  <1>9. ASSUME NEW p \in Procs, CallStep(p) \/ Return(p) \/ Boot(p) \/ \E k \in Ids : Begin(p, k)
        PROVE  SweepInv(q)'
    BY <1>1, <1>9 DEF CallStep, Recover, Claim, Guard, HoldTaken, HoldRefused, Insert, Reread, GiveBack, Tries,
       Return, Boot, Begin
  <1>10. ASSUME NEW k \in Ids, Activate(k) \/ Pick(k) \/ Settle(k) \/ \E s \in Terminal : End(k, s)
         PROVE  SweepInv(q)'
    BY <1>1, <1>10 DEF Activate, Pick, Settle, End
  <1> QED
    BY <1>5, <1>6, <1>7, <1>8, <1>9, <1>10 DEF IdNext

\* Each step moves the row and the hold of an identity as the queue's abstract
\* start allows: a hold is taken before there is a row, and released only
\* while there is none.
LEMMA MovesStep ==
    ASSUME IInv, IdNext, NEW i \in Ids
    PROVE  Lifecycle!StatusMoves(i) /\ Lifecycle!StopMoves(i) /\ Lifecycle!HoldMoves(i)
  <1> DEFINE Moves == Lifecycle!StatusMoves(i) /\ Lifecycle!StopMoves(i) /\ Lifecycle!HoldMoves(i)
  <1> USE DEF IInv, IdTypeOK, Lifecycle!StatusMoves, Lifecycle!StopMoves, Lifecycle!HoldMoves,
              Lifecycle!Terminal, Terminal
  <1>0. HoldInv(i) /\ row[i] \in Status
    OBVIOUS
  <1>1. ASSUME row'[i] = row[i], hold'[i] = hold[i] PROVE Moves
    BY <1>1
  <1>2. ASSUME NEW p \in Procs, CallStep(p) PROVE Moves
    <2>0. CallInv(p)
      OBVIOUS
    <2>1. CASE Recover(p) \/ Claim(p) \/ Guard(p) \/ Reread(p)
      BY <1>1, <2>1 DEF Recover, Claim, Guard, Reread
    <2>2. CASE HoldTaken(p) \/ HoldRefused(p)
      BY <1>0, <2>0, <2>2 DEF HoldTaken, HoldRefused, HoldInv, CallInv, At
    <2>3. CASE Insert(p)
      BY <1>0, <2>0, <2>3 DEF Insert, CanInsert, At
    <2>4. CASE GiveBack(p)
      BY <1>0, <2>0, <2>4 DEF GiveBack, Tries, Released, CallInv, At
    <2> QED
      BY <1>2, <2>1, <2>2, <2>3, <2>4 DEF CallStep
  <1>3. ASSUME NEW p \in Procs, SweepStep(p) PROVE Moves
    <2>0. SweepInv(p)
      OBVIOUS
    <2>1. CASE SweepUnactivated(p)
      BY <1>0, <2>1 DEF SweepUnactivated
    <2>2. ASSUME NEW k \in Ids, SweepLook(p, k) PROVE Moves
      BY <1>0, <2>2 DEF SweepLook, Tries, Settled
    <2>3. CASE SweepAbandon(p) \/ HoldsSwept(p)
      BY <1>1, <2>3 DEF SweepAbandon, HoldsSwept
    <2>4. CASE SweepRelease(p)
      BY <1>0, <2>0, <2>4 DEF SweepRelease, Tries, Released, Sweeping, SweepInv
    <2> QED
      BY <1>3, <2>1, <2>2, <2>3, <2>4 DEF SweepStep
  <1>4. ASSUME NEW p \in Procs, \/ (\E k \in Ids : Begin(p, k)) \/ Return(p) \/ Crash(p) \/ Boot(p)
        PROVE  Moves
    BY <1>1, <1>4 DEF Begin, Return, Crash, Boot
  <1>5. ASSUME NEW p \in Procs, NEW stop \in [Ids -> BOOLEAN], SweepRunning(p, stop) PROVE Moves
    BY <1>0, <1>5 DEF SweepRunning
  <1>6. ASSUME NEW k \in Ids, Activate(k) \/ Pick(k) \/ Settle(k) \/ \E s \in Terminal : End(k, s)
        PROVE  Moves
    BY <1>0, <1>6 DEF Activate, Pick, Settle, Settled, End
  <1> QED
    BY <1>2, <1>3, <1>4, <1>5, <1>6 DEF IdNext

-----------------------------------------------------------------------------
(* The theorems. *)

\* The strengthening holds in every behaviour: a hold is safe because the row
\* and the receipt of its identity agree, and a release is safe because what
\* it read about the identity can no longer change.
THEOREM Invariance == IdSpec => []IInv
  <1>1. IInv /\ [IdNext]_idVars => IInv'
    <2>1. ASSUME IInv, IdNext PROVE IInv'
      <3>1. IdTypeOK'
        BY <2>1, TypeStep
      <3> QED
        BY <2>1, <3>1, HoldKept, CallKept, SweepKept DEF IInv
    <2>2. ASSUME IInv, UNCHANGED idVars PROVE IInv'
      BY <2>2 DEF IInv, idVars, IdTypeOK, HoldInv, Active, CallInv, SweepInv
    <2> QED
      BY <2>1, <2>2
  <1> QED
    BY <1>1, InitIInv, PTL DEF IdSpec

\* Receipts, rows, holds, calls and sweeps keep to their types, and a receipt
\* says committed exactly if the row exists.
THEOREM IdTypeCorrect == IdSpec => []IdTypeOK
  <1>1. IInv => IdTypeOK
    BY DEF IInv
  <1> QED
    BY <1>1, Invariance, PTL

\* No restart, sweep or repeated start takes the credits of a queued or running
\* job away.
THEOREM ReservedThroughout == IdSpec => []ReservedWhileActive
  <1>1. IInv => ReservedWhileActive
    BY DEF IInv, HoldInv, ReservedWhileActive
  <1> QED
    BY <1>1, Invariance, PTL

\* Starts under a stable identity implement the same abstract start the queue
\* implements for plain ones.
THEOREM StartsImplementLifecycle == IdSpec => IdentityImplementsLifecycle
  <1>1. IdInit => Lifecycle!Init
    BY DEF IdInit, Lifecycle!Init
  <1>2. IdTypeOK => Lifecycle!TypeOK
    BY DEF IdTypeOK, Lifecycle!TypeOK, Status, Terminal, Lifecycle!Status, Lifecycle!Hold,
       Lifecycle!Terminal
  <1>3. IInv /\ IInv' /\ [IdNext]_idVars => [Lifecycle!Next]_Lifecycle!vars
    <2>1. ASSUME IInv, IInv', IdNext PROVE Lifecycle!Next
      <3>1. Lifecycle!TypeOK'
        BY <2>1 DEF IInv, IdTypeOK, Lifecycle!TypeOK, Status, Terminal, Lifecycle!Status,
           Lifecycle!Hold, Lifecycle!Terminal
      <3> QED
        BY <2>1, <3>1, MovesStep DEF Lifecycle!Next
    <2>2. UNCHANGED idVars => UNCHANGED Lifecycle!vars
      BY DEF idVars, Lifecycle!vars
    <2> QED
      BY <2>1, <2>2
  <1> QED
    BY <1>1, <1>3, Invariance, PTL DEF IdSpec, IdentityImplementsLifecycle, Lifecycle!Spec

-----------------------------------------------------------------------------
(* Holds of abandoned starts. *)

\* Process p will come across the hold of i: it has a boot sweep to list, or
\* lists i and has not lost the race to abandon it, or is in i's own start.
WillMeet(p, i) ==
    \/ proc[p] \in {"down", "running", "holds", "unactivated"}
    \/ call[p].id = i /\ call[p].pc \in {"insert", "reread", "giveback"}
    \/ /\ i \in sweep[p].todo
       /\ sweep[p].pc = "abandon" /\ sweep[p].id = i => sweep[p].saw = "abandoned"

Met(i) == faults = 0 /\ receipt[i] = "abandoned" /\ hold[i] = "open" => \E p \in Procs : WillMeet(p, i)

\* Whoever will come across an open hold of an abandoned identity still will
\* after any step, or has just released it.
LEMMA MeetKept ==
    ASSUME IInv, IdNext, NEW i \in Ids, NEW p \in Procs, WillMeet(p, i), faults' = 0,
           receipt[i] = "abandoned", hold[i] = "open", hold'[i] = "open"
    PROVE  WillMeet(p, i)'
  <1> USE DEF IInv, IdTypeOK
  <1>0. /\ row[i] = "absent" /\ SweepInv(p) /\ sweep[p] \in Sweep /\ call[p] \in Call
        /\ ~Fault
    BY DEF Fault
  <1>1. ASSUME call'[p] = call[p], sweep'[p] = sweep[p], proc'[p] = proc[p] PROVE WillMeet(p, i)'
    BY <1>1 DEF WillMeet
  <1>2. CASE CallStep(p)
    <2>1. Up(p) /\ sweep' = sweep /\ proc' = proc
      BY <1>2 DEF CallStep, Recover, Claim, Guard, HoldTaken, HoldRefused, Insert, Reread, GiveBack, Tries, At
    <2>2. CASE call[p].id = i /\ call[p].pc \in {"insert", "reread", "giveback"}
      <3>1. call[p].pc = "insert" => Goto(p, "reread")
        BY <1>0, <1>2, <2>2 DEF CallStep, Recover, Claim, Guard, HoldTaken, HoldRefused, Insert, CanInsert,
           Reread, GiveBack, Tries, At
      <3>2. call[p].pc = "reread" => Goto(p, "giveback")
        BY <1>0, <1>2, <2>2 DEF CallStep, Recover, Claim, Guard, HoldTaken, HoldRefused, Insert, Reread,
           GiveBack, Tries, At
      <3>3. call[p].pc # "giveback"
        BY <1>0, <1>2, <2>2 DEF CallStep, Recover, Claim, Guard, HoldTaken, HoldRefused, Insert, Reread,
           GiveBack, Tries, At, Released
      <3> QED
        BY <1>0, <2>2, <3>1, <3>2, <3>3 DEF Goto, WillMeet, Call
    <2> QED
      BY <2>1, <2>2 DEF WillMeet, Up
  <1>3. CASE SweepStep(p)
    <2>1. CASE SweepUnactivated(p)
      BY <2>1 DEF SweepUnactivated, ListHolds, NoSweep, WillMeet
    <2>2. ASSUME NEW k \in Ids, SweepLook(p, k) PROVE WillMeet(p, i)'
      BY <1>0, <2>2 DEF SweepLook, Tries, Active, Terminal, Drop, NoSweep, Sweep, Sweeping, WillMeet
    <2>3. CASE SweepAbandon(p)
      <3>1. CASE sweep' = [sweep EXCEPT ![p].pc = "release"]
        BY <1>0, <2>3, <3>1 DEF SweepAbandon, Sweeping, Sweep, WillMeet
      <3>2. CASE Drop(p, sweep[p].id) /\ sweep[p].saw # "abandoned"
        BY <1>0, <2>3, <3>2 DEF SweepAbandon, Sweeping, Drop, NoSweep, Sweep, WillMeet
      <3> QED
        BY <2>3, <3>1, <3>2 DEF SweepAbandon
    <2>4. CASE SweepRelease(p)
      BY <1>0, <2>4 DEF SweepRelease, Tries, Released, Sweeping, Drop, NoSweep, Sweep, WillMeet
    <2>5. CASE HoldsSwept(p)
      BY <1>0, <2>5 DEF HoldsSwept, Sweeping, WillMeet
    <2> QED
      BY <1>3, <2>1, <2>2, <2>3, <2>4, <2>5 DEF SweepStep
  <1>4. CASE Crash(p) \/ Boot(p) \/ \E stop \in [Ids -> BOOLEAN] : SweepRunning(p, stop)
    BY <1>4 DEF Crash, Boot, SweepRunning, ListHolds, WillMeet
  <1>5. CASE Return(p) \/ \E k \in Ids : Begin(p, k)
    BY <1>0, <1>5 DEF Return, Answers, Begin, NoCall, Up, WillMeet
  <1>6. ASSUME NEW q \in Procs \ {p}, \/ CallStep(q) \/ Return(q) \/ Crash(q) \/ Boot(q)
                                      \/ \E k \in Ids : Begin(q, k)
        PROVE  WillMeet(p, i)'
    BY <1>1, <1>6 DEF CallStep, Recover, Claim, Guard, HoldTaken, HoldRefused, Insert, Reread, GiveBack, Tries,
       Goto, Return, Crash, Boot, Begin
  <1>7. ASSUME NEW q \in Procs \ {p}, SweepStep(q) \/ \E stop \in [Ids -> BOOLEAN] : SweepRunning(q, stop)
        PROVE  WillMeet(p, i)'
    BY <1>1, <1>7 DEF SweepStep, SweepUnactivated, SweepRunning, ListHolds, SweepLook, Tries, SweepAbandon,
       SweepRelease, HoldsSwept, Drop
  <1>8. ASSUME NEW k \in Ids, Activate(k) \/ Pick(k) \/ Settle(k) \/ \E s \in Terminal : End(k, s)
        PROVE  WillMeet(p, i)'
    BY <1>1, <1>8 DEF Activate, Pick, Settle, End
  <1> QED
    BY <1>2, <1>3, <1>4, <1>5, <1>6, <1>7, <1>8 DEF IdNext

\* The hold of an identity that is abandoned now is listed by the sweep that
\* abandons it, and one taken after that belongs to a call that returns it.
LEMMA MetKept == ASSUME IInv, IdNext, NEW i \in Ids, Met(i) PROVE Met(i)'
  <1> USE DEF IInv, IdTypeOK
  <1> SUFFICES ASSUME faults' = 0, receipt'[i] = "abandoned", hold'[i] = "open"
               PROVE  \E p \in Procs : WillMeet(p, i)'
    BY DEF Met
  <1>0. ~Fault /\ faults = 0
    <2>1. faults' = faults \/ Fault
      BY DEF IdNext, CallStep, Recover, Claim, Guard, HoldTaken, HoldRefused, Insert, Reread, GiveBack, Tries,
         SweepStep, SweepUnactivated, SweepRunning, SweepLook, SweepAbandon, SweepRelease, HoldsSwept,
         Begin, Return, Crash, Boot, Activate, Pick, Settle, End
    <2> QED
      BY <2>1 DEF Fault
  <1>1. CASE receipt[i] = "abandoned" /\ hold[i] = "open"
    BY <1>0, <1>1, MeetKept DEF Met
  <1>2. CASE receipt[i] # "abandoned"
    <2>1. PICK p \in Procs : SweepAbandon(p) /\ receipt' # receipt
      BY <1>2 DEF IdNext, CallStep, Recover, Claim, Guard, HoldTaken, HoldRefused, Insert, Reread, GiveBack, Tries,
         SweepStep, SweepUnactivated, SweepRunning, SweepLook, SweepRelease, HoldsSwept,
         Begin, Return, Crash, Boot, Activate, Pick, Settle, End
    <2>2. CanAbandon(sweep[p].id) /\ sweep[p].id = i
      BY <1>2, <2>1 DEF SweepAbandon
    <2>3. SweepInv(p) /\ sweep[p] \in Sweep
      OBVIOUS
    <2>4. i \in sweep'[p].todo /\ sweep'[p].pc = "release"
      BY <2>1, <2>2, <2>3 DEF SweepAbandon, Sweeping, SweepInv, Sweep
    <2> QED
      BY <2>4 DEF WillMeet
  <1>3. CASE hold[i] # "open"
    <2>1. PICK p \in Procs : (HoldTaken(p) \/ HoldRefused(p)) /\ hold' # hold
      BY <1>3 DEF IdNext, CallStep, Recover, Claim, Guard, Insert, Reread, GiveBack, Tries, Released,
         SweepStep, SweepUnactivated, SweepRunning, SweepLook, Settled, SweepAbandon, SweepRelease, HoldsSwept,
         Begin, Return, Crash, Boot, Activate, Pick, Settle, End
    <2>2. HoldTaken(p) /\ call[p].id = i
      BY <1>0, <1>3, <2>1 DEF HoldTaken, HoldRefused
    <2>3. call'[p].id = i /\ call'[p].pc = "insert"
      BY <2>2 DEF HoldTaken, Goto, Call
    <2> QED
      BY <2>3 DEF WillMeet
  <1> QED
    BY <1>1, <1>2, <1>3

\* While every call to the database answers, an abandoned start keeps no
\* credits once all processes serve: whichever of two boots gave it up,
\* somebody is still on the way to its hold.
THEOREM AbandonedAreReleased == IdSpec => []AbandonedHoldsNothing
  <1> DEFINE AllMet == \A i \in Ids : Met(i)
  <1>1. IdInit => AllMet
    BY DEF IdInit, Met
  <1>2. IInv /\ AllMet /\ [IdNext]_idVars => AllMet'
    <2>1. ASSUME UNCHANGED idVars, NEW i \in Ids, Met(i) PROVE Met(i)'
      BY <2>1 DEF idVars, Met, WillMeet
    <2> QED
      BY <2>1, MetKept
  <1>3. IInv /\ AllMet => AbandonedHoldsNothing
    BY DEF Met, WillMeet, AbandonedHoldsNothing, InFlight, Up
  <1> QED
    BY <1>1, <1>2, <1>3, Invariance, PTL DEF IdSpec
=============================================================================
