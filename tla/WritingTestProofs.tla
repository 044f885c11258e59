-------------------------- MODULE WritingTestProofs --------------------------
(***************************************************************************)
(* Theorems about WritingTest, for every set of candidates and of          *)
(* requests and every number of attempts, restarts and failed calls.       *)
(***************************************************************************)
EXTENDS WritingTest, TLAPS

-----------------------------------------------------------------------------
(* The inductive invariant, in the parts that speak of one thing each. *)

\* What is under way is about an attempt that was admitted, and dies with the
\* process.
Linked ==
    /\ test.status = "none" => Admitted = {}
    /\ test.job # None => test.job \in Admitted
    /\ cancel # None => Closed /\ cancel \in Admitted
    /\ \A d \in Requests : req[d].pc # "idle" => Up /\ req[d].att \in Admitted
    /\ \A a \in Attempts : /\ row[a] # "absent" => a \in Admitted
                           /\ hook[a] # "none" => row[a] \in Terminal
    /\ run.pc # "idle" => Up /\ run.att \in Attempts /\ row[run.att] = "running"

SweepLinked ==
    /\ sweep.todo \cup sweep.list \subseteq Admitted
    /\ sweep.item.pc # "none" => sweep.item.att \in sweep.todo
    /\ sweep.item.pc = "hook" => sweep.pc = "cancel"
    /\ sweep.item.pc \in {"end", "confirm"} => sweep.pc \in {"closed", "terminal"}

\* Only the newest attempt's candidates are unfinished, and none is when the
\* test stands.
CandInv ==
    /\ test.status \in {"partial", "failed", "review", "completed"} => \A c \in Cands : cand[c] # "pending"
    /\ \A a \in Admitted : Current(a) => \A c \in Cands : cand[c] = "pending" => c \in att[a].ids
    /\ ReviewIsComplete
    /\ test.purged => test.status \notin {"none", "queued", "running", "review"}

\* The sweep takes a missing job for free only of an attempt that is closed.
SweepCost ==
    /\ sweep.pc = "cancel" => \A a \in sweep.list \cup sweep.todo : ~IsOpen(a)
    /\ sweep.pc = "closed" /\ proc # "recover" => \A a \in sweep.todo : ~IsOpen(a)
    /\ sweep.item.pc \in {"end", "confirm"} /\ sweep.item.missing =>
         /\ sweep.pc = "closed" /\ spent[sweep.item.att] = 0
         /\ run.pc = "work" => run.att # sweep.item.att

\* What is known of the cost of an attempt.
CostInv ==
    /\ \A a \in Attempts :
         /\ row[a] = "absent" => spent[a] = 0
         /\ hold[a] = "settled" => row[a] \in Terminal /\ charge[a] = spent[a]
         /\ att[a].settled => ~IsOpen(a) /\ att[a].credits = spent[a]
    /\ run.pc = "work" => ~att[run.att].settled
    /\ SweepCost

\* While the attempts are being recovered nothing but the sweep and its hooks
\* moves, no attempt is open once it began, and it leaves none without its cost
\* whose job has ended.
RecoverInv ==
    proc = "recover" =>
      /\ \A a \in Attempts : /\ row[a] # "running"
                             /\ row[a] \in Terminal => hold[a] = "settled" \/ hook[a] = "settle"
                             /\ hook[a] # "none" => sweep.item.pc = "hook" /\ sweep.item.att = a
      /\ sweep.pc # "terminal"
      /\ sweep.pc # "idle" => \A a \in Attempts : ~IsOpen(a)
      /\ sweep.pc = "closed" => \A a \in Admitted : att[a].settled \/ row[a] = "queued" \/ a \in sweep.todo

\* What a boot has done so far.
BootInv ==
    /\ \A a \in Attempts : row[a] # "absent" => hold[a] # "none"
    /\ proc \in {"down", "jobs"} => sweep = NoSweep /\ \A a \in Attempts : hook[a] = "none"
    /\ sweep.item.pc \in {"end", "confirm"} /\ ~sweep.item.missing => row[sweep.item.att] \in Terminal
    /\ RecoverInv

\* A test that is going on belongs to its newest attempt, and that attempt's
\* job, before it is bound, is ended by nobody.
OwnerInv ==
    /\ test.status \in {"queued", "running"} /\ test.job # None =>
         att[test.job].status \in {"queued", "running"} /\ Current(test.job)
    /\ \A a \in Admitted : Current(a) => test.job \in {None, a}
    /\ \A a, b \in Admitted : att[a].epoch = att[b].epoch => a = b
    /\ \A a \in Attempts : /\ ready[a] => att[a].status \notin {"none", "prepared"}
                           /\ row[a] = "running" => ready[a]
                           /\ hook[a] = "confirm" => ~IsOpen(a)
                           /\ Up /\ att[a].status = "prepared" /\ Current(a) /\ ~Closed
                                => row[a] \in {"absent", "queued"}
    /\ \A d \in Requests : LET a == req[d].att IN
         /\ req[d].pc \in {"bind", "reread", "activate", "cleanup"} => row[a] # "absent"
         /\ req[d].pc = "activate" => att[a].status # "prepared"
         /\ req[d].pc = "cleanup" => Closed \/ ~Current(a)
    /\ NoOrphanRun

IInv == TypeOK /\ Linked /\ SweepLinked /\ CandInv /\ CostInv /\ BootInv /\ OwnerInv

\* Before the test exists nothing is admitted and nothing is under way.
LEMMA InitIInv == Init => IInv
  <1> SUFFICES ASSUME Init PROVE IInv
    OBVIOUS
  <1> USE WritingTestAssumption DEF Init, NoAttempt, NoReq, NoRun, NoItem, NoSweep, None, Attempts
  <1>1. TypeOK
    BY DEF TypeOK, Test, Attempt, Req, Run, Item, Sweep, TestStatus, AttemptStatus, Open, Terminal
  <1>2. Admitted = {}
    BY DEF Admitted
  <1>3. Linked /\ SweepLinked /\ CandInv /\ CostInv /\ BootInv
    BY <1>2 DEF Linked, SweepLinked, CandInv, ReviewIsComplete, CostInv, SweepCost, BootInv, RecoverInv, IsOpen, Open, Terminal
  <1>4. OwnerInv
    BY <1>2 DEF OwnerInv, NoOrphanRun
  <1> QED
    BY <1>1, <1>3, <1>4 DEF IInv

-----------------------------------------------------------------------------
(* Types. *)

\* A write of the test's row is a test row of the next revision.
LEMMA WriteTypes ==
    ASSUME test \in Test, NEW s \in TestStatus, NEW j \in Attempts \cup {None}
    PROVE  /\ Write(s, j) \in Test /\ [Write(s, j) EXCEPT !.purged = TRUE] \in Test
           /\ test.rev <= Write(s, j).rev /\ test.rev \in Nat
           /\ test.rev <= [Write(s, j) EXCEPT !.purged = TRUE].rev
  <1>1. Write(s, j) \in Test
    BY DEF Write, Test
  <1>2. \A t \in Test : [t EXCEPT !.purged = TRUE] \in Test
    BY DEF Test
  <1>3. test.rev <= Write(s, j).rev /\ test.rev \in Nat
    BY DEF Write, Test
  <1>4. test.rev <= [Write(s, j) EXCEPT !.purged = TRUE].rev
    BY DEF Write, Test
  <1> QED
    BY <1>1, <1>2, <1>3, <1>4

\* The revision only counts up, so an epoch that was a revision stays one, and
\* an admission keeps its candidates.
LEMMA AttemptTypes ==
    ASSUME TypeOK, test' \in Test, att' \in [Attempts -> Attempt], test.rev <= test'.rev,
           \A a \in Attempts : att'[a].ids = att[a].ids /\ att'[a].epoch = att[a].epoch
                               /\ (att'[a].status = "none" <=> att[a].status = "none")
    PROVE  \A a \in Attempts : /\ att'[a].status = "none" <=> att'[a].ids = {}
                               /\ att'[a].epoch <= test'.rev
  BY DEF TypeOK, Test, Attempt

\* An attempt whose status alone is written keeps its admission.
LEMMA StatusWritten ==
    ASSUME TypeOK, NEW s \in AttemptStatus \ {"none"}, NEW B \in SUBSET Attempts,
           \A b \in B : att[b].status # "none",
           att' = [b \in Attempts |-> IF b \in B THEN [att[b] EXCEPT !.status = s] ELSE att[b]]
    PROVE  /\ att' \in [Attempts -> Attempt]
           /\ \A b \in Attempts : /\ att'[b].ids = att[b].ids /\ att'[b].epoch = att[b].epoch
                                  /\ att'[b].status = "none" <=> att[b].status = "none"
  <1>1. \A b \in Attempts : att[b] \in Attempt
    BY DEF TypeOK
  <1>2. \A t \in Attempt : /\ [t EXCEPT !.status = s] \in Attempt
                           /\ [t EXCEPT !.status = s].ids = t.ids /\ [t EXCEPT !.status = s].epoch = t.epoch
                           /\ [t EXCEPT !.status = s].status = s
    BY DEF Attempt
  <1> QED
    BY <1>1, <1>2

\* What the terminal hook and the sweep write of an attempt's end.
LEMMA EndTypes ==
    ASSUME TypeOK, NEW a \in Attempts, NEW outcome, EndTestExecution(a, outcome), att[a].status # "none"
    PROVE  /\ test' \in Test /\ cand' \in [Cands -> {"pending", "good", "failed", "cancelled"}]
           /\ att' \in [Attempts -> Attempt]
           /\ \A b \in Attempts : /\ att'[b].status = "none" <=> att'[b].ids = {}
                                  /\ att'[b].epoch <= test'.rev
  <1> DEFINE how == IF outcome = "cancelled" THEN "cancelled" ELSE "failed"
             C == [c \in Cands |-> IF c \in att[a].ids /\ cand[c] = "pending" THEN how ELSE cand[c]]
             s == IF outcome = "cancelled" THEN "cancelled" ELSE StandsAs(C)
             e == IF outcome # "cancelled" /\ AllGood(C) THEN "done" ELSE how
  <1>0. /\ s \in TestStatus /\ how \in AttemptStatus \ {"none"} /\ e \in AttemptStatus \ {"none"}
        /\ test \in Test /\ test.rev <= test.rev
    BY DEF StandsAs, TestStatus, AttemptStatus, Terminal, TypeOK, Test
  <1>1. C \in [Cands -> {"pending", "good", "failed", "cancelled"}]
    BY DEF TypeOK
  <1>2. CASE UNCHANGED testVars
    BY <1>2 DEF testVars, TypeOK
  <1>3. CASE att' = [att EXCEPT ![a].status = how] /\ UNCHANGED <<test, cand>>
    <2>1. att' = [b \in Attempts |-> IF b \in {a} THEN [att[b] EXCEPT !.status = how] ELSE att[b]]
      BY <1>3 DEF TypeOK
    <2> HIDE DEF how
    <2>2. {a} \in SUBSET Attempts /\ \A b \in {a} : att[b].status # "none"
      OBVIOUS
    <2>3. /\ att' \in [Attempts -> Attempt]
          /\ \A b \in Attempts : /\ att'[b].ids = att[b].ids /\ att'[b].epoch = att[b].epoch
                                 /\ att'[b].status = "none" <=> att[b].status = "none"
      BY <1>0, <2>1, <2>2, StatusWritten
    <2> QED
      BY <1>0, <1>3, <2>3, AttemptTypes DEF TypeOK
  <1>4. CASE /\ cand' = C /\ test' = Write(s, a)
             /\ att' = [att EXCEPT ![a].status = e]
    <2>1. att' = [b \in Attempts |-> IF b \in {a} THEN [att[b] EXCEPT !.status = e] ELSE att[b]]
      BY <1>4 DEF TypeOK
    <2> HIDE DEF e, s, C
    <2>2. {a} \in SUBSET Attempts /\ \A b \in {a} : att[b].status # "none"
      OBVIOUS
    <2>3. /\ att' \in [Attempts -> Attempt]
          /\ \A b \in Attempts : /\ att'[b].ids = att[b].ids /\ att'[b].epoch = att[b].epoch
                                 /\ att'[b].status = "none" <=> att[b].status = "none"
      BY <1>0, <2>1, <2>2, StatusWritten
    <2>4. test' \in Test /\ test.rev <= test'.rev
      BY <1>0, <1>4, WriteTypes
    <2> QED
      BY <1>0, <1>1, <1>4, <2>3, <2>4, AttemptTypes
  <1> QED
    BY <1>2, <1>3, <1>4 DEF EndTestExecution

RowsOK ==
    /\ test \in Test /\ cand \in [Cands -> {"pending", "good", "failed", "cancelled"}]
    /\ att \in [Attempts -> Attempt]
    /\ \A a \in Attempts : /\ att[a].status = "none" <=> att[a].ids = {}
                           /\ att[a].epoch <= test.rev

\* Closing the open attempts is such a write.
LEMMA OpenCancelledTypes ==
    ASSUME TypeOK, att' = OpenCancelled
    PROVE  /\ att' \in [Attempts -> Attempt]
           /\ \A b \in Attempts : /\ att'[b].ids = att[b].ids /\ att'[b].epoch = att[b].epoch
                                  /\ att'[b].status = "none" <=> att[b].status = "none"
  <1> DEFINE B == {b \in Attempts : IsOpen(b)}
  <1>1. "cancelled" \in AttemptStatus \ {"none"} /\ B \in SUBSET Attempts
    BY DEF AttemptStatus, Terminal
  <1>2. \A b \in B : att[b].status # "none"
    BY DEF IsOpen, Open
  <1>3. att' = [b \in Attempts |-> IF b \in B THEN [att[b] EXCEPT !.status = "cancelled"] ELSE att[b]]
    BY DEF OpenCancelled
  <1> HIDE DEF B
  <1> QED
    BY <1>1, <1>2, <1>3, StatusWritten

\* A settlement that is confirmed writes the attempt's cost and nothing else.
LEMMA ConfirmTypes ==
    ASSUME TypeOK, NEW a \in Attempts, NEW n \in Nat, ConfirmTestSettlement(a, n)
    PROVE  RowsOK'
  <1>1. CASE UNCHANGED testVars
    BY <1>1 DEF testVars, TypeOK, RowsOK
  <1>2. CASE /\ att'  = [att EXCEPT ![a] = [status |-> @.status, epoch |-> @.epoch, ids |-> @.ids,
                                            settled |-> TRUE, credits |-> n]]
             /\ test' = Write(test.status, test.job) /\ UNCHANGED cand
    <2>1. test' \in Test /\ test.rev <= test'.rev
      <3>1. test \in Test /\ test.status \in TestStatus /\ test.job \in Attempts \cup {None}
        BY DEF TypeOK, Test
      <3> QED
        BY <1>2, <3>1, WriteTypes
    <2>2. att' \in [Attempts -> Attempt]
      BY <1>2 DEF TypeOK, Attempt
    <2>3. \A b \in Attempts : att'[b].ids = att[b].ids /\ att'[b].epoch = att[b].epoch
                              /\ (att'[b].status = "none" <=> att[b].status = "none")
      BY <1>2 DEF TypeOK
    <2> QED
      BY <1>2, <2>1, <2>2, <2>3, AttemptTypes DEF TypeOK, RowsOK
  <1> QED
    BY <1>1, <1>2 DEF ConfirmTestSettlement

\* A new attempt has candidates and the revision it was admitted at.
LEMMA AdmitTypes ==
    ASSUME TypeOK, NEW a \in Attempts, NEW ids \in SUBSET Cands, ids # {}, Admit(a, ids),
           test' \in Test, test.rev <= test'.rev
    PROVE  /\ att' \in [Attempts -> Attempt]
           /\ \A b \in Attempts : /\ att'[b].status = "none" <=> att'[b].ids = {}
                                  /\ att'[b].epoch <= test'.rev
  <1>1. test'.rev \in Nat /\ test.rev \in Nat
    BY DEF TypeOK, Test
  <1>2. /\ att'[a] = [status |-> "prepared", epoch |-> test'.rev, ids |-> ids, settled |-> FALSE, credits |-> 0]
        /\ att' = [att EXCEPT ![a] = att'[a]]
        /\ \A b \in Attempts \ {a} : att'[b] = att[b]
    BY DEF Admit, TypeOK
  <1>3. att'[a] \in Attempt
    BY <1>1, <1>2 DEF Attempt, AttemptStatus, Open
  <1>4. \A b \in Attempts \ {a} : att[b].epoch \in Nat
    BY DEF TypeOK, Attempt
  <1>5. att' \in [Attempts -> Attempt]
    BY <1>2, <1>3 DEF TypeOK
  <1>6. \A b \in Attempts \ {a} : (att[b].status = "none" <=> att[b].ids = {}) /\ att[b].epoch <= test'.rev
    BY <1>1, <1>4 DEF TypeOK
  <1>7. (att'[a].status = "none" <=> att'[a].ids = {}) /\ att'[a].epoch <= test'.rev
    BY <1>1, <1>2
  <1> QED
    BY <1>2, <1>5, <1>6, <1>7

\* The rows of the test, its candidates and its attempts keep their types.
LEMMA RowsStep == ASSUME IInv, Next PROVE RowsOK'
  <1>0. /\ TypeOK /\ test \in Test /\ test.rev \in Nat
        /\ test.status \in TestStatus /\ test.job \in Attempts \cup {None}
        /\ \A C : StandsAs(C) \in TestStatus
    BY DEF IInv, TypeOK, Test, StandsAs, TestStatus
  <1> DEFINE CandOK == cand' \in [Cands -> {"pending", "good", "failed", "cancelled"}]
             Kept == \A b \in Attempts : /\ att'[b].ids = att[b].ids /\ att'[b].epoch = att[b].epoch
                                         /\ att'[b].status = "none" <=> att[b].status = "none"
  <1>1. ASSUME UNCHANGED testVars PROVE RowsOK'
    BY <1>0, <1>1 DEF testVars, TypeOK, RowsOK
  <1>2. ASSUME CandOK, att' = att \/ (att' \in [Attempts -> Attempt] /\ Kept), test' = test
                       \/ (\E s \in TestStatus, j \in Attempts \cup {None} : test' = Write(s, j))
                       \/ \E s \in TestStatus : test' = [Write(s, test.job) EXCEPT !.purged = TRUE]
        PROVE  RowsOK'
    <2>1. test' \in Test /\ test.rev <= test'.rev
      <3>1. CASE test' = test
        BY <1>0, <3>1
      <3>2. ASSUME NEW s \in TestStatus, NEW j \in Attempts \cup {None},
                   test' = Write(s, j) \/ test' = [Write(s, j) EXCEPT !.purged = TRUE]
            PROVE  test' \in Test /\ test.rev <= test'.rev
        BY <1>0, <3>2, WriteTypes
      <3> QED
        BY <1>0, <1>2, <3>1, <3>2
    <2>2. att' \in [Attempts -> Attempt] /\ Kept
      BY <1>0, <1>2 DEF TypeOK
    <2> HIDE DEF Kept
    <2>3. \A a \in Attempts : (att'[a].status = "none" <=> att'[a].ids = {}) /\ att'[a].epoch <= test'.rev
      BY <1>0, <2>1, <2>2, AttemptTypes DEF Kept
    <2> QED
      BY <1>2, <2>1, <2>2, <2>3 DEF RowsOK
  <1>3. ASSUME NEW a \in Attempts, NEW s \in AttemptStatus \ {"none"}, att[a].status # "none",
               att' = [att EXCEPT ![a].status = s]
        PROVE  att' \in [Attempts -> Attempt] /\ Kept
    <2>1. att' = [b \in Attempts |-> IF b \in {a} THEN [att[b] EXCEPT !.status = s] ELSE att[b]]
      BY <1>0, <1>3 DEF TypeOK
    <2>2. {a} \in SUBSET Attempts /\ \A b \in {a} : att[b].status # "none"
      BY <1>3
    <2> QED
      BY <1>0, <1>3, <2>1, <2>2, StatusWritten
  <1>4. ASSUME NEW ids \in SUBSET Cands, ids # {}, NEW a \in Attempts, Admit(a, ids), CandOK,
               NEW j \in Attempts \cup {None}, test' = Write("queued", j)
        PROVE  RowsOK'
    <2>1. test' \in Test /\ test.rev <= test'.rev
      BY <1>0, <1>4, WriteTypes DEF TestStatus
    <2> QED
      BY <1>0, <1>4, <2>1, AdmitTypes DEF RowsOK
  <1>5. CASE Start
    <2>1. CandOK /\ 1 \in Attempts /\ Cands \in SUBSET Cands /\ Cands # {}
      BY <1>0, <1>5, WritingTestAssumption DEF Start, TypeOK, Attempts
    <2> QED
      BY <1>0, <1>4, <1>5, <2>1 DEF Start
  <1>6. ASSUME NEW ids \in SUBSET Cands, Retry(ids) PROVE RowsOK'
    <2>1. CandOK
      BY <1>0, <1>6 DEF Retry, TypeOK
    <2> QED
      BY <1>4, <1>6, <2>1 DEF Retry, Admitted
  <1>7. ASSUME NEW d \in Requests, Process(d) PROVE RowsOK'
    <2>1. CASE Bind(d) /\ att' = [att EXCEPT ![req[d].att].status = "queued"]
      <3>0. req[d].att \in Attempts /\ att[req[d].att].status # "none"
        BY <2>1 DEF Bind, AtPc, IInv, Linked, Admitted
      <3>1. att' \in [Attempts -> Attempt] /\ Kept
        <4>1. "queued" \in AttemptStatus \ {"none"}
          BY DEF AttemptStatus, Open
        <4> QED
          BY <1>3, <2>1, <3>0, <4>1
      <3>2. CandOK /\ (test' = test \/ test' = Write(test.status, req[d].att))
        BY <1>0, <2>1 DEF Bind, TypeOK
      <3> QED
        BY <1>0, <1>2, <3>0, <3>1, <3>2
    <2>2. CASE ~(Bind(d) /\ att' = [att EXCEPT ![req[d].att].status = "queued"])
      BY <1>1, <1>7, <2>2 DEF Process, Dispatch, Enqueue, Bind, Reread, Activate, Cleanup, testVars
    <2> QED
      BY <2>1, <2>2
  <1>8. CASE CancelTest
    <2>1. CandOK
      BY <1>0, <1>8 DEF CancelTest, Unfinished, TypeOK
    <2>2. att' \in [Attempts -> Attempt] /\ Kept
      BY <1>0, <1>8, OpenCancelledTypes DEF CancelTest
    <2> QED
      BY <1>0, <1>2, <1>8, <2>1, <2>2 DEF CancelTest, TestStatus
  <1>9. CASE CancelBound
    BY <1>1, <1>9 DEF CancelBound
  <1>10. CASE Decide
    BY <1>0, <1>2, <1>10 DEF Decide, TestStatus, TypeOK
  <1>11. CASE Purge
    <2>1. att' \in [Attempts -> Attempt] /\ Kept
      BY <1>0, <1>11, OpenCancelledTypes DEF Purge
    <2>2. \E s \in TestStatus : test' = [Write(s, test.job) EXCEPT !.purged = TRUE]
      BY <1>0, <1>11 DEF Purge, TestStatus
    <2> QED
      BY <1>0, <1>2, <1>11, <2>1, <2>2 DEF Purge, TypeOK
  <1>12. CASE Worker
    <2>0. run.pc # "idle" => run.att \in Attempts /\ att[run.att].status # "none"
      BY DEF IInv, Linked, Admitted
    <2>1. CASE BeginTestExecution
      <3>1. att' \in [Attempts -> Attempt] /\ Kept
        BY <1>3, <2>0, <2>1 DEF BeginTestExecution, AttemptStatus, Open
      <3> QED
        BY <1>0, <1>2, <2>1, <3>1 DEF BeginTestExecution, TypeOK, TestStatus
    <2>2. ASSUME NEW c \in Cands, NEW outcome \in {"good", "failed"}, RunCandidate(c, outcome) PROVE RowsOK'
      BY <1>0, <1>2, <2>2 DEF RunCandidate, TypeOK
    <2>3. CASE FinishTestExecution
      <3>1. CandOK
        BY <1>0, <2>3 DEF FinishTestExecution, Unfinished, TypeOK
      <3>2. \E s \in AttemptStatus \ {"none"} : att' = [att EXCEPT ![run.att].status = s]
        BY <2>3 DEF FinishTestExecution, AttemptStatus, Terminal
      <3>3. att' \in [Attempts -> Attempt] /\ Kept
        BY <1>3, <2>0, <2>3, <3>2 DEF FinishTestExecution
      <3> QED
        BY <1>0, <1>2, <2>3, <3>1, <3>3 DEF FinishTestExecution
    <2>4. CASE GiveUp \/ EndJob \/ \E a \in Attempts : Pick(a)
      BY <1>1, <2>4 DEF GiveUp, EndJob, Pick
    <2> QED
      BY <1>12, <2>1, <2>2, <2>3, <2>4 DEF Worker
  <1>13. ASSUME NEW a \in Attempts, NEW outcome, EndTestExecution(a, outcome), att[a].status # "none"
         PROVE  RowsOK'
    BY <1>0, <1>13, EndTypes DEF RowsOK
  <1>14. ASSUME NEW a \in Attempts, Hook(a) PROVE RowsOK'
    <2>1. CASE HookSettle(a)
      BY <1>1, <2>1 DEF HookSettle
    <2>2. CASE HookEnd(a)
      <3>1. att[a].status # "none"
        BY <2>2 DEF HookEnd, IInv, Linked, Admitted, Terminal
      <3> QED
        BY <1>13, <2>2, <3>1 DEF HookEnd
    <2>3. CASE HookConfirm(a)
      BY <1>0, <1>1, <2>3, ConfirmTypes DEF HookConfirm, TypeOK
    <2> QED
      BY <1>14, <2>1, <2>2, <2>3 DEF Hook
  <1>15. CASE Sweeper
    <2>0. sweep.item.pc # "none" => sweep.item.att \in Attempts /\ att[sweep.item.att].status # "none"
      BY DEF IInv, SweepLinked, Admitted
    <2>1. CASE SweepEnds
      BY <1>13, <2>0, <2>1 DEF SweepEnds
    <2>2. CASE SweepConfirms
      <3>1. 0 \in Nat /\ charge[sweep.item.att] \in Nat
        BY <1>0, <2>0, <2>2 DEF SweepConfirms, TypeOK
      <3> QED
        BY <1>0, <1>1, <2>0, <2>2, <3>1, ConfirmTypes DEF SweepConfirms
    <2>3. CASE ~SweepEnds /\ ~SweepConfirms
      BY <1>1, <1>15, <2>3 DEF Sweeper, SweepStarts, SweepCancel, SweepCancelled, SweepReconciles, SweepGoesOn,
         SweepLooks
    <2> QED
      BY <2>1, <2>2, <2>3
  <1>16. CASE Booting
    <2>1. CASE RecoverInterruptedTests /\ att' = OpenCancelled /\ UNCHANGED <<test, cand>>
      <3>1. att' \in [Attempts -> Attempt] /\ Kept
        BY <1>0, <2>1, OpenCancelledTypes
      <3> QED
        BY <1>0, <1>2, <2>1, <3>1 DEF TypeOK
    <2>2. CASE RecoverInterruptedTests /\ ~(att' = OpenCancelled /\ UNCHANGED <<test, cand>>)
      <3> DEFINE C == Unfinished("failed")
                 open == {a \in Attempts : IsOpen(a)}
                 s == IF AllGood(C) THEN "done" ELSE "uncertain"
      <3>1. /\ cand' = C /\ test' = Write(StandsAs(C), test.job)
            /\ att' = [a \in Attempts |-> IF a \in open THEN [att[a] EXCEPT !.status = s] ELSE att[a]]
        BY <2>2 DEF RecoverInterruptedTests
      <3>2. CandOK
        BY <1>0, <3>1 DEF Unfinished, TypeOK
      <3>3. s \in AttemptStatus \ {"none"} /\ open \in SUBSET Attempts /\ \A b \in open : att[b].status # "none"
        BY DEF AttemptStatus, Terminal, IsOpen, Open
      <3> HIDE DEF C, open, s
      <3>4. att' \in [Attempts -> Attempt] /\ Kept
        BY <1>0, <3>1, <3>3, StatusWritten
      <3> QED
        BY <1>0, <1>2, <3>1, <3>2, <3>4
    <2>3. CASE Boot \/ BootJobs
      BY <1>1, <2>3 DEF Boot, BootJobs
    <2> QED
      BY <1>16, <2>1, <2>2, <2>3 DEF Booting
  <1>17. CASE Crash
    BY <1>1, <1>17 DEF Crash
  <1> QED
    BY <1>5, <1>6, <1>7, <1>8, <1>9, <1>10, <1>11, <1>12, <1>14, <1>15, <1>16, <1>17 DEF Next

JobsOK ==
    /\ row    \in [Attempts -> {"absent", "queued", "running"} \cup Terminal]
    /\ ready  \in [Attempts -> BOOLEAN] /\ stop \in [Attempts -> BOOLEAN]
    /\ hold   \in [Attempts -> {"none", "open", "settled"}]
    /\ spent  \in [Attempts -> Nat] /\ charge \in [Attempts -> Nat]
    /\ hook   \in [Attempts -> {"none", "settle", "end", "confirm"}]
ProcessOK ==
    /\ proc   \in {"down", "jobs", "recover", "up"}
    /\ req    \in [Requests -> Req]
    /\ cancel \in Attempts \cup {None}
    /\ run    \in Run
    /\ sweep  \in Sweep
    /\ crashes \in Nat /\ faults \in Nat /\ crashes + faults <= MaxMishaps

\* The jobs' rows, their holds and the hooks after them keep their types.
LEMMA JobsStep == ASSUME IInv, Next PROVE JobsOK'
  <1> USE DEF JobsOK
  <1>0. JobsOK /\ (run.pc # "idle" => run.att \in Attempts)
    BY DEF IInv, TypeOK, Linked
  <1>1. ASSUME UNCHANGED <<jobVars, hook>> PROVE JobsOK'
    BY <1>0, <1>1 DEF jobVars
  <1>2. ASSUME NEW d \in Requests, Process(d) PROVE JobsOK'
    <2>0. req[d].pc # "idle" => req[d].att \in Attempts
      BY DEF IInv, Linked, Admitted
    <2>1. CASE Enqueue(d)
      BY <1>0, <2>0, <2>1 DEF Enqueue, AtPc
    <2>2. CASE Activate(d)
      BY <1>0, <2>0, <2>2 DEF Activate, AtPc
    <2>3. CASE Cleanup(d)
      BY <1>0, <2>0, <2>3 DEF Cleanup, AtPc, CancelJob, Terminal
    <2>4. CASE Dispatch(d) \/ Bind(d) \/ Reread(d)
      BY <1>1, <2>4 DEF Dispatch, Bind, Reread
    <2> QED
      BY <1>2, <2>1, <2>2, <2>3, <2>4 DEF Process
  <1>3. CASE CancelBound
    BY <1>0, <1>3 DEF CancelBound, CancelJob, Terminal, IInv, TypeOK
  <1>4. CASE Worker
    <2>1. ASSUME NEW c \in Cands, NEW outcome \in {"good", "failed"}, RunCandidate(c, outcome) PROVE JobsOK'
      BY <1>0, <2>1 DEF RunCandidate
    <2>2. CASE EndJob
      BY <1>0, <2>2 DEF EndJob, HookAfter, Terminal
    <2>3. ASSUME NEW a \in Attempts, Pick(a) PROVE JobsOK'
      BY <1>0, <2>3 DEF Pick
    <2>4. CASE BeginTestExecution \/ FinishTestExecution \/ GiveUp
      BY <1>1, <2>4 DEF BeginTestExecution, FinishTestExecution, GiveUp
    <2> QED
      BY <1>4, <2>1, <2>2, <2>3, <2>4 DEF Worker
  <1>5. ASSUME NEW a \in Attempts, Hook(a) PROVE JobsOK'
    <2>1. CASE HookSettle(a)
      BY <1>0, <2>1 DEF HookSettle, SettleHold
    <2>2. CASE HookEnd(a) \/ HookConfirm(a)
      BY <1>0, <2>2 DEF HookEnd, HookConfirm, jobVars
    <2> QED
      BY <1>5, <2>1, <2>2 DEF Hook
  <1>6. CASE Sweeper
    <2>1. ASSUME NEW a \in Attempts, SweepCancel(a) PROVE JobsOK'
      BY <1>0, <2>1 DEF SweepCancel, CancelJob, Terminal
    <2>2. CASE \A a \in Attempts : ~SweepCancel(a)
      BY <1>1, <1>6, <2>2 DEF Sweeper, SweepStarts, SweepCancelled, SweepReconciles, SweepGoesOn, SweepLooks,
         SweepEnds, SweepConfirms
    <2> QED
      BY <2>1, <2>2
  <1>7. CASE Booting
    <2>1. CASE BootJobs
      BY <1>0, <2>1 DEF BootJobs, Terminal
    <2>2. CASE Boot \/ RecoverInterruptedTests
      BY <1>1, <2>2 DEF Boot, RecoverInterruptedTests
    <2> QED
      BY <1>7, <2>1, <2>2 DEF Booting
  <1>8. CASE Crash
    BY <1>0, <1>8 DEF Crash, jobVars
  <1>9. CASE Start \/ (\E ids \in SUBSET Cands : Retry(ids)) \/ CancelTest \/ Decide \/ Purge
    BY <1>1, <1>9 DEF Start, Retry, Admit, CancelTest, Decide, Purge
  <1> QED
    BY <1>2, <1>3, <1>4, <1>5, <1>6, <1>7, <1>8, <1>9 DEF Next

\* The process and what runs in it keep their types.
LEMMA ProcessStep == ASSUME IInv, Next PROVE ProcessOK'
  <1> USE DEF ProcessOK
  <1>0. /\ ProcessOK /\ att \in [Attempts -> Attempt]
        /\ NoReq \in Req /\ NoRun \in Run /\ NoItem \in Item /\ NoSweep \in Sweep
    BY DEF IInv, TypeOK, NoReq, Req, NoRun, Run, NoItem, Item, NoSweep, Sweep
  <1>1. Fault => faults' \in Nat /\ crashes + faults' <= MaxMishaps
    BY <1>0, WritingTestAssumption DEF Fault
  <1>2. \A t \in Item : [sweep EXCEPT !.item = t] \in Sweep
    BY <1>0 DEF Sweep
  <1>3. \A S \in SUBSET Attempts : SweepFrom(S) => sweep' \in Sweep
    BY <1>0 DEF SweepFrom, Sweep
  <1>4. \A S \in SUBSET Attempts, pc \in {"cancel", "closed", "terminal"} : SweepTo(pc, S) => sweep' \in Sweep
    BY <1>0 DEF SweepTo, Sweep
  <1>5. sweep.todo \in SUBSET Attempts /\ sweep.list \in SUBSET Attempts /\ sweep.item \in Item
    BY <1>0 DEF Sweep
  <1>6. CASE UNCHANGED <<proc, req, cancel, run, sweep, crashes, faults>>
    BY <1>0, <1>6
  <1>7. ASSUME NEW d \in Requests, Process(d) PROVE ProcessOK'
    <2>1. \A pc \in {"start", "bind", "reread", "activate", "cleanup"} : [req[d] EXCEPT !.pc = pc] \in Req
      BY <1>0 DEF Req
    <2>2. \A pc \in {"idle", "bind", "reread", "activate", "cleanup"} : Then(d, pc) => req' \in [Requests -> Req]
      BY <1>0, <2>1 DEF Then, Request
    <2>3. req' \in [Requests -> Req]
      <3>1. CASE Dispatch(d)
        BY <1>0, <3>1 DEF Dispatch, Request, Req, Admitted
      <3>2. CASE ~Dispatch(d)
        BY <1>7, <2>2, <3>2 DEF Process, Enqueue, Bind, Reread, Activate, Cleanup
      <3> QED
        BY <3>1, <3>2
    <2>4. UNCHANGED <<proc, cancel, run, sweep, crashes>> /\ (faults' = faults \/ Fault)
      BY <1>7 DEF Process, Dispatch, Enqueue, Bind, Reread, Activate, Cleanup
    <2> QED
      BY <1>0, <1>1, <2>3, <2>4
  <1>8. CASE CancelTest \/ CancelBound
    <2>1. test.job \in Attempts \cup {None}
      BY DEF IInv, TypeOK, Test
    <2> QED
      BY <1>0, <1>8, <2>1 DEF CancelTest, CancelBound
  <1>9. CASE Purge \/ SweepStarts
    <2>1. \E S \in SUBSET Attempts : SweepFrom(S)
      BY <1>9 DEF Purge, SweepStarts, CancelledUnsettled, Admitted
    <2> QED
      BY <1>0, <1>3, <1>9, <2>1 DEF Purge, SweepStarts
  <1>10. CASE Worker
    <2>0. run.att \in Attempts \cup {None} /\ run.left \in SUBSET Cands /\ run.err \in BOOLEAN
      BY <1>0 DEF Run
    <2>1. ASSUME NEW a \in Attempts, Pick(a) PROVE ProcessOK'
      BY <1>0, <2>1 DEF Pick, Run
    <2>2. CASE BeginTestExecution
      <3>1. run.att \in Attempts
        BY <2>2 DEF BeginTestExecution, IInv, Linked
      <3>2. att[run.att].ids \in SUBSET Cands
        BY <1>0, <3>1 DEF Attempt
      <3> QED
        BY <1>0, <2>2, <3>1, <3>2 DEF BeginTestExecution, Run
    <2>3. ASSUME NEW c \in Cands, NEW outcome \in {"good", "failed"}, RunCandidate(c, outcome) PROVE ProcessOK'
      BY <1>0, <2>0, <2>3 DEF RunCandidate, Run
    <2>4. CASE FinishTestExecution
      BY <1>0, <2>4 DEF FinishTestExecution, Run
    <2>5. CASE GiveUp
      BY <1>0, <1>1, <2>0, <2>5 DEF GiveUp, Run
    <2>6. CASE EndJob
      BY <1>0, <2>6 DEF EndJob
    <2> QED
      BY <1>10, <2>1, <2>2, <2>3, <2>4, <2>5, <2>6 DEF Worker
  <1>11. CASE Sweeper /\ ~SweepStarts
    <2>1. ASSUME NEW a \in Attempts, SweepCancel(a) PROVE ProcessOK'
      <3>1. [pc |-> "hook", att |-> a, missing |-> FALSE] \in Item
        BY DEF Item
      <3> QED
        BY <1>0, <1>2, <2>1, <3>1 DEF SweepCancel, Look
    <2>2. CASE SweepCancelled
      <3>1. sweep.todo \ {sweep.item.att} \in SUBSET Attempts
        BY <1>5
      <3> QED
        BY <1>0, <1>4, <2>2, <3>1 DEF SweepCancelled
    <2>3. CASE SweepReconciles
      <3>1. MayBeMissing \in SUBSET Attempts
        BY <1>5 DEF MayBeMissing, Unsettled, Admitted
      <3> QED
        BY <1>0, <1>4, <2>3, <3>1 DEF SweepReconciles
    <2>4. CASE SweepGoesOn
      <3>1. Unsettled \in SUBSET Attempts
        BY DEF Unsettled, Admitted
      <3> QED
        BY <1>0, <1>4, <2>4, <3>1 DEF SweepGoesOn
    <2>5. ASSUME NEW a \in Attempts, SweepLooks(a) PROVE ProcessOK'
      <3>1. [pc |-> "end", att |-> a, missing |-> row[a] = "absent"] \in Item
        BY DEF Item
      <3>2. sweep.todo \ {a} \in SUBSET Attempts
        BY <1>5
      <3> QED
        BY <1>0, <1>2, <1>4, <2>5, <3>1, <3>2 DEF SweepLooks, Look
    <2>6. CASE SweepEnds
      <3>1. [sweep.item EXCEPT !.pc = "confirm"] \in Item
        BY <1>5 DEF Item
      <3> QED
        BY <1>0, <1>2, <2>6, <3>1 DEF SweepEnds, Look
    <2>7. CASE SweepConfirms
      <3>1. sweep.todo \ {sweep.item.att} \in SUBSET Attempts /\ sweep.pc \in {"closed", "terminal"}
        BY <1>5, <2>7 DEF SweepConfirms, IInv, SweepLinked
      <3> QED
        BY <1>0, <1>4, <2>7, <3>1 DEF SweepConfirms
    <2> QED
      BY <1>11, <2>1, <2>2, <2>3, <2>4, <2>5, <2>6, <2>7 DEF Sweeper
  <1>12. CASE Booting
    <2>1. CASE RecoverInterruptedTests
      <3>1. \E S \in SUBSET Attempts : SweepFrom(S)
        BY <2>1 DEF RecoverInterruptedTests, Admitted
      <3> QED
        BY <1>0, <1>3, <2>1, <3>1 DEF RecoverInterruptedTests
    <2>2. CASE Boot \/ BootJobs
      BY <1>0, <2>2 DEF Boot, BootJobs
    <2> QED
      BY <1>12, <2>1, <2>2 DEF Booting
  <1>13. CASE Crash
    BY <1>0, <1>13, WritingTestAssumption DEF Crash
  <1>14. CASE Start \/ (\E ids \in SUBSET Cands : Retry(ids)) \/ Decide \/ \E a \in Attempts : Hook(a)
    BY <1>6, <1>14 DEF Start, Retry, Admit, Decide, Hook, HookSettle, HookEnd, HookConfirm
  <1> QED
    BY <1>7, <1>8, <1>9, <1>10, <1>11, <1>12, <1>13, <1>14 DEF Next

\* Every step keeps the types.
LEMMA TypeStep == ASSUME IInv, Next PROVE TypeOK'
  BY RowsStep, JobsStep, ProcessStep DEF RowsOK, JobsOK, ProcessOK, TypeOK

-----------------------------------------------------------------------------
(* What no step takes back. *)

\* An attempt keeps its admission, never opens again, and keeps the cost that
\* was confirmed for it.
Advances(a) ==
    /\ att'[a].epoch = att[a].epoch /\ att'[a].ids = att[a].ids
    /\ att'[a].status = "none" <=> att[a].status = "none"
    /\ att'[a].status \in Open => att[a].status \in Open
    /\ att'[a].status = "prepared" => att[a].status = "prepared"
    /\ att[a].settled => att'[a].settled /\ att'[a].credits = att[a].credits

\* The one other thing that happens to an attempt is its admission, at a
\* revision no earlier attempt has seen.
Admits(a) ==
    /\ att[a].status = "none"
    /\ att'[a].status = "prepared" /\ ~att'[a].settled
    /\ att'[a].epoch = test.rev + 1 /\ test'.job \in {None, test.job} /\ test'.status = "queued"
    /\ (Start /\ test'.job = test.job) \/ (test'.job = None /\ \E ids \in SUBSET Cands : Retry(ids))
    /\ \A c \in Cands : cand'[c] = "pending" => c \in att'[a].ids \/ cand[c] = "pending"
    /\ \A b \in Attempts \ {a} : Advances(b)

AttemptsMove == (\A a \in Attempts : Advances(a)) \/ \E a \in Attempts : Admits(a)

\* Writing one attempt's status is an advance unless it opens it.
LEMMA StatusAdvances ==
    ASSUME TypeOK, NEW a \in Attempts, NEW s \in AttemptStatus \ {"none", "prepared"},
           att' = [att EXCEPT ![a].status = s],
           att[a].status # "none", s \in Open => att[a].status \in Open,
           NEW b \in Attempts
    PROVE  Advances(b)
  BY DEF TypeOK, Attempt, Advances

\* So does closing the open ones.
LEMMA CancelAdvances ==
    ASSUME TypeOK, att' = OpenCancelled, NEW b \in Attempts PROVE Advances(b)
  <1>1. att[b] \in Attempt
    BY DEF TypeOK
  <1>2. att'[b] = IF IsOpen(b) THEN [att[b] EXCEPT !.status = "cancelled"] ELSE att[b]
    BY DEF OpenCancelled
  <1> QED
    BY <1>1, <1>2 DEF Attempt, Advances, IsOpen, Open

\* An attempt that is ended is ended for good.
LEMMA EndAdvances ==
    ASSUME TypeOK, NEW a \in Attempts, NEW outcome, EndTestExecution(a, outcome), att[a].status # "none",
           NEW b \in Attempts
    PROVE  Advances(b)
  <1>1. CASE UNCHANGED testVars
    BY <1>1 DEF testVars, Advances
  <1>2. ASSUME NEW s \in {"done", "failed", "cancelled"}, att' = [att EXCEPT ![a].status = s]
        PROVE  Advances(b)
    BY <1>2, StatusAdvances DEF AttemptStatus, Terminal, Open
  <1> QED
    BY <1>1, <1>2 DEF EndTestExecution

\* A cost is confirmed once.
LEMMA ConfirmAdvances ==
    ASSUME TypeOK, NEW a \in Attempts, NEW n, ConfirmTestSettlement(a, n), NEW b \in Attempts
    PROVE  Advances(b)
  BY DEF ConfirmTestSettlement, TypeOK, testVars, Advances

\* Each step advances every attempt or admits one.
LEMMA AttemptsStep == ASSUME IInv, Next PROVE AttemptsMove
  <1>0. TypeOK /\ test \in Test /\ test.rev \in Nat
    BY DEF IInv, TypeOK, Test
  <1>1. ASSUME UNCHANGED att PROVE AttemptsMove
    BY <1>1 DEF Advances, AttemptsMove
  <1>2. ASSUME NEW a \in Attempts, NEW ids \in SUBSET Cands, Admit(a, ids), att[a].status = "none",
               NEW j \in {None, test.job}, test' = Write("queued", j),
               (Start /\ j = test.job) \/ (j = None /\ Retry(ids)),
               \A c \in Cands : cand'[c] = "pending" => c \in ids \/ cand[c] = "pending"
        PROVE  AttemptsMove
    <2>1. test'.job = j /\ test'.status = "queued" /\ test'.rev = test.rev + 1
      BY <1>2 DEF Write
    <2>2. /\ att'[a] = [status |-> "prepared", epoch |-> test'.rev, ids |-> ids, settled |-> FALSE, credits |-> 0]
          /\ \A b \in Attempts \ {a} : att'[b] = att[b]
      BY <1>0, <1>2 DEF Admit, TypeOK
    <2>3. \A b \in Attempts \ {a} : Advances(b)
      BY <2>2 DEF Advances
    <2>4. Admits(a)
      BY <1>2, <2>1, <2>2, <2>3 DEF Admits
    <2> QED
      BY <2>4 DEF AttemptsMove
  <1>3. CASE Start
    <2>1. 1 \in Attempts /\ att[1].status = "none"
      BY <1>3, WritingTestAssumption DEF Start, IInv, Linked, Admitted, Attempts
    <2> QED
      BY <1>0, <1>2, <1>3, <2>1 DEF Start
  <1>4. ASSUME NEW ids \in SUBSET Cands, Retry(ids) PROVE AttemptsMove
    <2>1. PICK a \in Attempts \ Admitted : Admit(a, ids)
      BY <1>4 DEF Retry
    <2>2. att[a].status = "none" /\ \A c \in Cands : cand'[c] = "pending" => c \in ids \/ cand[c] = "pending"
      BY <1>4, <2>1 DEF Retry, Admitted
    <2> QED
      BY <1>0, <1>2, <1>4, <2>1, <2>2 DEF Retry
  <1>5. ASSUME NEW d \in Requests, Process(d) PROVE AttemptsMove
    <2>1. CASE Bind(d) /\ att' # att
      <3>1. /\ req[d].att \in Attempts /\ att' = [att EXCEPT ![req[d].att].status = "queued"]
            /\ att[req[d].att].status = "prepared"
        BY <2>1 DEF Bind, AtPc, CanBind, IInv, Linked, Admitted
      <3> QED
        BY <1>0, <3>1, StatusAdvances DEF AttemptStatus, Open, AttemptsMove
    <2>2. CASE att' = att
      BY <1>1, <2>2
    <2> QED
      BY <1>5, <2>1, <2>2 DEF Process, Dispatch, Enqueue, Bind, Reread, Activate, Cleanup, testVars
  <1>6. CASE CancelTest \/ Purge
    BY <1>0, <1>6, CancelAdvances DEF CancelTest, Purge, AttemptsMove
  <1>7. CASE Worker
    <2>0. run.pc # "idle" => run.att \in Attempts
      BY DEF IInv, Linked
    <2>1. CASE BeginTestExecution
      <3>1. run.att \in Attempts /\ att' = [att EXCEPT ![run.att].status = "running"] /\ att[run.att].status = "queued"
        BY <2>0, <2>1 DEF BeginTestExecution
      <3> QED
        BY <1>0, <3>1, StatusAdvances DEF AttemptStatus, Open, AttemptsMove
    <2>2. CASE FinishTestExecution
      <3>1. PICK s \in {"done", "failed"} : att' = [att EXCEPT ![run.att].status = s]
        BY <2>2 DEF FinishTestExecution
      <3>2. run.att \in Attempts /\ att[run.att].status = "running"
        BY <2>0, <2>2 DEF FinishTestExecution
      <3> QED
        BY <1>0, <3>1, <3>2, StatusAdvances DEF AttemptStatus, Open, Terminal, AttemptsMove
    <2>3. CASE ~BeginTestExecution /\ ~FinishTestExecution
      BY <1>1, <1>7, <2>3 DEF Worker, RunCandidate, GiveUp, EndJob, Pick, testVars
    <2> QED
      BY <2>1, <2>2, <2>3
  <1>8. ASSUME NEW a \in Attempts, Hook(a) PROVE AttemptsMove
    <2>1. CASE HookSettle(a)
      BY <1>1, <2>1 DEF HookSettle, testVars
    <2>2. CASE HookEnd(a)
      <3>1. att[a].status # "none"
        BY <2>2 DEF HookEnd, IInv, Linked, Admitted, Terminal
      <3> QED
        BY <1>0, <2>2, <3>1, EndAdvances DEF HookEnd, AttemptsMove
    <2>3. CASE HookConfirm(a)
      BY <1>0, <1>1, <2>3, ConfirmAdvances DEF HookConfirm, testVars, AttemptsMove
    <2> QED
      BY <1>8, <2>1, <2>2, <2>3 DEF Hook
  <1>9. CASE Sweeper
    <2>0. sweep.item.pc # "none" => sweep.item.att \in Attempts /\ att[sweep.item.att].status # "none"
      BY DEF IInv, SweepLinked, Admitted
    <2>1. CASE SweepEnds
      BY <1>0, <2>0, <2>1, EndAdvances DEF SweepEnds, AttemptsMove
    <2>2. CASE SweepConfirms
      BY <1>0, <1>1, <2>0, <2>2, ConfirmAdvances DEF SweepConfirms, testVars, AttemptsMove
    <2>3. CASE ~SweepEnds /\ ~SweepConfirms
      BY <1>1, <1>9, <2>3 DEF Sweeper, SweepStarts, SweepCancel, SweepCancelled, SweepReconciles, SweepGoesOn,
         SweepLooks, testVars
    <2> QED
      BY <2>1, <2>2, <2>3
  <1>10. CASE Booting
    <2>1. CASE RecoverInterruptedTests /\ att' = OpenCancelled
      BY <1>0, <2>1, CancelAdvances DEF AttemptsMove
    <2>2. CASE RecoverInterruptedTests /\ att' # OpenCancelled
      <3>1. PICK s \in {"done", "uncertain"} :
              \A a \in Attempts : att'[a] = IF IsOpen(a) THEN [att[a] EXCEPT !.status = s] ELSE att[a]
        BY <2>2 DEF RecoverInterruptedTests
      <3>2. \A a \in Attempts : att[a] \in Attempt
        BY <1>0 DEF TypeOK
      <3>3. \A a \in Attempts : Advances(a)
        BY <3>1, <3>2 DEF Attempt, Advances, IsOpen, Open
      <3> QED
        BY <3>3 DEF AttemptsMove
    <2>3. CASE Boot \/ BootJobs
      BY <1>1, <2>3 DEF Boot, BootJobs, testVars
    <2> QED
      BY <1>10, <2>1, <2>2, <2>3 DEF Booting
  <1>11. CASE Crash \/ CancelBound \/ Decide
    BY <1>1, <1>11 DEF Crash, CancelBound, Decide, testVars
  <1> QED
    BY <1>3, <1>4, <1>5, <1>6, <1>7, <1>8, <1>9, <1>10, <1>11 DEF Next

\* Attempts stay admitted, none opens or becomes the newest again.
LEMMA Stays ==
    ASSUME IInv, Next
    PROVE  /\ \A a \in Admitted : /\ a \in Admitted'
                                  /\ IsOpen(a)' => IsOpen(a)
                                  /\ Current(a)' => Current(a)
                                  /\ att'[a].status = "prepared" => att[a].status = "prepared"
                                  /\ att'[a].epoch = att[a].epoch /\ att'[a].ids = att[a].ids
                                  /\ att[a].settled => att'[a].settled /\ att'[a].credits = att[a].credits
           /\ \A a \in Attempts : a \notin Admitted /\ a \in Admitted' => Admits(a)
  <1>1. \A a \in Admitted : Advances(a)
    BY AttemptsStep DEF AttemptsMove, Admits, Admitted
  <1>2. \A a \in Admitted : a \in Admitted' /\ att'[a].epoch = att[a].epoch
    BY <1>1 DEF Admitted, Advances
  <1>3. \A a \in Admitted : Current(a)' => Current(a)
    BY <1>2 DEF Current
  <1>4. \A a \in Attempts : a \notin Admitted /\ a \in Admitted' => Admits(a)
    BY AttemptsStep DEF AttemptsMove, Admits, Advances, Admitted
  <1> QED
    BY <1>1, <1>2, <1>3, <1>4 DEF Advances, IsOpen

\* A new attempt is the newest, and alone so.
LEMMA NewestAdmitted ==
    ASSUME IInv, Next, TypeOK', NEW a \in Attempts, Admits(a), NEW b \in Admitted
    PROVE  ~Current(b)' /\ b # a
  <1>1. b # a /\ att'[b].epoch = att[b].epoch /\ att[b].epoch <= test.rev /\ att[b].epoch \in Nat
    BY DEF Admits, Admitted, Advances, IInv, TypeOK, Attempt
  <1>2. a \in Admitted' /\ att'[a].epoch = test.rev + 1 /\ test.rev \in Nat
    BY DEF Admits, Admitted, IInv, TypeOK, Test
  <1> QED
    BY <1>1, <1>2 DEF Current

\* What the end of an attempt writes of a test that is closed: nothing.
LEMMA EndClosed ==
    ASSUME NEW a, NEW outcome, EndTestExecution(a, outcome), Closed
    PROVE  UNCHANGED <<test, cand>>
  BY DEF EndTestExecution, testVars

\* A test that was cancelled or purged stays so, and its candidates as they
\* are: whoever began a write before finds the fence closed.
LEMMA ClosedStep ==
    ASSUME IInv, Next, Closed
    PROVE  /\ Closed' /\ (test.purged => test'.purged)
           /\ test.purged \/ test'.status = "cancelled"
           /\ test'.status \notin {"none", "queued", "running", "review"}
           /\ cand' = cand
  <1> DEFINE Goal == /\ Closed' /\ (test.purged => test'.purged)
                     /\ test.purged \/ test'.status = "cancelled"
                     /\ test'.status \notin {"none", "queued", "running", "review"}
                     /\ cand' = cand
  <1>0. /\ test.status \notin {"none", "queued", "running", "review"}
        /\ cand \in [Cands -> {"pending", "good", "failed", "cancelled"}]
        /\ test.status \in {"partial", "failed", "completed"} => \A c \in Cands : cand[c] # "pending"
    BY DEF IInv, CandInv, Closed, TypeOK
  <1>1. ASSUME UNCHANGED <<test, cand>> PROVE Goal
    BY <1>0, <1>1 DEF Closed
  <1>2. CASE CancelTest
    <2>1. test.status \in {"partial", "failed"}
      BY <1>0, <1>2 DEF CancelTest, IInv, TypeOK, Test, TestStatus
    <2>2. cand' = cand
      BY <1>0, <1>2, <2>1 DEF CancelTest, Unfinished
    <2> QED
      BY <1>2, <2>2 DEF CancelTest, Write, Closed
  <1>3. CASE Purge
    BY <1>0, <1>3 DEF Purge, Write, Closed
  <1>4. ASSUME NEW d \in Requests, Process(d) PROVE Goal
    BY <1>1, <1>4 DEF Process, Dispatch, Enqueue, Bind, CanBind, Reread, Activate, Cleanup, testVars
  <1>5. CASE Worker
    BY <1>1, <1>5 DEF Worker, BeginTestExecution, RunCandidate, CanStore, FinishTestExecution, Live, GiveUp,
       EndJob, Pick, testVars
  <1>6. ASSUME NEW a, NEW n, ConfirmTestSettlement(a, n) PROVE Goal
    BY <1>0, <1>1, <1>6 DEF ConfirmTestSettlement, Write, Closed, testVars
  <1>7. ASSUME NEW a \in Attempts, Hook(a) PROVE Goal
    BY <1>1, <1>6, <1>7, EndClosed DEF Hook, HookSettle, HookEnd, HookConfirm, testVars
  <1>8. CASE Sweeper
    BY <1>1, <1>6, <1>8, EndClosed DEF Sweeper, SweepStarts, SweepCancel, SweepCancelled, SweepReconciles,
       SweepGoesOn, SweepLooks, SweepEnds, SweepConfirms, testVars
  <1>9. CASE Booting \/ Crash \/ CancelBound
    BY <1>1, <1>9 DEF Booting, Boot, BootJobs, RecoverInterruptedTests, Crash, CancelBound, testVars
  <1>10. CASE Start \/ (\E ids \in SUBSET Cands : Retry(ids)) \/ Decide
    BY <1>0, <1>10 DEF Start, Retry, Decide, Closed
  <1> QED
    BY <1>2, <1>3, <1>4, <1>5, <1>7, <1>8, <1>9, <1>10 DEF Next

-----------------------------------------------------------------------------
(* What is under way. *)

\* The test exists from its start on, and is bound to admitted attempts' jobs.
LEMMA TestBound ==
    ASSUME IInv, Next
    PROVE  /\ test'.status = "none" => test.status = "none"
           /\ test'.job \in {None, test.job} \cup Admitted
  <1> DEFINE Goal == /\ test'.status = "none" => test.status = "none"
                     /\ test'.job \in {None, test.job} \cup Admitted
  <1>0. \A C : StandsAs(C) # "none"
    BY DEF StandsAs
  <1>1. ASSUME UNCHANGED test PROVE Goal
    BY <1>1
  <1>2. ASSUME NEW a \in Admitted, NEW outcome, EndTestExecution(a, outcome) PROVE Goal
    BY <1>0, <1>1, <1>2 DEF EndTestExecution, testVars, Write
  <1>3. ASSUME NEW a, NEW n, ConfirmTestSettlement(a, n) PROVE Goal
    BY <1>1, <1>3 DEF ConfirmTestSettlement, testVars, Write
  <1>4. CASE Start \/ (\E ids \in SUBSET Cands : Retry(ids)) \/ CancelTest \/ Decide \/ Purge
    BY <1>4 DEF Start, Retry, CancelTest, Decide, Purge, Write
  <1>5. ASSUME NEW d \in Requests, Process(d) PROVE Goal
    <2>1. CASE Bind(d)
      <3>1. req[d].att \in Admitted
        BY <2>1 DEF Bind, AtPc, IInv, Linked
      <3> QED
        BY <1>1, <2>1, <3>1 DEF Bind, Write
    <2> QED
      BY <1>1, <1>5, <2>1 DEF Process, Dispatch, Enqueue, Reread, Activate, Cleanup, testVars
  <1>6. CASE Worker
    BY <1>0, <1>1, <1>6 DEF Worker, BeginTestExecution, RunCandidate, FinishTestExecution, GiveUp,
       EndJob, Pick, testVars, Write
  <1>7. ASSUME NEW a \in Attempts, Hook(a) PROVE Goal
    <2>1. CASE HookEnd(a)
      <3>1. a \in Admitted
        BY <2>1 DEF HookEnd, IInv, Linked, Terminal
      <3> QED
        BY <1>2, <2>1, <3>1 DEF HookEnd
    <2> QED
      BY <1>1, <1>3, <1>7, <2>1 DEF Hook, HookSettle, HookConfirm, testVars
  <1>8. CASE Sweeper
    <2>1. CASE SweepEnds
      <3>1. sweep.item.att \in Admitted
        BY <2>1 DEF SweepEnds, IInv, SweepLinked
      <3> QED
        BY <1>2, <2>1, <3>1 DEF SweepEnds
    <2> QED
      BY <1>1, <1>3, <1>8, <2>1 DEF Sweeper, SweepStarts, SweepCancel, SweepCancelled, SweepReconciles,
         SweepGoesOn, SweepLooks, SweepConfirms, testVars
  <1>9. CASE Booting \/ Crash \/ CancelBound
    BY <1>0, <1>1, <1>9 DEF Booting, Boot, BootJobs, RecoverInterruptedTests, Crash, CancelBound, testVars, Write
  <1> QED
    BY <1>4, <1>5, <1>6, <1>7, <1>8, <1>9 DEF Next

\* Jobs exist for admitted attempts only, and a hook follows an ended job.
LEMMA JobLinked ==
    ASSUME IInv, Next, NEW a \in Attempts
    PROVE  /\ row'[a] # "absent" => a \in Admitted
           /\ hook'[a] # "none" => row'[a] \in Terminal
  <1> DEFINE Goal == /\ row'[a] # "absent" => a \in Admitted
                     /\ hook'[a] # "none" => row'[a] \in Terminal
  <1>0. /\ row[a] # "absent" => a \in Admitted
        /\ hook[a] # "none" => row[a] \in Terminal
        /\ JobsOK
    BY DEF IInv, Linked, TypeOK, JobsOK
  <1>1. ASSUME UNCHANGED row, hook' = [hook EXCEPT ![a] = "none"] \/ UNCHANGED hook PROVE Goal
    BY <1>0, <1>1 DEF JobsOK
  <1>2. ASSUME NEW b \in Attempts, CancelJob(b) PROVE Goal
    BY <1>0, <1>2 DEF CancelJob, JobsOK, Terminal
  <1>3. ASSUME NEW d \in Requests, Process(d) PROVE Goal
    <2>0. req[d].pc # "idle" => req[d].att \in Admitted
      BY DEF IInv, Linked
    <2>1. CASE Enqueue(d)
      BY <1>0, <2>0, <2>1 DEF Enqueue, AtPc, JobsOK, Terminal
    <2>2. CASE Cleanup(d)
      BY <1>2, <2>0, <2>2 DEF Cleanup, AtPc, Admitted
    <2>3. CASE Dispatch(d) \/ Bind(d) \/ Reread(d) \/ Activate(d)
      BY <1>1, <2>3 DEF Dispatch, Bind, Reread, Activate, jobVars
    <2> QED
      BY <1>3, <2>1, <2>2, <2>3 DEF Process
  <1>4. CASE CancelBound
    BY <1>2, <1>4 DEF CancelBound, IInv, Linked, Admitted
  <1>5. CASE Worker
    <2>0. run.pc # "idle" => run.att \in Attempts /\ row[run.att] = "running"
      BY DEF IInv, Linked
    <2>1. CASE EndJob
      BY <1>0, <2>0, <2>1 DEF EndJob, HookAfter, JobsOK, Terminal
    <2>2. ASSUME NEW b \in Attempts, Pick(b) PROVE Goal
      BY <1>0, <2>2 DEF Pick, JobsOK, Terminal
    <2> QED
      BY <1>1, <1>5, <2>1, <2>2 DEF Worker, BeginTestExecution, RunCandidate, FinishTestExecution, GiveUp, jobVars
  <1>6. ASSUME NEW b \in Attempts, Hook(b) PROVE Goal
    BY <1>0, <1>6 DEF Hook, HookSettle, HookEnd, HookConfirm, jobVars, JobsOK
  <1>7. CASE Sweeper
    <2>1. ASSUME NEW b \in Attempts, SweepCancel(b) PROVE Goal
      BY <1>2, <2>1 DEF SweepCancel
    <2> QED
      BY <1>1, <1>7, <2>1 DEF Sweeper, SweepStarts, SweepCancelled, SweepReconciles, SweepGoesOn, SweepLooks,
         SweepEnds, SweepConfirms, jobVars
  <1>8. CASE Booting
    <2>1. CASE BootJobs
      BY <1>0, <2>1 DEF BootJobs, JobsOK, Terminal
    <2> QED
      BY <1>1, <1>8, <2>1 DEF Booting, Boot, RecoverInterruptedTests, jobVars
  <1>9. CASE Crash
    BY <1>0, <1>9 DEF Crash, jobVars
  <1>10. CASE Start \/ (\E ids \in SUBSET Cands : Retry(ids)) \/ CancelTest \/ Decide \/ Purge
    BY <1>1, <1>10 DEF Start, Retry, Admit, CancelTest, Decide, Purge, jobVars
  <1> QED
    BY <1>3, <1>4, <1>5, <1>6, <1>7, <1>8, <1>9, <1>10 DEF Next

\* Requests and handlers run in a process that is up, for admitted attempts;
\* the job a handler runs is running until the handler ends it.
LEMMA RunLinked ==
    ASSUME IInv, Next
    PROVE  /\ \A d \in Requests : req'[d].pc # "idle" => Up' /\ req'[d].att \in Admitted
           /\ run'.pc # "idle" => Up' /\ run'.att \in Attempts /\ row'[run'.att] = "running"
           /\ cancel' # None => Closed' /\ cancel' \in Admitted
  <1> DEFINE ReqGoal == \A d \in Requests : req'[d].pc # "idle" => Up' /\ req'[d].att \in Admitted
             RunGoal == run'.pc # "idle" => Up' /\ run'.att \in Attempts /\ row'[run'.att] = "running"
             CancelGoal == cancel' # None => Closed' /\ cancel' \in Admitted
  <1>0. /\ \A d \in Requests : req[d].pc # "idle" => Up /\ req[d].att \in Admitted
        /\ run.pc # "idle" => Up /\ run.att \in Attempts /\ row[run.att] = "running"
        /\ cancel # None => Closed /\ cancel \in Admitted
        /\ req \in [Requests -> Req] /\ run \in Run /\ row \in [Attempts -> {"absent", "queued", "running"} \cup Terminal]
    BY DEF IInv, Linked, TypeOK
  <1>1. ASSUME proc' = "up" \/ proc' = proc, cancel' \in {cancel, None}, UNCHANGED <<req, run>>,
               \A a \in Attempts : row[a] = "running" => row'[a] = "running"
        PROVE  ReqGoal /\ RunGoal /\ CancelGoal
    BY <1>0, <1>1, ClosedStep DEF Up
  <1>2. ASSUME NEW a \in Attempts, CancelJob(a) PROVE \A b \in Attempts : row[b] = "running" => row'[b] = "running"
    BY <1>0, <1>2 DEF CancelJob
  <1>3. ASSUME NEW d \in Requests, Process(d) PROVE ReqGoal /\ RunGoal /\ CancelGoal
    <2>1. UNCHANGED <<proc, cancel, run>> /\ Up
      BY <1>3 DEF Process, Dispatch, Enqueue, Bind, Reread, Activate, Cleanup, AtPc
    <2>2. \A a \in Attempts : row[a] = "running" => row'[a] = "running"
      <3>1. CASE Enqueue(d)
        BY <1>0, <3>1 DEF Enqueue, AtPc, Admitted
      <3>2. CASE Cleanup(d)
        BY <1>0, <1>2, <3>2 DEF Cleanup, AtPc, Admitted
      <3> QED
        BY <1>3, <3>1, <3>2 DEF Process, Dispatch, Bind, Reread, Activate, jobVars
    <2>3. ReqGoal
      <3>1. ASSUME NEW pc, Then(d, pc), pc = "idle" \/ req[d].pc # "idle" PROVE ReqGoal
        BY <1>0, <2>1, <3>1 DEF Then, Request, NoReq, Up, Req
      <3>2. CASE Dispatch(d)
        BY <1>0, <2>1, <3>2 DEF Dispatch, Request, Up
      <3> QED
        BY <1>3, <3>1, <3>2 DEF Process, Enqueue, Bind, Reread, Activate, Cleanup, AtPc
    <2> QED
      BY <1>0, <2>1, <2>2, <2>3, ClosedStep DEF Up
  <1>4. CASE CancelTest
    <2>1. Closed' /\ UNCHANGED <<proc, req, run, row>> /\ cancel' = test.job
      BY <1>4 DEF CancelTest, Closed, Write, jobVars
    <2>2. cancel' # None => cancel' \in Admitted
      BY <2>1 DEF IInv, Linked
    <2> QED
      BY <1>0, <2>1, <2>2 DEF Up
  <1>5. CASE CancelBound
    BY <1>0, <1>1, <1>2, <1>5 DEF CancelBound, Admitted
  <1>6. CASE Worker
    <2>1. UNCHANGED <<proc, req, cancel>> /\ Up
      BY <1>6 DEF Worker, BeginTestExecution, RunCandidate, FinishTestExecution, GiveUp, EndJob, Pick
    <2>2. RunGoal
      BY <1>0, <1>6, <2>1 DEF Worker, BeginTestExecution, RunCandidate, FinishTestExecution, GiveUp, EndJob, Pick,
         NoRun, Run, jobVars, Up
    <2> QED
      BY <1>0, <2>1, <2>2, ClosedStep DEF Up
  <1>7. CASE Sweeper
    <2>1. \A a \in Attempts : row[a] = "running" => row'[a] = "running"
      BY <1>2, <1>7 DEF Sweeper, SweepStarts, SweepCancel, SweepCancelled, SweepReconciles, SweepGoesOn, SweepLooks,
         SweepEnds, SweepConfirms, jobVars
    <2> QED
      BY <1>1, <1>7, <2>1 DEF Sweeper, SweepStarts, SweepCancel, SweepCancelled, SweepReconciles, SweepGoesOn,
         SweepLooks, SweepEnds, SweepConfirms
  <1>8. CASE Booting
    <2>1. ~Up
      BY <1>8 DEF Booting, Boot, BootJobs, RecoverInterruptedTests, Up
    <2> QED
      BY <1>0, <1>8, <2>1, ClosedStep DEF Booting, Boot, BootJobs, RecoverInterruptedTests
  <1>9. CASE Crash
    BY <1>9 DEF Crash, NoReq, NoRun
  <1>10. CASE Start \/ (\E ids \in SUBSET Cands : Retry(ids)) \/ Decide \/ Purge \/ \E a \in Attempts : Hook(a)
    BY <1>1, <1>10 DEF Start, Retry, Admit, Decide, Purge, Hook, HookSettle, HookEnd, HookConfirm, jobVars
  <1> QED
    BY <1>3, <1>4, <1>5, <1>6, <1>7, <1>8, <1>9, <1>10 DEF Next

\* Together: whatever is under way is about an attempt that was admitted.
LEMMA LinkedStep == ASSUME IInv, Next PROVE Linked'
  <1>1. test'.status = "none" => Admitted' = {}
    <2> SUFFICES ASSUME test'.status = "none" PROVE Admitted' = {}
      OBVIOUS
    <2>1. Admitted = {}
      BY TestBound DEF IInv, Linked
    <2>2. \A a \in Attempts : ~Admits(a)
      BY DEF Admits
    <2> QED
      BY <2>1, <2>2, Stays DEF Admitted
  <1>2. test'.job # None => test'.job \in Admitted'
    BY TestBound, Stays DEF IInv, Linked
  <1> QED
    BY <1>1, <1>2, JobLinked, RunLinked, Stays DEF Linked

\* The sweep works on admitted attempts, one item at a time.
LEMMA SweepLinkedStep == ASSUME IInv, Next PROVE SweepLinked'
  <1>0. /\ SweepLinked /\ sweep \in Sweep /\ sweep.item \in Item
        /\ Admitted \subseteq Admitted'
    BY Stays DEF IInv, TypeOK, Sweep
  <1>1. ASSUME UNCHANGED sweep PROVE SweepLinked'
    BY <1>0, <1>1 DEF SweepLinked
  <1>2. ASSUME NEW S \in SUBSET Admitted, SweepFrom(S) PROVE SweepLinked'
    BY <1>0, <1>2 DEF SweepFrom, NoItem, SweepLinked
  <1>3. ASSUME NEW S \in SUBSET Admitted, NEW pc, SweepTo(pc, S) PROVE SweepLinked'
    BY <1>0, <1>3 DEF SweepTo, NoItem, SweepLinked
  <1>4. CASE sweep' = NoSweep
    BY <1>4 DEF NoSweep, NoItem, SweepLinked
  <1>5. CASE Purge \/ SweepStarts \/ RecoverInterruptedTests
    <2>1. \E S \in SUBSET Admitted : SweepFrom(S)
      BY <1>5 DEF Purge, SweepStarts, RecoverInterruptedTests, CancelledUnsettled
    <2> QED
      BY <1>2, <2>1
  <1>6. CASE Sweeper /\ ~SweepStarts
    <2>1. ASSUME NEW a \in Attempts, SweepCancel(a) PROVE SweepLinked'
      BY <1>0, <2>1 DEF SweepCancel, Look, Foremost, Sweep, SweepLinked
    <2>2. CASE SweepCancelled
      <3>1. sweep.todo \ {sweep.item.att} \in SUBSET Admitted
        BY <1>0 DEF SweepLinked
      <3> QED
        BY <1>3, <2>2, <3>1 DEF SweepCancelled
    <2>3. CASE SweepReconciles
      <3>1. MayBeMissing \in SUBSET Admitted
        BY <1>0 DEF MayBeMissing, Unsettled, SweepLinked
      <3> QED
        BY <1>3, <1>4, <2>3, <3>1 DEF SweepReconciles
    <2>4. CASE SweepGoesOn
      <3>1. Unsettled \in SUBSET Admitted
        BY DEF Unsettled
      <3> QED
        BY <1>3, <1>4, <2>4, <3>1 DEF SweepGoesOn
    <2>5. ASSUME NEW a \in Attempts, SweepLooks(a) PROVE SweepLinked'
      <3>1. sweep.todo \ {a} \in SUBSET Admitted
        BY <1>0 DEF SweepLinked
      <3>2. CASE SweepTo(sweep.pc, sweep.todo \ {a})
        BY <1>3, <3>1, <3>2
      <3>3. CASE Look([pc |-> "end", att |-> a, missing |-> row[a] = "absent"])
        BY <1>0, <2>5, <3>3 DEF SweepLooks, Look, Foremost, Sweep, SweepLinked
      <3> QED
        BY <2>5, <3>2, <3>3 DEF SweepLooks
    <2>6. CASE SweepEnds
      BY <1>0, <2>6 DEF SweepEnds, Look, Sweep, Item, SweepLinked
    <2>7. CASE SweepConfirms
      <3>1. sweep.todo \ {sweep.item.att} \in SUBSET Admitted
        BY <1>0 DEF SweepLinked
      <3> QED
        BY <1>3, <2>7, <3>1 DEF SweepConfirms
    <2> QED
      BY <1>6, <2>1, <2>2, <2>3, <2>4, <2>5, <2>6, <2>7 DEF Sweeper
  <1>7. CASE Crash
    BY <1>4, <1>7 DEF Crash
  <1>8. CASE \/ Start \/ (\E ids \in SUBSET Cands : Retry(ids)) \/ CancelTest \/ CancelBound \/ Decide
             \/ Worker \/ Boot \/ BootJobs \/ \E a \in Attempts : Hook(a)
    BY <1>1, <1>8 DEF Start, Retry, Admit, CancelTest, CancelBound, Decide, Worker, BeginTestExecution, RunCandidate,
       FinishTestExecution, GiveUp, EndJob, Pick, Boot, BootJobs, Hook, HookSettle, HookEnd, HookConfirm
  <1>9. ASSUME NEW d \in Requests, Process(d) PROVE SweepLinked'
    BY <1>1, <1>9 DEF Process, Dispatch, Enqueue, Bind, Reread, Activate, Cleanup
  <1> QED
    BY <1>5, <1>6, <1>7, <1>8, <1>9 DEF Next, Sweeper, Booting

-----------------------------------------------------------------------------
(* The candidates. *)

Standing == {"partial", "failed", "review", "completed"}
Finished(C) == \A c \in Cands : C[c] # "pending"

\* A candidate that is good stays so, and only a retry makes one pending.
CandidatesMove ==
    \A c \in Cands : /\ cand[c] = "good" => cand'[c] = "good"
                     /\ cand'[c] = "pending" => cand[c] = "pending" \/ \E ids \in SUBSET Cands : Retry(ids)

\* A test comes to stand only as its finished candidates say.
StatusMoves ==
    \/ test'.status = test.status
    \/ test'.status \notin Standing
    \/ test.status = "review" /\ test'.status = "completed" /\ cand' = cand
    \/ test'.status = StandsAs(cand') /\ Finished(cand')

\* The end of an attempt fails or cancels what it left unfinished, and the test
\* then stands as its candidates do: those of the newest attempt are all that
\* can be unfinished.
LEMMA EndMoves ==
    ASSUME IInv, NEW a \in Admitted, NEW outcome, EndTestExecution(a, outcome)
    PROVE  CandidatesMove /\ StatusMoves
  <1> DEFINE how == IF outcome = "cancelled" THEN "cancelled" ELSE "failed"
             C == [c \in Cands |-> IF c \in att[a].ids /\ cand[c] = "pending" THEN how ELSE cand[c]]
  <1>1. CASE UNCHANGED <<test, cand>>
    BY <1>1 DEF CandidatesMove, StatusMoves
  <1>2. CASE /\ cand' = C /\ Current(a)
             /\ test' = Write(IF outcome = "cancelled" THEN "cancelled" ELSE StandsAs(C), a)
    <2>1. Finished(cand')
      BY <1>2 DEF Finished, IInv, CandInv
    <2>2. CandidatesMove
      BY <1>2 DEF CandidatesMove
    <2>3. StatusMoves
      BY <1>2, <2>1 DEF StatusMoves, Standing, Write
    <2> QED
      BY <2>2, <2>3
  <1> QED
    BY <1>1, <1>2 DEF EndTestExecution, testVars

\* Every step moves candidates and test so.
LEMMA CandidatesStep == ASSUME IInv, Next PROVE CandidatesMove /\ StatusMoves
  <1> DEFINE Goal == CandidatesMove /\ StatusMoves
  <1>0. cand \in [Cands -> {"pending", "good", "failed", "cancelled"}]
    BY DEF IInv, TypeOK
  <1>1. ASSUME UNCHANGED cand, test'.status \in {test.status, "queued", "running", "cancelled"} PROVE Goal
    BY <1>1 DEF CandidatesMove, StatusMoves, Standing
  <1>2. ASSUME NEW s \in {"failed", "cancelled"}, cand' = Unfinished(s),
               test'.status = "cancelled" \/ test'.status = StandsAs(cand')
        PROVE  Goal
    <2>1. Finished(cand') /\ CandidatesMove
      BY <1>0, <1>2 DEF Finished, Unfinished, CandidatesMove
    <2> QED
      BY <1>2, <2>1 DEF StatusMoves, Standing
  <1>3. CASE Start \/ Purge
    BY <1>1, <1>3 DEF Start, Purge, Write
  <1>4. ASSUME NEW ids \in SUBSET Cands, Retry(ids) PROVE Goal
    BY <1>0, <1>4 DEF Retry, CandidatesMove, StatusMoves, Standing, Write
  <1>5. CASE CancelTest
    BY <1>2, <1>5 DEF CancelTest, Write
  <1>6. CASE Decide
    BY <1>6 DEF Decide, Write, CandidatesMove, StatusMoves
  <1>7. ASSUME NEW d \in Requests, Process(d) PROVE Goal
    BY <1>1, <1>7 DEF Process, Dispatch, Enqueue, Bind, Reread, Activate, Cleanup, testVars, Write
  <1>8. CASE Worker
    <2>1. ASSUME NEW c \in Cands, NEW outcome \in {"good", "failed"}, RunCandidate(c, outcome) PROVE Goal
      BY <1>0, <2>1 DEF RunCandidate, CanStore, CandidatesMove, StatusMoves
    <2>2. CASE FinishTestExecution
      BY <1>2, <2>2 DEF FinishTestExecution, Write
    <2> QED
      BY <1>1, <1>8, <2>1, <2>2 DEF Worker, BeginTestExecution, GiveUp, EndJob, Pick, testVars, Write
  <1>9. ASSUME NEW a, NEW n, ConfirmTestSettlement(a, n) PROVE Goal
    BY <1>1, <1>9 DEF ConfirmTestSettlement, testVars, Write
  <1>10. ASSUME NEW a \in Attempts, Hook(a) PROVE Goal
    <2>1. CASE HookEnd(a)
      <3>1. a \in Admitted
        BY <2>1 DEF HookEnd, IInv, Linked, Terminal
      <3> QED
        BY <2>1, <3>1, EndMoves DEF HookEnd
    <2> QED
      BY <1>1, <1>9, <1>10, <2>1 DEF Hook, HookSettle, HookConfirm, testVars
  <1>11. CASE Sweeper
    <2>1. CASE SweepEnds
      <3>1. sweep.item.att \in Admitted
        BY <2>1 DEF SweepEnds, IInv, SweepLinked
      <3> QED
        BY <2>1, <3>1, EndMoves DEF SweepEnds
    <2> QED
      BY <1>1, <1>9, <1>11, <2>1 DEF Sweeper, SweepStarts, SweepCancel, SweepCancelled, SweepReconciles,
         SweepGoesOn, SweepLooks, SweepConfirms, testVars
  <1>12. CASE Booting \/ Crash \/ CancelBound
    BY <1>1, <1>2, <1>12 DEF Booting, Boot, BootJobs, RecoverInterruptedTests, Crash, CancelBound, testVars, Write
  <1> QED
    BY <1>3, <1>4, <1>5, <1>6, <1>7, <1>8, <1>10, <1>11, <1>12 DEF Next

\* What a step leaves unfinished belongs to the newest attempt, and a test that
\* stands has nothing unfinished.
LEMMA CandStep == ASSUME IInv, Next, TypeOK' PROVE CandInv'
  <1>0. CandInv /\ CandidatesMove /\ StatusMoves /\ cand \in [Cands -> {"pending", "good", "failed", "cancelled"}]
    BY CandidatesStep DEF IInv, TypeOK
  <1>1. \A ids \in SUBSET Cands : Retry(ids) => test'.status = "queued" /\ Finished(cand)
    BY <1>0 DEF Retry, Write, CandInv, Finished
  <1>2. test'.status \in Standing => Finished(cand')
    BY <1>0, <1>1 DEF CandInv, CandidatesMove, StatusMoves, Standing, Finished
  <1>3. ReviewIsComplete'
    BY <1>0 DEF CandInv, ReviewIsComplete, CandidatesMove, StatusMoves, Standing, StandsAs, AllGood
  <1>4. ASSUME NEW a \in Admitted', Current(a)', NEW c \in Cands, cand'[c] = "pending" PROVE c \in att'[a].ids
    <2>0. a \in Attempts
      BY DEF Admitted
    <2>1. CASE a \in Admitted
      <3>1. Current(a) /\ att'[a].ids = att[a].ids
        BY <1>4, <2>1, Stays
      <3>2. cand[c] = "pending"
        <4>1. SUFFICES ASSUME NEW ids \in SUBSET Cands, Retry(ids) PROVE FALSE
          BY <1>0, <1>4 DEF CandidatesMove
        <4>2. PICK b \in Attempts : Admits(b)
          <5>1. PICK b \in Attempts \ Admitted : Admit(b, ids)
            BY <4>1 DEF Retry
          <5>2. b \in Admitted'
            BY <5>1 DEF Admit, Admitted, IInv, TypeOK
          <5> QED
            BY <5>1, <5>2, Stays
        <4> QED
          BY <1>4, <2>1, <4>2, NewestAdmitted
      <3> QED
        BY <1>0, <2>1, <3>1, <3>2 DEF CandInv
    <2>2. CASE a \notin Admitted
      <3>1. Admits(a)
        BY <2>0, <2>2, <1>4, Stays
      <3>2. CASE Start
        BY <2>0, <2>2, <3>1, <3>2 DEF Start, Admit, Admits, IInv, TypeOK
      <3>3. CASE \E ids \in SUBSET Cands : Retry(ids)
        BY <1>1, <1>4, <3>1, <3>3 DEF Admits, Finished
      <3> QED
        BY <3>1, <3>2, <3>3 DEF Admits
    <2> QED
      BY <2>1, <2>2
  <1>5. test'.purged => test'.status \notin {"none", "queued", "running", "review"}
    <2>1. CASE test.purged
      BY <2>1, ClosedStep DEF Closed
    <2>2. CASE Purge
      BY <2>2 DEF Purge, Write
    <2>3. CASE ~test.purged /\ ~Purge
      <3>1. ASSUME NEW a, NEW outcome, EndTestExecution(a, outcome) PROVE ~test'.purged
        BY <2>3, <3>1 DEF EndTestExecution, Write, testVars
      <3>2. ASSUME NEW a, NEW n, ConfirmTestSettlement(a, n) PROVE ~test'.purged
        BY <2>3, <3>2 DEF ConfirmTestSettlement, Write, testVars
      <3>3. CASE Start \/ (\E ids \in SUBSET Cands : Retry(ids)) \/ CancelTest \/ CancelBound \/ Decide \/ Crash
        BY <2>3, <3>3 DEF Start, Retry, CancelTest, CancelBound, Decide, Crash, Write, testVars
      <3>6. ASSUME NEW d \in Requests, Process(d) PROVE ~test'.purged
        BY <2>3, <3>6 DEF Process, Dispatch, Enqueue, Bind, Reread, Activate, Cleanup, Write, testVars
      <3>4. CASE Worker \/ Booting
        BY <2>3, <3>4 DEF Worker, BeginTestExecution, RunCandidate, FinishTestExecution, GiveUp, EndJob, Pick,
           Booting, Boot, BootJobs, RecoverInterruptedTests, Write, testVars
      <3>5. CASE Sweeper \/ \E a \in Attempts : Hook(a)
        BY <2>3, <3>1, <3>2, <3>5 DEF Sweeper, SweepStarts, SweepCancel, SweepCancelled, SweepReconciles,
           SweepGoesOn, SweepLooks, SweepEnds, SweepConfirms, Hook, HookSettle, HookEnd, HookConfirm, testVars
      <3> QED
        BY <2>3, <3>3, <3>4, <3>5, <3>6 DEF Next
    <2> QED
      BY <2>1, <2>2, <2>3
  <1> QED
    BY <1>2, <1>3, <1>4, <1>5 DEF CandInv, Standing, Finished

-----------------------------------------------------------------------------
(* What an attempt costs. *)

\* A job that exists stays, an ended one ends no other way, and only the worker
\* runs one.
RowMoves(a) ==
    /\ row[a] # "absent" => row'[a] # "absent"
    /\ row[a] \in Terminal => row'[a] = row[a]
    /\ row'[a] = "running" => row[a] = "running" \/ Pick(a)
    /\ row'[a] # row[a] => \/ row[a] = "absent" /\ row'[a] = "queued" /\ hold'[a] = "open"
                           \/ Pick(a)
                           \/ row[a] \in {"queued", "running"} /\ row'[a] \in Terminal

\* A job is paid for while its handler works on it, and its hold is settled,
\* once it has ended, at what was spent.
CostMoves(a) ==
    /\ spent'[a] # spent[a] => run.pc = "work" /\ run.att = a /\ att' = att /\ UNCHANGED <<row, hold, charge>>
    /\ hold[a] = "settled" => hold'[a] = "settled" /\ charge'[a] = charge[a]
    /\ hold'[a] = "settled" => hold[a] = "settled" \/ (row'[a] \in Terminal /\ charge'[a] = spent[a] /\ spent'[a] = spent[a])
    /\ hold[a] # "none" => hold'[a] # "none" \/ row'[a] = "absent"

LEMMA JobsMove == ASSUME IInv, Next, NEW a \in Attempts PROVE RowMoves(a) /\ CostMoves(a)
  <1> DEFINE Goal == RowMoves(a) /\ CostMoves(a)
  <1>0. /\ row \in [Attempts -> {"absent", "queued", "running"} \cup Terminal]
        /\ hold \in [Attempts -> {"none", "open", "settled"}]
        /\ spent \in [Attempts -> Nat] /\ charge \in [Attempts -> Nat]
        /\ hold[a] = "settled" => row[a] \in Terminal /\ charge[a] = spent[a]
        /\ hook[a] # "none" => row[a] \in Terminal
        /\ run.pc # "idle" => run.att \in Attempts /\ row[run.att] = "running"
    BY DEF IInv, TypeOK, CostInv, Linked
  <1>1. ASSUME UNCHANGED <<row, hold, spent, charge>> PROVE Goal
    BY <1>0, <1>1 DEF RowMoves, CostMoves
  <1>2. ASSUME NEW b \in Attempts, CancelJob(b), UNCHANGED <<hold, spent, charge>> PROVE Goal
    BY <1>0, <1>2 DEF CancelJob, RowMoves, CostMoves, Terminal
  <1>3. ASSUME NEW d \in Requests, Process(d) PROVE Goal
    <2>0. req[d].pc # "idle" => req[d].att \in Attempts
      BY DEF IInv, Linked, Admitted
    <2>1. CASE Enqueue(d)
      <3>1. req[d].att \in Attempts /\ UNCHANGED <<spent, charge>>
        BY <2>0, <2>1 DEF Enqueue, AtPc
      <3>2. \/ UNCHANGED <<row, hold>>
            \/ /\ row[req[d].att] = "absent" /\ hold' = [hold EXCEPT ![req[d].att] = "open"]
               /\ row' = [row EXCEPT ![req[d].att] = "queued"] \/ row' = row
        BY <2>1 DEF Enqueue
      <3> QED
        BY <1>0, <1>1, <3>1, <3>2 DEF RowMoves, CostMoves, Terminal
    <2>2. CASE Cleanup(d)
      BY <1>2, <2>0, <2>2 DEF Cleanup, AtPc
    <2>3. CASE Dispatch(d) \/ Bind(d) \/ Reread(d) \/ Activate(d)
      BY <1>1, <2>3 DEF Dispatch, Bind, Reread, Activate, jobVars
    <2> QED
      BY <1>3, <2>1, <2>2, <2>3 DEF Process
  <1>4. CASE CancelBound
    BY <1>2, <1>4 DEF CancelBound, IInv, Linked, Admitted
  <1>5. CASE Worker
    <2>1. CASE EndJob
      <3>1. /\ run.att \in Attempts /\ row[run.att] = "running" /\ UNCHANGED <<hold, spent, charge>>
            /\ \E s \in Terminal : row' = [row EXCEPT ![run.att] = s]
        BY <1>0, <2>1 DEF EndJob, Terminal
      <3> QED
        BY <1>0, <3>1 DEF RowMoves, CostMoves, Terminal
    <2>2. ASSUME NEW b \in Attempts, Pick(b) PROVE Goal
      <3>1. row[b] = "queued" /\ row' = [row EXCEPT ![b] = "running"] /\ UNCHANGED <<hold, spent, charge>>
        BY <2>2 DEF Pick
      <3> QED
        BY <1>0, <2>2, <3>1 DEF RowMoves, CostMoves, Terminal
    <2>3. ASSUME NEW c \in Cands, NEW outcome \in {"good", "failed"}, RunCandidate(c, outcome) PROVE Goal
      BY <1>0, <2>3 DEF RunCandidate, RowMoves, CostMoves, Terminal
    <2> QED
      BY <1>1, <1>5, <2>1, <2>2, <2>3 DEF Worker, BeginTestExecution, FinishTestExecution, GiveUp, jobVars
  <1>6. ASSUME NEW b \in Attempts, Hook(b) PROVE Goal
    <2>1. CASE HookSettle(b)
      BY <1>0, <2>1 DEF HookSettle, SettleHold, IInv, Linked, RowMoves, CostMoves, Terminal
    <2> QED
      BY <1>1, <1>6, <2>1 DEF Hook, HookEnd, HookConfirm, jobVars
  <1>7. CASE Sweeper
    <2>1. ASSUME NEW b \in Attempts, SweepCancel(b) PROVE Goal
      BY <1>2, <2>1 DEF SweepCancel
    <2> QED
      BY <1>1, <1>7, <2>1 DEF Sweeper, SweepStarts, SweepCancelled, SweepReconciles, SweepGoesOn, SweepLooks,
         SweepEnds, SweepConfirms, jobVars
  <1>8. CASE BootJobs
    BY <1>0, <1>8 DEF BootJobs, RowMoves, CostMoves, Terminal
  <1>9. CASE Boot \/ RecoverInterruptedTests \/ Crash \/ Start \/ (\E ids \in SUBSET Cands : Retry(ids))
             \/ CancelTest \/ Decide \/ Purge
    BY <1>1, <1>9 DEF Boot, RecoverInterruptedTests, Crash, Start, Retry, Admit, CancelTest, Decide, Purge, jobVars
  <1> QED
    BY <1>3, <1>4, <1>5, <1>6, <1>7, <1>8, <1>9 DEF Next, Booting

\* A write of an attempt's status says nothing of its cost.
LEMMA StatusKeepsCost ==
    ASSUME TypeOK, NEW a \in Attempts,
           \/ UNCHANGED att
           \/ \E x, s : att' = [att EXCEPT ![x].status = s]
           \/ att' = OpenCancelled
           \/ \E s : att' = [b \in Attempts |-> IF IsOpen(b) THEN [att[b] EXCEPT !.status = s] ELSE att[b]]
    PROVE  att'[a].settled = att[a].settled
  <1>1. att \in [Attempts -> Attempt] /\ att[a] \in Attempt
    BY DEF TypeOK
  <1>2. ASSUME NEW s PROVE [att[a] EXCEPT !.status = s].settled = att[a].settled
    BY <1>1 DEF Attempt
  <1>3. ASSUME NEW x, NEW s, att' = [att EXCEPT ![x].status = s] PROVE att'[a].settled = att[a].settled
    <2>1. att'[a] = att[a] \/ att'[a] = [att[a] EXCEPT !.status = s]
      BY <1>1, <1>3
    <2> QED
      BY <1>2, <2>1
  <1>4. ASSUME NEW s, att' = [b \in Attempts |-> IF IsOpen(b) THEN [att[b] EXCEPT !.status = s] ELSE att[b]]
        PROVE  att'[a].settled = att[a].settled
    <2>1. att'[a] = att[a] \/ att'[a] = [att[a] EXCEPT !.status = s]
      BY <1>4
    <2> QED
      BY <1>2, <2>1
  <1> QED
    BY <1>3, <1>4 DEF OpenCancelled

\* A cost is confirmed from the settled hold of an ended job, or as nothing for
\* a job that was found missing and whose attempt can no longer begin.
LEMMA CostConfirmed ==
    ASSUME IInv, Next, NEW a \in Attempts, att'[a].settled, ~att[a].settled
    PROVE  /\ ~IsOpen(a)' /\ att'[a].credits = spent[a]
           /\ run.pc = "work" => run.att # a
           /\ UNCHANGED <<run, spent>>
  <1> DEFINE Goal == /\ ~IsOpen(a)' /\ att'[a].credits = spent[a]
                     /\ run.pc = "work" => run.att # a
                     /\ UNCHANGED <<run, spent>>
  <1>0. TypeOK /\ att \in [Attempts -> Attempt] /\ att[a] \in Attempt
    BY DEF IInv, TypeOK
  <1>1. ASSUME NEW b, NEW n, ConfirmTestSettlement(b, n)
        PROVE  b = a /\ ~IsOpen(a) /\ att'[a].status = att[a].status /\ att'[a].credits = n
    BY <1>0, <1>1 DEF ConfirmTestSettlement, testVars
  <1>2. ASSUME \/ UNCHANGED att
               \/ \E x, s : att' = [att EXCEPT ![x].status = s]
               \/ att' = OpenCancelled
               \/ \E s : att' = [b \in Attempts |-> IF IsOpen(b) THEN [att[b] EXCEPT !.status = s] ELSE att[b]]
        PROVE  FALSE
    BY <1>0, <1>2, StatusKeepsCost
  <1>3. ASSUME NEW b \in Attempts, ChargeKnown(b), ConfirmTestSettlement(b, charge[b]), UNCHANGED <<run, spent>>
        PROVE  Goal
    <2>1. row[b] \in Terminal /\ charge[b] = spent[b] /\ (run.pc # "idle" => row[run.att] = "running")
      BY <1>3 DEF ChargeKnown, IInv, CostInv, Linked
    <2> QED
      BY <1>1, <1>3, <2>1 DEF IsOpen, Terminal
  <1>4. ASSUME NEW b, NEW ids, Admit(b, ids) PROVE FALSE
    BY <1>0, <1>4 DEF Admit
  <1>5. ASSUME NEW b, NEW outcome, EndTestExecution(b, outcome) PROVE FALSE
    <2>1. (UNCHANGED att) \/ \E s : att' = [att EXCEPT ![b].status = s]
      BY <1>5 DEF EndTestExecution, testVars
    <2> QED
      BY <1>2, <2>1
  <1>6. ASSUME NEW d \in Requests, Process(d) PROVE FALSE
    <2>1. (UNCHANGED att) \/ \E x, s : att' = [att EXCEPT ![x].status = s]
      BY <1>6 DEF Process, Dispatch, Enqueue, Bind, Reread, Activate, Cleanup, testVars
    <2> QED
      BY <1>2, <2>1
  <1>7. CASE Worker
    <2>1. (UNCHANGED att) \/ \E x, s : att' = [att EXCEPT ![x].status = s]
      BY <1>7 DEF Worker, BeginTestExecution, RunCandidate, FinishTestExecution, GiveUp, EndJob, Pick, testVars
    <2> QED
      BY <1>2, <2>1
  <1>8. ASSUME NEW b \in Attempts, Hook(b) PROVE Goal
    <2>1. CASE HookConfirm(b)
      <3>1. UNCHANGED <<run, spent>>
        BY <2>1 DEF HookConfirm, jobVars
      <3> QED
        BY <1>2, <1>3, <2>1, <3>1 DEF HookConfirm, testVars
    <2> QED
      BY <1>2, <1>5, <1>8, <2>1 DEF Hook, HookSettle, HookEnd, testVars
  <1>9. CASE Sweeper
    <2>1. CASE SweepConfirms
      <3>1. UNCHANGED <<run, spent>> /\ sweep.item.att \in Attempts
        BY <2>1 DEF SweepConfirms, jobVars, IInv, SweepLinked, Admitted
      <3>2. CASE sweep.item.missing
        <4>1. ConfirmTestSettlement(sweep.item.att, 0)
          BY <2>1, <3>2 DEF SweepConfirms
        <4>2. spent[sweep.item.att] = 0 /\ (run.pc = "work" => run.att # sweep.item.att)
          BY <2>1, <3>2 DEF SweepConfirms, IInv, CostInv, SweepCost
        <4> QED
          BY <1>1, <3>1, <4>1, <4>2 DEF IsOpen
      <3> QED
        BY <1>2, <1>3, <2>1, <3>1, <3>2 DEF SweepConfirms, testVars
    <2> QED
      BY <1>2, <1>5, <1>9, <2>1 DEF Sweeper, SweepStarts, SweepCancel, SweepCancelled, SweepReconciles, SweepGoesOn,
         SweepLooks, SweepEnds, testVars
  <1>10. CASE RecoverInterruptedTests
    <2>1. att' = OpenCancelled
          \/ \E s : att' = [b \in Attempts |-> IF IsOpen(b) THEN [att[b] EXCEPT !.status = s] ELSE att[b]]
      BY <1>10 DEF RecoverInterruptedTests
    <2> QED
      BY <1>2, <2>1
  <1>11. CASE Boot \/ BootJobs \/ Crash \/ CancelBound \/ CancelTest \/ Decide \/ Purge
    BY <1>2, <1>11 DEF Boot, BootJobs, Crash, CancelBound, CancelTest, Decide, Purge, testVars
  <1> QED
    BY <1>4, <1>6, <1>7, <1>8, <1>9, <1>10, <1>11 DEF Next, Booting, Start, Retry

\* A handler that works began, on an attempt that was open.
LEMMA WorkBegins ==
    ASSUME IInv, Next, run'.pc = "work"
    PROVE  \/ run.pc = "work" /\ run'.att = run.att
           \/ run.pc = "begin" /\ run'.att = run.att /\ IsOpen(run.att)' /\ IsOpen(run.att)
  <1>0. run \in Run /\ att \in [Attempts -> Attempt] /\ (run.pc # "idle" => run.att \in Attempts)
    BY DEF IInv, TypeOK, Linked
  <1>1. CASE UNCHANGED run
    BY <1>1
  <1>2. CASE BeginTestExecution
    BY <1>0, <1>2 DEF BeginTestExecution, IsOpen, Open, Attempt
  <1>3. CASE Crash
    BY <1>3 DEF Crash, NoRun
  <1>4. CASE Worker
    BY <1>0, <1>2, <1>4 DEF Worker, RunCandidate, FinishTestExecution, GiveUp, EndJob, Pick, NoRun, Run
  <1>5. ASSUME NEW d \in Requests, Process(d) PROVE UNCHANGED run
    BY <1>5 DEF Process, Dispatch, Enqueue, Bind, Reread, Activate, Cleanup
  <1>6. CASE Sweeper \/ Booting
    BY <1>1, <1>6 DEF Sweeper, SweepStarts, SweepCancel, SweepCancelled, SweepReconciles, SweepGoesOn, SweepLooks,
       SweepEnds, SweepConfirms, Booting, Boot, BootJobs, RecoverInterruptedTests
  <1>7. CASE Start \/ (\E ids \in SUBSET Cands : Retry(ids)) \/ CancelTest \/ CancelBound \/ Decide \/ Purge
             \/ \E a \in Attempts : Hook(a)
    BY <1>1, <1>7 DEF Start, Retry, Admit, CancelTest, CancelBound, Decide, Purge, Hook, HookSettle, HookEnd, HookConfirm
  <1> QED
    BY <1>1, <1>3, <1>4, <1>5, <1>6, <1>7 DEF Next

\* What an attempt's rows say of its cost.
LEMMA AttemptCost ==
    ASSUME IInv, Next, NEW a \in Attempts
    PROVE  /\ row'[a] = "absent" => spent'[a] = 0
           /\ hold'[a] = "settled" => row'[a] \in Terminal /\ charge'[a] = spent'[a]
           /\ att'[a].settled => ~IsOpen(a)' /\ att'[a].credits = spent'[a]
  <1>0. /\ CostInv /\ RowMoves(a) /\ CostMoves(a)
        /\ run.pc # "idle" => run.att \in Attempts /\ row[run.att] = "running"
    BY JobsMove DEF IInv, Linked
  <1>1. row'[a] = "absent" => spent'[a] = 0
    BY <1>0 DEF CostInv, RowMoves, CostMoves
  <1>2. hold'[a] = "settled" => row'[a] \in Terminal /\ charge'[a] = spent'[a]
    BY <1>0 DEF CostInv, RowMoves, CostMoves, Terminal
  <1>3. ASSUME att'[a].settled PROVE ~IsOpen(a)' /\ att'[a].credits = spent'[a]
    <2>1. CASE ~att[a].settled
      BY <1>3, <2>1, CostConfirmed
    <2>2. CASE att[a].settled
      <3>1. Advances(a)
        BY <1>3, AttemptsStep DEF AttemptsMove, Admits
      <3>2. spent'[a] = spent[a]
        BY <1>0, <2>2 DEF CostInv, CostMoves
      <3> QED
        BY <1>0, <2>2, <3>1, <3>2 DEF CostInv, Advances, IsOpen
    <2> QED
      BY <2>1, <2>2
  <1> QED
    BY <1>1, <1>2, <1>3

\* Each step of the sweep, and each step beside it, keeps that.
LEMMA SweepCostStep == ASSUME IInv, Next PROVE SweepCost'
  <1>0. /\ SweepCost /\ SweepLinked /\ sweep \in Sweep /\ sweep.item \in Item
        /\ \A a \in Admitted : a \in Attempts /\ (IsOpen(a)' => IsOpen(a))
        /\ run.pc # "idle" => Up /\ row[run.att] = "running"
    BY Stays DEF IInv, TypeOK, Sweep, Linked, CostInv, Admitted
  <1>1. ASSUME UNCHANGED sweep, proc = "recover" => proc' = "recover" PROVE SweepCost'
    <2>1. sweep.item.pc \in {"end", "confirm"} /\ sweep.item.missing =>
            /\ spent'[sweep.item.att] = 0
            /\ run'.pc = "work" => run'.att # sweep.item.att
      <3> SUFFICES ASSUME sweep.item.pc \in {"end", "confirm"}, sweep.item.missing
                   PROVE  /\ spent'[sweep.item.att] = 0
                          /\ run'.pc = "work" => run'.att # sweep.item.att
        OBVIOUS
      <3>1. /\ sweep.item.att \in Admitted /\ sweep.item.att \in sweep.todo
            /\ sweep.pc = "closed" /\ spent[sweep.item.att] = 0 /\ (run.pc = "work" => run.att # sweep.item.att)
        BY <1>0 DEF SweepCost, SweepLinked
      <3>2. spent'[sweep.item.att] = 0
        BY <1>0, <3>1, JobsMove DEF CostMoves
      <3>3. run.pc # "idle" => ~IsOpen(sweep.item.att)
        BY <1>0, <3>1 DEF SweepCost, Up
      <3> QED
        BY <3>1, <3>2, <3>3, WorkBegins
    <2>2. sweep.pc = "closed" /\ proc' # "recover" => \A a \in sweep.todo : ~IsOpen(a)'
      BY <1>0, <1>1 DEF SweepCost, SweepLinked
    <2>3. sweep.pc = "cancel" => \A a \in sweep.list \cup sweep.todo : ~IsOpen(a)'
      BY <1>0 DEF SweepCost, SweepLinked
    <2> QED
      BY <1>0, <1>1, <2>1, <2>2, <2>3 DEF SweepCost
  <1>2. ASSUME NEW S \in SUBSET Admitted, SweepFrom(S), \A a \in S : ~IsOpen(a)' PROVE SweepCost'
    BY <1>2 DEF SweepFrom, NoItem, SweepCost
  <1>3. ASSUME NEW S \in SUBSET sweep.todo, SweepTo(sweep.pc, S), UNCHANGED proc PROVE SweepCost'
    BY <1>0, <1>3 DEF SweepTo, NoItem, SweepCost, SweepLinked
  <1>4. CASE sweep' = NoSweep
    BY <1>4 DEF NoSweep, NoItem, SweepCost
  <1>5. CASE Purge \/ SweepStarts \/ RecoverInterruptedTests
    <2>1. /\ SweepFrom(CancelledUnsettled) /\ UNCHANGED att
          \/ SweepFrom({a \in Admitted : att'[a].status = "cancelled" /\ ~att[a].settled})
      BY <1>5 DEF Purge, SweepStarts, RecoverInterruptedTests, testVars
    <2> QED
      BY <1>2, <2>1 DEF CancelledUnsettled, IsOpen, Open
  <1>6. CASE Sweeper /\ ~SweepStarts
    <2>1. ASSUME NEW a \in Attempts, SweepCancel(a) PROVE SweepCost'
      BY <1>0, <2>1 DEF SweepCancel, Look, Sweep, SweepCost, SweepLinked
    <2>2. CASE SweepCancelled
      <3>1. sweep.todo \ {sweep.item.att} \subseteq sweep.todo /\ sweep.pc = "cancel" /\ UNCHANGED proc
        BY <1>0, <2>2 DEF SweepCancelled, SweepLinked
      <3> QED
        BY <1>3, <2>2, <3>1 DEF SweepCancelled
    <2>3. CASE SweepReconciles
      BY <1>0, <1>4, <2>3 DEF SweepReconciles, SweepTo, MayBeMissing, NoItem, SweepCost, SweepLinked
    <2>4. CASE SweepGoesOn
      BY <1>4, <2>4 DEF SweepGoesOn, SweepTo, NoItem, SweepCost
    <2>5. ASSUME NEW a \in Attempts, SweepLooks(a) PROVE SweepCost'
      <3>1. sweep.todo \ {a} \in SUBSET sweep.todo /\ UNCHANGED proc
        BY <2>5 DEF SweepLooks
      <3>2. CASE SweepTo(sweep.pc, sweep.todo \ {a})
        BY <1>3, <3>1, <3>2
      <3>3. CASE Look([pc |-> "end", att |-> a, missing |-> row[a] = "absent"]) /\
                 (row[a] \in Terminal \/ (row[a] = "absent" /\ sweep.pc = "closed"))
        <4>1. UNCHANGED <<att, spent, run, proc>>
          BY <2>5 DEF SweepLooks, testVars, jobVars
        <4>2. row[a] = "absent" => spent[a] = 0 /\ (run.pc = "work" => run.att # a)
          BY <1>0 DEF IInv, CostInv
        <4> QED
          BY <1>0, <2>5, <3>3, <4>1, <4>2 DEF SweepLooks, Look, Sweep, SweepCost, SweepLinked, Terminal
      <3> QED
        BY <2>5, <3>2, <3>3 DEF SweepLooks
    <2>6. CASE SweepEnds
      <3>1. UNCHANGED <<spent, run, proc>> /\ sweep' = [sweep EXCEPT !.item = [sweep.item EXCEPT !.pc = "confirm"]]
        BY <2>6 DEF SweepEnds, jobVars, Look
      <3>2. /\ sweep'.pc = sweep.pc /\ sweep'.list = sweep.list /\ sweep'.todo = sweep.todo
            /\ sweep'.item.att = sweep.item.att /\ sweep'.item.missing = sweep.item.missing /\ sweep.item.pc = "end"
        BY <1>0, <2>6, <3>1 DEF SweepEnds, Sweep, Item
      <3> QED
        BY <1>0, <3>1, <3>2 DEF SweepCost, SweepLinked
    <2>7. CASE SweepConfirms
      <3>1. sweep.todo \ {sweep.item.att} \in SUBSET sweep.todo /\ UNCHANGED proc
        BY <2>7 DEF SweepConfirms
      <3> QED
        BY <1>3, <2>7, <3>1 DEF SweepConfirms
    <2> QED
      BY <1>6, <2>1, <2>2, <2>3, <2>4, <2>5, <2>6, <2>7 DEF Sweeper
  <1>7. CASE Crash
    BY <1>4, <1>7 DEF Crash
  <1>8. CASE BootJobs \/ Boot
    BY <1>1, <1>8 DEF BootJobs, Boot
  <1>9. CASE Start \/ (\E ids \in SUBSET Cands : Retry(ids)) \/ CancelTest \/ CancelBound \/ Decide
             \/ Worker \/ \E a \in Attempts : Hook(a)
    BY <1>1, <1>9 DEF Start, Retry, Admit, CancelTest, CancelBound, Decide, Worker, BeginTestExecution, RunCandidate,
       FinishTestExecution, GiveUp, EndJob, Pick, Hook, HookSettle, HookEnd, HookConfirm
  <1>10. ASSUME NEW d \in Requests, Process(d) PROVE SweepCost'
    BY <1>1, <1>10 DEF Process, Dispatch, Enqueue, Bind, Reread, Activate, Cleanup
  <1> QED
    BY <1>5, <1>6, <1>7, <1>8, <1>9, <1>10 DEF Next, Sweeper, Booting

LEMMA CostStep == ASSUME IInv, Next PROVE CostInv'
  <1>1. run'.pc = "work" => ~att'[run'.att].settled
    <2> SUFFICES ASSUME run'.pc = "work" PROVE ~att'[run'.att].settled
      OBVIOUS
    <2>1. run'.att = run.att /\ run.att \in Attempts
      BY WorkBegins DEF IInv, Linked
    <2>2. CASE run.pc = "work"
      <3>1. ~att[run.att].settled
        BY <2>2 DEF IInv, CostInv
      <3> QED
        BY <2>1, <2>2, <3>1, CostConfirmed
    <2>3. CASE run.pc # "work"
      BY <2>1, <2>3, WorkBegins, AttemptCost
    <2> QED
      BY <2>2, <2>3
  <1> QED
    BY <1>1, AttemptCost, SweepCostStep DEF CostInv

-----------------------------------------------------------------------------
(* A boot. *)

\* The process moves through its boot, and falls in a crash.
LEMMA ProcMoves ==
    ASSUME Next
    PROVE  \/ proc' = proc \/ Crash \/ Boot \/ BootJobs
           \/ SweepGoesOn /\ proc' = "up"
  <1>1. ASSUME NEW d \in Requests, Process(d) PROVE proc' = proc
    BY <1>1 DEF Process, Dispatch, Enqueue, Bind, Reread, Activate, Cleanup
  <1>2. CASE Sweeper \/ Booting \/ Crash
    BY <1>2 DEF Sweeper, SweepStarts, SweepCancel, SweepCancelled, SweepReconciles, SweepGoesOn,
       SweepLooks, SweepEnds, SweepConfirms, Booting, RecoverInterruptedTests
  <1>3. CASE Worker \/ \E a \in Attempts : Hook(a)
    BY <1>3 DEF Worker, BeginTestExecution, RunCandidate, FinishTestExecution, GiveUp, EndJob, Pick,
       Hook, HookSettle, HookEnd, HookConfirm
  <1>4. CASE Start \/ (\E ids \in SUBSET Cands : Retry(ids)) \/ CancelTest \/ CancelBound \/ Decide \/ Purge
    BY <1>4 DEF Start, Retry, Admit, CancelTest, CancelBound, Decide, Purge
  <1> QED
    BY <1>1, <1>2, <1>3, <1>4 DEF Next

\* Before the recovery nothing runs but the boot.
LEMMA BootAlone ==
    ASSUME IInv, Next, proc' \in {"down", "jobs"}
    PROVE  sweep' = NoSweep /\ \A a \in Attempts : hook'[a] = "none"
  <1>0. /\ proc \in {"down", "jobs"} => sweep = NoSweep /\ \A a \in Attempts : hook[a] = "none"
        /\ run.pc # "idle" => Up
        /\ \A d \in Requests : req[d].pc # "idle" => Up
    BY DEF IInv, BootInv, Linked
  <1>1. CASE Crash
    BY <1>1 DEF Crash
  <1>2. CASE Boot
    BY <1>0, <1>2 DEF Boot
  <1>3. ASSUME proc \in {"down", "jobs"}, ~Crash, ~Boot, ~BootJobs PROVE FALSE
    <2>1. ~Up /\ sweep.pc = "idle" /\ sweep.item.pc = "none"
      BY <1>0, <1>3 DEF Up, NoSweep, NoItem
    <2>2. ASSUME NEW d \in Requests, Process(d) PROVE FALSE
      BY <2>1, <2>2 DEF Process, Dispatch, Enqueue, Bind, Reread, Activate, Cleanup, AtPc
    <2>3. ~Sweeper /\ ~RecoverInterruptedTests
      BY <1>3, <2>1 DEF Sweeper, SweepStarts, SweepCancel, SweepCancelled, SweepReconciles, SweepGoesOn,
         SweepLooks, SweepEnds, SweepConfirms, RecoverInterruptedTests
    <2>4. ~Worker /\ ~(\E a \in Attempts : Hook(a))
      BY <1>0, <1>3, <2>1 DEF Worker, BeginTestExecution, RunCandidate, FinishTestExecution, GiveUp, EndJob, Pick,
         Hook, HookSettle, HookEnd, HookConfirm
    <2> QED
      BY <1>3, <2>1, <2>2, <2>3, <2>4 DEF Next, Booting, Start, Retry, CancelTest, CancelBound, Decide, Purge
  <1>4. proc' = proc \/ Crash \/ Boot \/ BootJobs
    BY ProcMoves
  <1>5. CASE BootJobs
    BY <1>5 DEF BootJobs
  <1> QED
    BY <1>1, <1>2, <1>3, <1>4, <1>5

\* The sweep brings a cost to the test of a job that has ended, or is missing.
LEMMA ItemEnded ==
    ASSUME IInv, Next, sweep'.item.pc \in {"end", "confirm"}, ~sweep'.item.missing
    PROVE  row'[sweep'.item.att] \in Terminal
  <1>0. /\ sweep \in Sweep /\ sweep.item \in Item
        /\ sweep.item.pc \in {"end", "confirm"} /\ ~sweep.item.missing => row[sweep.item.att] \in Terminal
        /\ sweep.item.pc # "none" => sweep.item.att \in Attempts
        /\ row \in [Attempts -> {"absent", "queued", "running"} \cup Terminal]
    BY DEF IInv, TypeOK, Sweep, BootInv, SweepLinked, Admitted
  <1>1. CASE UNCHANGED sweep
    BY <1>0, <1>1, JobsMove DEF RowMoves
  <1>2. CASE sweep'.item = NoItem
    BY <1>2 DEF NoItem
  <1>3. CASE Sweeper
    <2>1. ASSUME NEW a \in Attempts, SweepCancel(a) PROVE FALSE
      BY <1>0, <2>1 DEF SweepCancel, Look, Sweep
    <2>2. ASSUME NEW a \in Attempts, SweepLooks(a) PROVE row'[sweep'.item.att] \in Terminal
      <3>1. CASE sweep' = [sweep EXCEPT !.item = [pc |-> "end", att |-> a, missing |-> row[a] = "absent"]]
                 /\ (row[a] \in Terminal \/ row[a] = "absent")
        <4>1. sweep'.item.att = a /\ sweep'.item.missing = (row[a] = "absent")
          BY <1>0, <3>1 DEF Sweep
        <4> QED
          BY <3>1, <4>1, <2>2 DEF SweepLooks, jobVars
      <3> QED
        BY <1>2, <2>2, <3>1 DEF SweepLooks, SweepTo, Look
    <2>3. CASE SweepEnds
      <3>1. sweep' = [sweep EXCEPT !.item = [sweep.item EXCEPT !.pc = "confirm"]] /\ row' = row /\ sweep.item.pc = "end"
        BY <2>3 DEF SweepEnds, Look, jobVars
      <3>2. sweep'.item.att = sweep.item.att /\ sweep'.item.missing = sweep.item.missing
        BY <1>0, <3>1 DEF Sweep, Item
      <3> QED
        BY <1>0, <3>1, <3>2
    <2> QED
      BY <1>2, <1>3, <2>1, <2>2, <2>3 DEF Sweeper, SweepStarts, SweepFrom, SweepCancelled, SweepReconciles, SweepTo,
         SweepGoesOn, SweepConfirms, NoSweep
  <1>4. CASE Crash \/ Purge \/ Booting
    BY <1>1, <1>2, <1>4 DEF Crash, NoSweep, Purge, SweepFrom, Booting, Boot, BootJobs, RecoverInterruptedTests
  <1>5. ASSUME NEW d \in Requests, Process(d) PROVE UNCHANGED sweep
    BY <1>5 DEF Process, Dispatch, Enqueue, Bind, Reread, Activate, Cleanup
  <1>6. CASE Worker \/ \E a \in Attempts : Hook(a)
    BY <1>1, <1>6 DEF Worker, BeginTestExecution, RunCandidate, FinishTestExecution, GiveUp, EndJob, Pick,
       Hook, HookSettle, HookEnd, HookConfirm
  <1>7. CASE Start \/ (\E ids \in SUBSET Cands : Retry(ids)) \/ CancelTest \/ CancelBound \/ Decide
    BY <1>1, <1>7 DEF Start, Retry, Admit, CancelTest, CancelBound, Decide
  <1> QED
    BY <1>1, <1>3, <1>4, <1>5, <1>6, <1>7 DEF Next

\* The recovery has the process to itself, but for the hooks of its own stops.
LEMMA RecoverAlone ==
    ASSUME IInv, Next, proc = "recover", proc' = "recover"
    PROVE  \/ \E a \in Attempts : Hook(a) \/ SweepCancel(a) \/ SweepLooks(a)
           \/ SweepCancelled \/ SweepReconciles \/ SweepEnds \/ SweepConfirms \/ RecoverInterruptedTests
  <1>0. ~Up /\ run.pc = "idle" /\ \A d \in Requests : req[d].pc = "idle"
    BY DEF IInv, Linked, Up
  <1>1. ASSUME NEW d \in Requests, Process(d) PROVE FALSE
    BY <1>0, <1>1 DEF Process, Dispatch, Enqueue, Bind, Reread, Activate, Cleanup, AtPc
  <1>2. ~Worker
    BY <1>0 DEF Worker, BeginTestExecution, RunCandidate, FinishTestExecution, GiveUp, EndJob, Pick
  <1>3. ~Crash /\ ~Boot /\ ~BootJobs /\ ~SweepGoesOn /\ ~SweepStarts
    BY <1>0 DEF Crash, Boot, BootJobs, SweepGoesOn, SweepStarts
  <1>4. ~Start /\ ~(\E ids \in SUBSET Cands : Retry(ids)) /\ ~CancelTest /\ ~CancelBound /\ ~Decide /\ ~Purge
    BY <1>0 DEF Start, Retry, CancelTest, CancelBound, Decide, Purge
  <1> QED
    BY <1>1, <1>2, <1>3, <1>4 DEF Next, Sweeper, Booting

\* It leaves no attempt open, and no ended job's attempt without its cost.
LEMMA RecoverStep == ASSUME IInv, Next PROVE RecoverInv'
  <1> SUFFICES ASSUME proc' = "recover" PROVE RecoverInv'
    BY DEF RecoverInv
  <1>0. /\ row \in [Attempts -> {"absent", "queued", "running"} \cup Terminal] /\ sweep \in Sweep /\ sweep.item \in Item
        /\ hold \in [Attempts -> {"none", "open", "settled"}]
        /\ hook \in [Attempts -> {"none", "settle", "end", "confirm"}]
        /\ \A a \in Attempts : (row[a] # "absent" => hold[a] # "none") /\ (hook[a] # "none" => row[a] \in Terminal)
        /\ att \in [Attempts -> Attempt] /\ SweepLinked /\ Admitted \subseteq Attempts
    BY DEF IInv, TypeOK, Sweep, BootInv, Linked, Admitted
  <1>1. CASE BootJobs
    <2>1. sweep = NoSweep /\ \A a \in Attempts : hook[a] = "none"
      BY <1>1 DEF IInv, BootInv, BootJobs
    <2> QED
      BY <1>0, <1>1, <2>1 DEF BootJobs, RecoverInv, NoSweep, Terminal
  <1>2. CASE proc = "recover"
    <2>0. /\ RecoverInv
          /\ \A a \in Attempts : ~IsOpen(a) => ~IsOpen(a)'
          /\ \A a \in Admitted : a \in Admitted' /\ (att[a].settled => att'[a].settled)
      <3>1. \A a \in Attempts : ~Admits(a)
        BY <1>2, RecoverAlone DEF Admits, Start, Retry, Up
      <3> QED
        BY <3>1, AttemptsStep, Stays DEF AttemptsMove, Advances, IsOpen, IInv, BootInv
    <2>00. Admitted' \subseteq Admitted
      BY <1>2, Stays, RecoverAlone DEF Admits, Start, Retry, Up, Admitted
    <2>1. ASSUME NEW a \in Attempts, Hook(a) PROVE RecoverInv'
      <3>1. UNCHANGED <<row, sweep>>
        BY <2>1 DEF Hook, HookSettle, HookEnd, HookConfirm, jobVars
      <3>2. \A b \in Attempts : hook'[b] # "none" => hook[b] # "none"
        BY <1>0, <2>1 DEF Hook, HookSettle, HookEnd, HookConfirm
      <3>3. \A b \in Attempts : row[b] \in Terminal => hold'[b] = "settled" \/ hook'[b] = "settle"
        <4>1. \A b \in Attempts : row[b] \in Terminal => hold[b] = "settled" \/ (hold[b] = "open" /\ hook[b] = "settle")
          BY <1>0, <1>2, <2>0 DEF RecoverInv, Terminal
        <4>2. CASE HookSettle(a)
          BY <1>0, <2>1, <4>1, <4>2 DEF HookSettle, SettleHold
        <4>3. CASE HookEnd(a) \/ HookConfirm(a)
          BY <1>0, <4>1, <4>3 DEF HookEnd, HookConfirm, jobVars
        <4> QED
          BY <2>1, <4>2, <4>3 DEF Hook
      <3> QED
        BY <1>2, <2>0, <2>00, <3>1, <3>2, <3>3 DEF RecoverInv
    <2>2. ASSUME NEW a \in Attempts, SweepCancel(a) PROVE RecoverInv'
      <3>1. sweep' = [sweep EXCEPT !.item = [pc |-> "hook", att |-> a, missing |-> FALSE]] /\ UNCHANGED <<att, hold>>
            /\ sweep.pc = "cancel"
        BY <2>2 DEF SweepCancel, Look, testVars
      <3>2. sweep'.pc = "cancel" /\ sweep'.item.pc = "hook" /\ sweep'.item.att = a
        BY <1>0, <3>1 DEF Sweep
      <3>3. \A b \in Attempts : hook[b] = "none"
        BY <1>2, <2>0, <2>2 DEF SweepCancel, Foremost, NoItem, RecoverInv
      <3>4. \A b \in Attempts : /\ row'[b] # "running"
                                /\ row'[b] \in Terminal => hold[b] = "settled" \/ hook'[b] = "settle"
                                /\ hook'[b] # "none" => b = a
        BY <1>0, <1>2, <2>0, <2>2, <3>3 DEF SweepCancel, CancelJob, RecoverInv, Terminal
      <3> QED
        BY <1>2, <2>0, <3>1, <3>2, <3>4 DEF RecoverInv
    <2>3. ASSUME UNCHANGED <<row, hold, hook>>,
                 \A b \in Attempts : hook[b] # "none" => sweep'.item.pc = "hook" /\ sweep'.item.att = b,
                 sweep'.pc # "terminal", sweep.pc # "idle" \/ \A b \in Attempts : ~IsOpen(b)',
                 sweep'.pc = "closed" => \A b \in Admitted : att'[b].settled \/ row[b] = "queued" \/ b \in sweep'.todo
          PROVE  RecoverInv'
      BY <1>2, <2>0, <2>00, <2>3 DEF RecoverInv
    <2>4. CASE SweepCancelled
      <3>1. hook[sweep.item.att] = "none" /\ sweep.pc = "cancel" /\ sweep'.pc = "cancel" /\ UNCHANGED <<row, hold, hook, att>>
        BY <1>0, <2>4 DEF SweepCancelled, SweepTo, SweepLinked, jobVars, testVars
      <3> QED
        BY <1>2, <2>0, <2>3, <3>1 DEF RecoverInv
    <2>5. CASE SweepReconciles
      <3>1. /\ sweep.pc = "cancel" /\ sweep.item = NoItem /\ sweep'.pc = "closed" /\ sweep'.todo = Unsettled
            /\ UNCHANGED <<row, hold, hook, att>>
        BY <1>2, <2>5 DEF SweepReconciles, SweepTo, MayBeMissing, jobVars, testVars, Up
      <3> QED
        BY <1>2, <2>0, <2>3, <3>1 DEF RecoverInv, NoItem, Unsettled
    <2>6. ASSUME NEW a \in Attempts, SweepLooks(a) PROVE RecoverInv'
      <3>1. UNCHANGED <<row, hold, hook, att>> /\ sweep.item = NoItem /\ sweep.pc = "closed"
        BY <1>2, <2>0, <2>6 DEF SweepLooks, Foremost, jobVars, testVars, RecoverInv
      <3>2. \A b \in Attempts : hook[b] = "none"
        BY <1>2, <2>0, <3>1 DEF RecoverInv, NoItem
      <3>3. sweep'.pc = "closed" /\ (sweep'.todo = sweep.todo \/ (row[a] = "queued" /\ sweep'.todo = sweep.todo \ {a}))
        <4>1. CASE row[a] \in Terminal \/ row[a] = "absent"
          <5>1. sweep' = [sweep EXCEPT !.item = [pc |-> "end", att |-> a, missing |-> row[a] = "absent"]]
            BY <2>6, <3>1, <4>1 DEF SweepLooks, Look
          <5> QED
            BY <1>0, <3>1, <5>1 DEF Sweep
        <4>2. CASE row[a] \notin Terminal /\ row[a] # "absent"
          BY <1>0, <1>2, <2>0, <2>6, <3>1, <4>2 DEF SweepLooks, SweepTo, RecoverInv
        <4> QED
          BY <4>1, <4>2
      <3> QED
        BY <1>2, <2>0, <2>3, <3>1, <3>2, <3>3 DEF RecoverInv
    <2>7. CASE SweepEnds
      <3>1. /\ UNCHANGED <<row, hold, hook>> /\ sweep.item.pc = "end" /\ sweep.pc = "closed"
            /\ sweep' = [sweep EXCEPT !.item = [sweep.item EXCEPT !.pc = "confirm"]]
        BY <1>2, <2>0, <2>7 DEF SweepEnds, Look, jobVars, IInv, SweepLinked, RecoverInv
      <3>2. sweep'.pc = "closed" /\ sweep'.todo = sweep.todo /\ \A b \in Attempts : hook[b] = "none"
        BY <1>0, <1>2, <2>0, <3>1 DEF Sweep, RecoverInv
      <3> QED
        BY <1>2, <2>0, <2>3, <3>1, <3>2 DEF RecoverInv
    <2>8. CASE SweepConfirms
      <3>1. /\ UNCHANGED <<row, hold, hook>> /\ sweep.item.pc = "confirm" /\ sweep.pc = "closed"
            /\ sweep'.pc = "closed" /\ sweep'.todo = sweep.todo \ {sweep.item.att} /\ sweep.item.att \in Admitted
        BY <1>2, <2>0, <2>8 DEF SweepConfirms, SweepTo, jobVars, IInv, SweepLinked, RecoverInv
      <3>2. \A b \in Attempts : hook[b] = "none"
        BY <1>2, <2>0, <3>1 DEF RecoverInv
      <3>3. sweep.item.missing \/ ChargeKnown(sweep.item.att)
        BY <1>0, <1>2, <2>0, <3>1, <3>2 DEF RecoverInv, ChargeKnown, IInv, BootInv
      <3>4. att'[sweep.item.att].settled
        <4>1. ~IsOpen(sweep.item.att)
          BY <1>0, <1>2, <2>0, <3>1 DEF RecoverInv
        <4>2. \E n : ConfirmTestSettlement(sweep.item.att, n)
          BY <2>8, <3>3 DEF SweepConfirms
        <4> QED
          BY <1>0, <3>1, <4>1, <4>2 DEF ConfirmTestSettlement, testVars
      <3> QED
        BY <1>2, <2>0, <2>3, <3>1, <3>2, <3>4 DEF RecoverInv
    <2>9. CASE RecoverInterruptedTests
      <3>1. sweep'.pc = "cancel" /\ UNCHANGED <<row, hold, hook>>
        BY <2>9 DEF RecoverInterruptedTests, SweepFrom, jobVars
      <3>2. \A b \in Attempts : ~IsOpen(b)'
        BY <1>0, <2>9 DEF RecoverInterruptedTests, OpenCancelled, IsOpen, Open, Attempt
      <3>3. \A b \in Attempts : hook[b] = "none"
        BY <1>0, <1>2, <2>0, <2>9 DEF RecoverInterruptedTests, RecoverInv, SweepLinked
      <3> QED
        BY <2>3, <3>1, <3>2, <3>3
    <2> QED
      BY <1>2, <2>1, <2>2, <2>4, <2>5, <2>6, <2>7, <2>8, <2>9, RecoverAlone
  <1> QED
    BY <1>1, <1>2, ProcMoves DEF Crash, Boot

LEMMA BootStep == ASSUME IInv, Next PROVE BootInv'
  <1>1. ASSUME NEW a \in Attempts, row'[a] # "absent" PROVE hold'[a] # "none"
    BY <1>1, JobsMove DEF RowMoves, CostMoves, IInv, BootInv, Pick
  <1> QED
    BY <1>1, BootAlone, ItemEnded, RecoverStep DEF BootInv

-----------------------------------------------------------------------------
(* Whom the test belongs to. *)

Going == {"queued", "running"}

\* While none is admitted the newest attempt stays the newest.
LEMMA SameNewest ==
    ASSUME IInv, Next, \A a \in Attempts : ~Admits(a)
    PROVE  Admitted' = Admitted /\ \A a \in Admitted : Current(a)' = Current(a)
  <1>1. Admitted' = Admitted
    BY Stays DEF Admitted
  <1>2. \A a \in Admitted : att'[a].epoch = att[a].epoch
    BY Stays
  <1> QED
    BY <1>1, <1>2 DEF Current

\* An admission leaves the test bound to no job.
LEMMA AdmittedUnbound ==
    ASSUME IInv, NEW a \in Attempts, Admits(a) PROVE test'.job = None
  BY DEF Admits, Start, IInv, Linked

\* A bind is of the newest attempt, whose job nobody has ended.
LEMMA BindBinds ==
    ASSUME IInv, NEW d \in Requests, Bind(d), CanBind(req[d].att)
    PROVE  LET a == req[d].att IN
           /\ a \in Admitted /\ Current(a) /\ row[a] = "queued" /\ row' = row
           /\ test'.job = a /\ test'.status = "queued" /\ att' = [att EXCEPT ![a].status = "queued"]
           /\ att'[a].status = "queued"
  <1>1. req[d].att \in Admitted /\ Up /\ row[req[d].att] # "absent"
    BY DEF Bind, AtPc, IInv, Linked, OwnerInv
  <1>2. Current(req[d].att)
    <2>1. \A b \in Admitted : att[b].epoch <= test.rev
      BY DEF IInv, TypeOK, Admitted
    <2> QED
      BY <2>1 DEF CanBind, Current
  <1>3. ~AlreadyBound(req[d].att)
    BY DEF CanBind, AlreadyBound
  <1>4. /\ test' = Write(test.status, req[d].att) /\ att' = [att EXCEPT ![req[d].att].status = "queued"] /\ row' = row
    BY <1>3 DEF Bind, jobVars
  <1>5. row[req[d].att] = "queued"
    BY <1>1, <1>2 DEF CanBind, IInv, OwnerInv, Admitted
  <1>6. att[req[d].att] \in Attempt /\ att \in [Attempts -> Attempt] /\ req[d].att \in Attempts
    BY <1>1 DEF IInv, TypeOK, Admitted
  <1>7. att'[req[d].att].status = "queued"
    BY <1>4, <1>6 DEF Attempt
  <1> QED
    BY <1>1, <1>2, <1>4, <1>5, <1>7 DEF Write, CanBind

\* The end of an attempt that the test is going on with ends its going on.
LEMMA EndOfGoing ==
    ASSUME IInv, NEW a \in Admitted, NEW outcome, EndTestExecution(a, outcome), test'.status \in Going
    PROVE  test' = test /\ (test.job # None => att'[test.job] = att[test.job])
  <1>0. /\ \A C : StandsAs(C) \notin Going
        /\ test.status \in Going => ~test.purged
        /\ test.status \in Going /\ test.job # None => Current(test.job)
        /\ Closed => test.purged \/ test.status = "cancelled"
        /\ att \in [Attempts -> Attempt]
    BY DEF StandsAs, Going, IInv, CandInv, OwnerInv, Closed, TypeOK
  <1>1. CASE UNCHANGED testVars
    BY <1>1 DEF testVars
  <1>2. ASSUME ~Current(a) \/ Closed \/ test.status = "completed", UNCHANGED test,
               NEW s, att' = [att EXCEPT ![a].status = s]
        PROVE  test.job # None => att'[test.job] = att[test.job]
    BY <1>0, <1>2 DEF Going
  <1>3. CASE \E C : test' = Write(IF outcome = "cancelled" THEN "cancelled" ELSE StandsAs(C), a)
    BY <1>0, <1>3 DEF Write, Going
  <1> QED
    BY <1>1, <1>2, <1>3 DEF EndTestExecution

\* A test that is going on was bound now, or was going on with the same job,
\* whose attempt is still queued or running.
LEMMA GoingMoves ==
    ASSUME IInv, Next, test'.status \in Going, test'.job # None
    PROVE  \/ \E d \in Requests : Bind(d) /\ CanBind(req[d].att)
           \/ test.status \in Going /\ test'.job = test.job /\ att'[test.job].status \in Going
  <1> DEFINE Goal == \/ \E d \in Requests : Bind(d) /\ CanBind(req[d].att)
                     \/ test.status \in Going /\ test'.job = test.job /\ att'[test.job].status \in Going
  <1>0. /\ test.status \in Going /\ test.job # None => att[test.job].status \in Going
        /\ \A C : StandsAs(C) \notin Going
        /\ att \in [Attempts -> Attempt] /\ test \in Test
    BY DEF IInv, OwnerInv, Going, TypeOK, StandsAs
  <1>1. ASSUME UNCHANGED <<test, att>> PROVE Goal
    BY <1>0, <1>1
  <1>2. CASE Start \/ (\E ids \in SUBSET Cands : Retry(ids))
    <2>1. Start => test.job = None
      BY DEF Start, IInv, Linked
    <2> QED
      BY <1>2, <2>1 DEF Start, Retry, Write
  <1>3. ASSUME NEW d \in Requests, Process(d) PROVE Goal
    BY <1>1, <1>3 DEF Process, Dispatch, Enqueue, Bind, Reread, Activate, Cleanup, testVars
  <1>4. CASE CancelTest \/ Decide
    BY <1>4 DEF CancelTest, Decide, Write, Going
  <1>5. CASE Purge
    BY <1>5 DEF Purge, Write, Going
  <1>6. CASE Worker
    <2>1. CASE BeginTestExecution
      <3>1. /\ test.status = "queued" /\ test'.job = test.job /\ test.job = run.att
            /\ att' = [att EXCEPT ![run.att].status = "running"] /\ run.att \in Attempts
        BY <2>1 DEF BeginTestExecution, Write, Live, IInv, Linked
      <3> QED
        BY <1>0, <3>1 DEF Going, Attempt
    <2>2. CASE FinishTestExecution
      BY <1>0, <2>2 DEF FinishTestExecution, Write
    <2> QED
      BY <1>1, <1>6, <2>1, <2>2 DEF Worker, RunCandidate, GiveUp, EndJob, Pick, testVars
  <1>7. ASSUME NEW a \in Admitted, NEW outcome, EndTestExecution(a, outcome) PROVE Goal
    BY <1>0, <1>7, EndOfGoing
  <1>8. ASSUME NEW a \in Attempts, NEW n, ConfirmTestSettlement(a, n) PROVE Goal
    <2>1. CASE UNCHANGED testVars
      BY <1>1, <2>1 DEF testVars
    <2>2. CASE /\ test' = Write(test.status, test.job)
               /\ att' = [att EXCEPT ![a] = [status |-> @.status, epoch |-> @.epoch, ids |-> @.ids,
                                             settled |-> TRUE, credits |-> n]]
      <3>1. \A b \in Attempts : att'[b].status = att[b].status
        BY <1>0, <2>2
      <3>2. test.job \in Attempts \cup {None}
        BY <1>0 DEF Test
      <3> QED
        BY <1>0, <2>2, <3>1, <3>2 DEF Write
    <2> QED
      BY <1>8, <2>1, <2>2 DEF ConfirmTestSettlement
  <1>9. ASSUME NEW a \in Attempts, Hook(a) PROVE Goal
    <2>1. CASE HookEnd(a)
      <3>1. a \in Admitted
        BY <2>1 DEF HookEnd, IInv, Linked, Terminal
      <3> QED
        BY <1>7, <2>1, <3>1 DEF HookEnd
    <2> QED
      BY <1>1, <1>8, <1>9, <2>1 DEF Hook, HookSettle, HookConfirm, testVars
  <1>10. CASE Sweeper
    <2>0. sweep.item.pc # "none" => sweep.item.att \in Admitted /\ sweep.item.att \in Attempts
      BY DEF IInv, SweepLinked, Admitted
    <2>1. CASE SweepEnds
      BY <1>7, <2>0, <2>1 DEF SweepEnds
    <2>2. CASE SweepConfirms
      BY <1>1, <1>8, <2>0, <2>2 DEF SweepConfirms, testVars
    <2> QED
      BY <1>1, <1>10, <2>1, <2>2 DEF Sweeper, SweepStarts, SweepCancel, SweepCancelled, SweepReconciles,
         SweepGoesOn, SweepLooks, testVars
  <1>11. CASE RecoverInterruptedTests
    <2>1. CASE \E C : test' = Write(StandsAs(C), test.job)
      BY <1>0, <2>1 DEF Write
    <2>2. CASE UNCHANGED test /\ ({a \in Attempts : IsOpen(a)} = {} \/ Closed) /\ att' = OpenCancelled
      <3>1. Closed => test.status \notin Going
        BY DEF IInv, CandInv, Closed, Going
      <3>2. \A b \in Attempts : ~IsOpen(b)
        BY <2>2, <3>1
      <3> QED
        <4>1. test.job \in Attempts /\ att[test.job].status \in Going
          BY <1>0, <2>2 DEF Test
        <4> QED
          BY <3>2, <4>1 DEF IsOpen, Going, Open
    <2> QED
      BY <1>11, <2>1, <2>2 DEF RecoverInterruptedTests
  <1>12. CASE Boot \/ BootJobs \/ Crash \/ CancelBound
    BY <1>1, <1>12 DEF Boot, BootJobs, Crash, CancelBound, testVars
  <1> QED
    BY <1>2, <1>3, <1>4, <1>5, <1>6, <1>9, <1>10, <1>11, <1>12 DEF Next, Booting

\* So it is bound to its newest attempt, which has not ended.
LEMMA GoingStep ==
    ASSUME IInv, Next, test'.status \in Going, test'.job # None
    PROVE  (att[test.job].status \in Going /\ Current(test.job))'
  <1>1. \A a \in Attempts : ~Admits(a)
    BY AdmittedUnbound
  <1>2. CASE \E d \in Requests : Bind(d) /\ CanBind(req[d].att)
    <2>1. PICK d \in Requests : Bind(d) /\ CanBind(req[d].att)
      BY <1>2
    <2> DEFINE a == req[d].att
    <2>2. a \in Admitted /\ Current(a) /\ test'.job = a /\ att'[a].status = "queued"
      BY <2>1, BindBinds
    <2>3. \A b \in Admitted' : att'[b].epoch <= att'[a].epoch
      BY <1>1, <2>2, SameNewest, Stays DEF Current
    <2> QED
      BY <2>2, <2>3 DEF Going, Current
  <1>3. CASE test.status \in Going /\ test'.job = test.job /\ att'[test.job].status \in Going
    <2>1. Current(test.job) /\ test.job \in Admitted
      BY <1>3 DEF IInv, OwnerInv, Going, Linked
    <2> DEFINE a == test.job
    <2>2. \A b \in Admitted' : att'[b].epoch <= att'[a].epoch
      BY <1>1, <2>1, SameNewest, Stays DEF Current
    <2> QED
      BY <1>3, <2>2 DEF Current
  <1> QED
    BY <1>2, <1>3, GoingMoves

\* The test is bound to the job of its newest attempt, or to none.
LEMMA JobMoves ==
    ASSUME IInv, Next
    PROVE  \/ test'.job \in {None, test.job}
           \/ (\E a \in Admitted : test'.job = a /\ Current(a)) /\ \A a \in Attempts : ~Admits(a)
  <1> DEFINE Goal == \/ test'.job \in {None, test.job}
                     \/ (\E a \in Admitted : test'.job = a /\ Current(a))
  <1> SUFFICES Goal
    BY AdmittedUnbound
  <1>1. ASSUME UNCHANGED test PROVE Goal
    BY <1>1
  <1>2. ASSUME NEW a \in Admitted, NEW outcome, EndTestExecution(a, outcome) PROVE Goal
    BY <1>1, <1>2 DEF EndTestExecution, testVars, Write
  <1>3. ASSUME NEW a, NEW n, ConfirmTestSettlement(a, n) PROVE Goal
    BY <1>1, <1>3 DEF ConfirmTestSettlement, testVars, Write
  <1>4. CASE Start \/ (\E ids \in SUBSET Cands : Retry(ids)) \/ CancelTest \/ Decide \/ Purge
    BY <1>4 DEF Start, Retry, CancelTest, Decide, Purge, Write
  <1>5. ASSUME NEW d \in Requests, Process(d) PROVE Goal
    <2>1. CASE Bind(d) /\ CanBind(req[d].att)
      BY <2>1, BindBinds
    <2>2. CASE Bind(d) /\ ~CanBind(req[d].att)
      BY <1>1, <2>2 DEF Bind
    <2> QED
      BY <1>1, <1>5, <2>1, <2>2 DEF Process, Dispatch, Enqueue, Reread, Activate, Cleanup, testVars
  <1>6. CASE Worker
    BY <1>1, <1>6 DEF Worker, BeginTestExecution, RunCandidate, FinishTestExecution, GiveUp, EndJob, Pick, testVars, Write
  <1>7. ASSUME NEW a \in Attempts, Hook(a) PROVE Goal
    <2>1. CASE HookEnd(a)
      <3>1. a \in Admitted
        BY <2>1 DEF HookEnd, IInv, Linked, Terminal
      <3> QED
        BY <1>2, <2>1, <3>1 DEF HookEnd
    <2> QED
      BY <1>1, <1>3, <1>7, <2>1 DEF Hook, HookSettle, HookConfirm, testVars
  <1>8. CASE Sweeper
    <2>1. CASE SweepEnds
      <3>1. sweep.item.att \in Admitted
        BY <2>1 DEF SweepEnds, IInv, SweepLinked
      <3>2. \E outcome : EndTestExecution(sweep.item.att, outcome)
        BY <2>1 DEF SweepEnds
      <3> QED
        BY <1>2, <3>1, <3>2
    <2>2. CASE SweepConfirms
      <3>1. (UNCHANGED test) \/ \E n : ConfirmTestSettlement(sweep.item.att, n)
        BY <2>2 DEF SweepConfirms, testVars
      <3> QED
        BY <1>1, <1>3, <3>1
    <2> QED
      BY <1>1, <1>8, <2>1, <2>2 DEF Sweeper, SweepStarts, SweepCancel, SweepCancelled, SweepReconciles,
         SweepGoesOn, SweepLooks, testVars
  <1>9. CASE Booting \/ Crash \/ CancelBound
    BY <1>1, <1>9 DEF Booting, Boot, BootJobs, RecoverInterruptedTests, Crash, CancelBound, testVars, Write
  <1> QED
    BY <1>4, <1>5, <1>6, <1>7, <1>8, <1>9 DEF Next

\* Epochs tell attempts apart, and none but the newest attempt's job is the
\* test's.
LEMMA NewestStep ==
    ASSUME IInv, Next, TypeOK'
    PROVE  /\ \A a \in Admitted' : Current(a)' => test'.job \in {None, a}
           /\ \A a, b \in Admitted' : att'[a].epoch = att'[b].epoch => a = b
  <1>0. /\ \A a \in Admitted : Current(a) => test.job \in {None, a}
        /\ \A a, b \in Admitted : att[a].epoch = att[b].epoch => a = b
        /\ \A a \in Admitted : att[a].epoch <= test.rev /\ att[a].epoch \in Nat
        /\ test.rev \in Nat /\ Admitted' \subseteq Attempts
    BY DEF IInv, OwnerInv, TypeOK, Admitted, Attempt, Test
  <1>1. CASE \A a \in Attempts : ~Admits(a)
    <2>1. Admitted' = Admitted /\ \A a \in Admitted : Current(a)' = Current(a) /\ att'[a].epoch = att[a].epoch
      BY <1>1, SameNewest, Stays
    <2>2. ASSUME NEW a \in Admitted, NEW b \in Admitted, Current(a), Current(b) PROVE a = b
      <3>1. att[a].epoch = att[b].epoch
        BY <1>0, <2>2 DEF Current
      <3> QED
        BY <1>0, <3>1
    <2> QED
      BY <1>0, <2>1, <2>2, JobMoves
  <1>2. ASSUME NEW a \in Attempts, Admits(a) PROVE \A b \in Admitted' \ {a} : b \in Admitted /\ ~Current(b)'
                                                   /\ att'[b].epoch = att[b].epoch
    <2>1. \A b \in Attempts \ {a} : b \in Admitted' => b \in Admitted
      BY <1>2 DEF Admits, Advances, Admitted
    <2> QED
      BY <1>0, <1>2, <2>1, NewestAdmitted, Stays
  <1>3. ASSUME NEW a \in Attempts, Admits(a) PROVE test'.job = None /\ att'[a].epoch = test.rev + 1
    BY <1>3, AdmittedUnbound DEF Admits
  <1> QED
    BY <1>0, <1>1, <1>2, <1>3

\* Activation alone lets a job be picked.
LEMMA ReadyMoves ==
    ASSUME IInv, Next, NEW a \in Attempts
    PROVE  /\ ready'[a] => ready[a] \/ \E d \in Requests : Activate(d) /\ req[d].att = a
           /\ ready[a] => ready'[a]
  <1>0. ready \in [Attempts -> BOOLEAN]
    BY DEF IInv, TypeOK
  <1>1. ASSUME NEW d \in Requests, Process(d)
        PROVE  /\ ready'[a] => ready[a] \/ (Activate(d) /\ req[d].att = a)
               /\ ready[a] => ready'[a]
    BY <1>0, <1>1 DEF Process, Dispatch, Enqueue, Bind, Reread, Activate, Cleanup, jobVars
  <1>2. CASE Worker \/ Booting \/ Crash
    BY <1>2 DEF Worker, BeginTestExecution, RunCandidate, FinishTestExecution, GiveUp, EndJob, Pick, Booting, Boot,
       BootJobs, RecoverInterruptedTests, Crash, jobVars
  <1>3. CASE Sweeper \/ \E b \in Attempts : Hook(b)
    BY <1>3 DEF Sweeper, SweepStarts, SweepCancel, SweepCancelled, SweepReconciles, SweepGoesOn, SweepLooks,
       SweepEnds, SweepConfirms, Hook, HookSettle, HookEnd, HookConfirm, jobVars
  <1>4. CASE Start \/ (\E ids \in SUBSET Cands : Retry(ids)) \/ CancelTest \/ CancelBound \/ Decide \/ Purge
    BY <1>4 DEF Start, Retry, Admit, CancelTest, CancelBound, Decide, Purge, jobVars
  <1> QED
    BY <1>1, <1>2, <1>3, <1>4 DEF Next

\* A hook goes from settlement to end to confirmation, and starts with the end
\* of the job.
LEMMA HookMoves ==
    ASSUME IInv, Next, NEW a \in Attempts
    PROVE  /\ hook'[a] = "confirm" => hook[a] = "confirm" \/ HookEnd(a)
           /\ hook[a] # "none" /\ hook'[a] = "none" => HookConfirm(a) \/ Crash
           /\ row[a] \in {"queued", "running"} /\ row'[a] \in Terminal => hook'[a] # "none" \/ BootJobs
  <1> DEFINE Goal == /\ hook'[a] = "confirm" => hook[a] = "confirm" \/ HookEnd(a)
                     /\ hook[a] # "none" /\ hook'[a] = "none" => HookConfirm(a) \/ Crash
                     /\ row[a] \in {"queued", "running"} /\ row'[a] \in Terminal => hook'[a] # "none" \/ BootJobs
  <1>0. /\ hook \in [Attempts -> {"none", "settle", "end", "confirm"}]
        /\ row \in [Attempts -> {"absent", "queued", "running"} \cup Terminal]
        /\ run.pc # "idle" => run.att \in Attempts
    BY DEF IInv, TypeOK, Linked
  <1>1. ASSUME UNCHANGED <<row, hook>> PROVE Goal
    BY <1>0, <1>1 DEF Terminal
  <1>2. ASSUME NEW b \in Attempts, CancelJob(b) PROVE Goal
    BY <1>0, <1>2 DEF CancelJob, Terminal
  <1>3. ASSUME NEW d \in Requests, Process(d) PROVE Goal
    <2>0. req[d].pc # "idle" => req[d].att \in Attempts
      BY DEF IInv, Linked, Admitted
    <2>1. CASE Enqueue(d)
      BY <1>0, <2>0, <2>1 DEF Enqueue, AtPc, Terminal
    <2>2. CASE Cleanup(d)
      BY <1>2, <2>0, <2>2 DEF Cleanup, AtPc
    <2> QED
      BY <1>1, <1>3, <2>1, <2>2 DEF Process, Dispatch, Bind, Reread, Activate, jobVars
  <1>4. CASE Worker
    <2>1. CASE EndJob
      BY <1>0, <2>1 DEF EndJob, HookAfter, Terminal
    <2>2. ASSUME NEW b \in Attempts, Pick(b) PROVE Goal
      BY <1>0, <2>2 DEF Pick, Terminal
    <2> QED
      BY <1>1, <1>4, <2>1, <2>2 DEF Worker, BeginTestExecution, RunCandidate, FinishTestExecution, GiveUp, jobVars
  <1>5. ASSUME NEW b \in Attempts, Hook(b) PROVE Goal
    BY <1>0, <1>5 DEF Hook, HookSettle, HookEnd, HookConfirm, jobVars, Terminal
  <1>6. CASE Sweeper
    <2>1. ASSUME NEW b \in Attempts, SweepCancel(b) PROVE Goal
      BY <1>2, <2>1 DEF SweepCancel
    <2> QED
      BY <1>1, <1>6, <2>1 DEF Sweeper, SweepStarts, SweepCancelled, SweepReconciles, SweepGoesOn, SweepLooks,
         SweepEnds, SweepConfirms, jobVars
  <1>7. CASE BootJobs
    BY <1>0, <1>7 DEF BootJobs
  <1>8. CASE CancelBound
    BY <1>2, <1>8 DEF CancelBound, IInv, Linked, Admitted
  <1>9. CASE Crash
    BY <1>0, <1>9 DEF Crash, jobVars, Terminal
  <1>10. CASE Boot \/ RecoverInterruptedTests \/ Start \/ (\E ids \in SUBSET Cands : Retry(ids)) \/ CancelTest \/ Decide \/ Purge
    BY <1>1, <1>10 DEF Boot, RecoverInterruptedTests, Start, Retry, Admit, CancelTest, Decide, Purge, jobVars
  <1> QED
    BY <1>3, <1>4, <1>5, <1>6, <1>7, <1>8, <1>9, <1>10 DEF Next, Booting

\* Nobody stops the job of the newest attempt before it is bound: a request
\* that lost it, a cancel and the sweep stop others, or the test is closed.
LEMMA PreparedKept ==
    ASSUME IInv, Next, NEW a \in Attempts, Up, a \in Admitted, att[a].status = "prepared", Current(a), ~Closed,
           row'[a] \in Terminal
    PROVE  row[a] \in Terminal \cup {"running"}
  <1>0. row \in [Attempts -> {"absent", "queued", "running"} \cup Terminal]
    BY DEF IInv, TypeOK
  <1>1. CASE UNCHANGED row
    BY <1>1
  <1>2. ASSUME NEW b \in Attempts, b # a, CancelJob(b) PROVE row'[a] = row[a]
    BY <1>0, <1>2 DEF CancelJob
  <1>3. ASSUME NEW d \in Requests, Process(d) PROVE row[a] \in Terminal
    <2>0. req[d].pc # "idle" => req[d].att \in Attempts
      BY DEF IInv, Linked, Admitted
    <2>1. CASE Enqueue(d)
      BY <1>0, <2>0, <2>1 DEF Enqueue, AtPc, Terminal
    <2>2. CASE Cleanup(d)
      <3>1. req[d].att # a /\ req[d].att \in Attempts
        BY <2>0, <2>2 DEF Cleanup, AtPc, IInv, OwnerInv
      <3> QED
        BY <1>2, <2>2, <3>1 DEF Cleanup
    <2> QED
      BY <1>3, <2>1, <2>2 DEF Process, Dispatch, Bind, Reread, Activate, jobVars
  <1>4. CASE Worker
    <2>1. CASE EndJob
      BY <1>0, <2>1 DEF EndJob, IInv, Linked
    <2>2. ASSUME NEW b \in Attempts, Pick(b) PROVE row[a] \in Terminal
      BY <1>0, <2>2 DEF Pick, Terminal
    <2> QED
      BY <1>4, <2>1, <2>2 DEF Worker, BeginTestExecution, RunCandidate, FinishTestExecution, GiveUp, jobVars
  <1>5. CASE Sweeper
    <2>1. ASSUME NEW b \in Attempts, SweepCancel(b) PROVE b # a
      BY <2>1 DEF SweepCancel, Foremost, IInv, CostInv, SweepCost, IsOpen, Open
    <2> QED
      BY <1>2, <1>5, <2>1 DEF Sweeper, SweepStarts, SweepCancel, SweepCancelled, SweepReconciles, SweepGoesOn, SweepLooks,
         SweepEnds, SweepConfirms, jobVars
  <1>6. CASE CancelBound
    BY <1>6 DEF CancelBound, IInv, Linked
  <1>7. CASE BootJobs
    BY <1>7 DEF BootJobs, Up
  <1>8. CASE Boot \/ RecoverInterruptedTests \/ Start \/ (\E ids \in SUBSET Cands : Retry(ids)) \/ CancelTest \/ Decide
             \/ Purge \/ Crash \/ \E b \in Attempts : Hook(b)
    BY <1>8 DEF Boot, RecoverInterruptedTests, Start, Retry, Admit, CancelTest, Decide, Purge, Crash,
       Hook, HookSettle, HookEnd, HookConfirm, jobVars
  <1> QED
    BY <1>3, <1>4, <1>5, <1>6, <1>7, <1>8 DEF Next, Booting

\* What is known of the jobs: only a bound attempt's job runs, and the job of
\* the newest attempt, until it is bound, is waiting or not there.
LEMMA JobStep ==
    ASSUME IInv, Next, NEW a \in Attempts
    PROVE  /\ ready'[a] => att'[a].status \notin {"none", "prepared"}
           /\ row'[a] = "running" => ready'[a]
           /\ hook'[a] = "confirm" => ~IsOpen(a)'
           /\ Up' /\ att'[a].status = "prepared" /\ Current(a)' /\ ~Closed' => row'[a] \in {"absent", "queued"}
  <1>0. /\ ready[a] => att[a].status \notin {"none", "prepared"}
        /\ row[a] = "running" => ready[a]
        /\ hook[a] = "confirm" => ~IsOpen(a)
        /\ hook[a] # "none" => a \in Admitted
        /\ row[a] # "absent" => a \in Admitted
        /\ a \in Admitted => /\ (att'[a].status = "prepared" => att[a].status = "prepared")
                             /\ (IsOpen(a)' => IsOpen(a)) /\ (Current(a)' => Current(a))
                             /\ a \in Admitted'
        /\ RowMoves(a) /\ row[a] \in {"absent", "queued", "running"} \cup Terminal
        /\ ready \in [Attempts -> BOOLEAN] /\ hook \in [Attempts -> {"none", "settle", "end", "confirm"}]
    BY Stays, JobsMove DEF IInv, OwnerInv, Linked, Terminal, TypeOK
  <1>1. ready'[a] => ready[a] \/ \E d \in Requests : Activate(d) /\ req[d].att = a
    BY ReadyMoves
  <1>2. ready[a] => ready'[a]
    BY ReadyMoves
  <1>3. ready'[a] => att'[a].status \notin {"none", "prepared"}
    <2>1. CASE ready[a]
      BY <1>0, <2>1 DEF Admitted
    <2>2. ASSUME NEW d \in Requests, Activate(d), req[d].att = a PROVE att'[a].status \notin {"none", "prepared"}
      <3>1. att' = att /\ att[a].status # "prepared" /\ a \in Admitted
        BY <2>2 DEF Activate, AtPc, testVars, IInv, OwnerInv, Linked
      <3> QED
        BY <3>1 DEF Admitted
    <2> QED
      BY <1>1, <2>1, <2>2
  <1>4. row'[a] = "running" => ready'[a]
    BY <1>0, <1>2 DEF RowMoves, Pick
  <1>5. hook'[a] = "confirm" => ~IsOpen(a)'
    <2>1. hook'[a] = "confirm" => hook[a] = "confirm" \/ HookEnd(a)
      BY HookMoves
    <2>2. CASE HookEnd(a)
      <3>1. att \in [Attempts -> Attempt]
        BY DEF IInv, TypeOK
      <3>2. \E outcome : EndTestExecution(a, outcome)
        BY <2>2 DEF HookEnd
      <3> QED
        BY <3>1, <3>2 DEF EndTestExecution, testVars, IsOpen, Open, Attempt
    <2> QED
      BY <1>0, <2>1, <2>2
  <1>6. ASSUME Up', att'[a].status = "prepared", Current(a)', ~Closed' PROVE row'[a] \in {"absent", "queued"}
    <2>0. ~Closed
      BY <1>6, ClosedStep
    <2>1. CASE a \notin Admitted
      <3>1. Admits(a)
        BY <1>6, <2>1, Stays DEF Admitted
      <3>2. row' = row
        BY <3>1 DEF Admits, Start, Retry, Admit, jobVars
      <3> QED
        BY <1>0, <2>1, <3>2
    <2>2. CASE a \in Admitted /\ ~Up
      <3>1. SweepGoesOn
        BY <1>6, <2>2, ProcMoves DEF Up, Crash, Boot, BootJobs
      <3>2. proc = "recover" /\ sweep.pc # "idle"
        <4>1. proc \in {"down", "jobs", "recover", "up"} /\ (proc \in {"down", "jobs"} => sweep = NoSweep)
          BY DEF IInv, TypeOK, BootInv
        <4> QED
          BY <2>2, <3>1, <4>1 DEF SweepGoesOn, Up, NoSweep
      <3>3. ~IsOpen(a)
        BY <3>2 DEF IInv, BootInv, RecoverInv
      <3> QED
        BY <1>0, <1>6, <2>2, <3>3 DEF IsOpen, Open
    <2>3. CASE a \in Admitted /\ Up
      <3>1. att[a].status = "prepared" /\ Current(a) /\ row[a] \in {"absent", "queued"} /\ ~ready[a]
        BY <1>0, <1>6, <2>0, <2>3 DEF IInv, OwnerInv
      <3>2. row'[a] \in Terminal => row[a] \in Terminal \cup {"running"}
        BY <2>0, <2>3, <3>1, PreparedKept
      <3> QED
        BY <1>0, <3>1, <3>2 DEF RowMoves, Pick, Terminal
    <2> QED
      BY <2>1, <2>2, <2>3
  <1> QED
    BY <1>3, <1>4, <1>5, <1>6

\* A stutter keeps everything.
LEMMA StutterKeeps == ASSUME IInv, UNCHANGED vars PROVE IInv'
  <1> USE DEF vars
  <1>1. TypeOK'
    BY DEF IInv, TypeOK
  <1>2. Linked' /\ SweepLinked' /\ CandInv'
    BY DEF IInv, Linked, SweepLinked, CandInv, ReviewIsComplete, AllGood, Current, Admitted, Closed, Up
  <1>3. CostInv' /\ BootInv'
    BY DEF IInv, CostInv, SweepCost, IsOpen, BootInv, RecoverInv, Admitted
  <1>4. OwnerInv'
    BY DEF IInv, OwnerInv, NoOrphanRun, Current, Admitted, Closed, Up, IsOpen
  <1> QED
    BY <1>1, <1>2, <1>3, <1>4 DEF IInv

\* What a request knows of the job it dispatches.
ReqKnows(d) ==
    LET a == req[d].att IN
    /\ req[d].pc \in {"bind", "reread", "activate", "cleanup"} => row[a] # "absent"
    /\ req[d].pc = "activate" => att[a].status # "prepared"
    /\ req[d].pc = "cleanup" => Closed \/ ~Current(a)

LEMMA RequestStep == ASSUME IInv, Next, NEW d \in Requests PROVE ReqKnows(d)'
  <1>0. /\ ReqKnows(d) /\ req \in [Requests -> Req]
        /\ \A e \in Requests : req[e].pc # "idle" => req[e].att \in Admitted
        /\ \A a \in Admitted : /\ a \in Attempts
                               /\ row[a] # "absent" => row'[a] # "absent"
                               /\ att'[a].status = "prepared" => att[a].status = "prepared"
                               /\ ~Current(a) => ~Current(a)'
        /\ Closed => Closed'
    BY Stays, JobsMove, ClosedStep DEF IInv, OwnerInv, ReqKnows, Linked, TypeOK, RowMoves, Admitted
  <1>1. CASE UNCHANGED req
    <2>1. req[d].pc # "idle" => ReqKnows(d)'
      <3> DEFINE a == req[d].att
      <3> SUFFICES ASSUME req[d].pc # "idle" PROVE ReqKnows(d)'
        OBVIOUS
      <3>1. /\ a \in Admitted
            /\ req'[d].pc \in {"bind", "reread", "activate", "cleanup"} => row'[a] # "absent"
            /\ req'[d].pc = "activate" => att'[a].status # "prepared"
            /\ req'[d].pc = "cleanup" => Closed' \/ ~Current(a)
        BY <1>0, <1>1 DEF ReqKnows
      <3>2. ~Current(a) => \E b \in Admitted' : ~(att'[b].epoch <= att'[a].epoch)
        BY <3>1, Stays DEF Current
      <3> QED
        BY <1>1, <3>1, <3>2 DEF ReqKnows, Current
    <2> QED
      BY <1>1, <2>1 DEF ReqKnows
  <1>2. CASE req'[d].pc \in {"idle", "start"}
    BY <1>2 DEF ReqKnows
  <1>3. ASSUME NEW e \in Requests, e # d, Process(e) PROVE ReqKnows(d)'
    <2>1. req'[d] = req[d]
      BY <1>0, <1>3 DEF Process, Dispatch, Enqueue, Bind, Reread, Activate, Cleanup, Then, Request
    <2> DEFINE a == req[d].att
    <2>2. CASE req[d].pc = "idle"
      BY <2>1, <2>2 DEF ReqKnows
    <2>3. CASE req[d].pc # "idle"
      <3>1. /\ a \in Admitted
            /\ req'[d].pc \in {"bind", "reread", "activate", "cleanup"} => row'[a] # "absent"
            /\ req'[d].pc = "activate" => att'[a].status # "prepared"
            /\ req'[d].pc = "cleanup" => Closed' \/ ~Current(a)
        BY <1>0, <2>1, <2>3 DEF ReqKnows
      <3>2. ~Current(a) => \E b \in Admitted' : ~(att'[b].epoch <= att'[a].epoch)
        BY <3>1, Stays DEF Current
      <3> QED
        BY <2>1, <3>1, <3>2 DEF ReqKnows, Current
    <2> QED
      BY <2>2, <2>3
  <1>4. CASE Process(d)
    <2> DEFINE a == req[d].att
    <2>0. ASSUME NEW pc, Then(d, pc), pc # "idle" PROVE req'[d].pc = pc /\ req'[d].att = a
      BY <1>0, <2>0 DEF Then, Request, Req
    <2>00. ASSUME Then(d, "idle") PROVE req'[d].pc = "idle"
      BY <1>0, <2>00 DEF Then, Request, NoReq
    <2>1. CASE Dispatch(d)
      BY <1>0, <1>2, <2>1 DEF Dispatch, Request
    <2>2. CASE Enqueue(d)
      <3>1. CASE Then(d, "bind") /\ ((row[a] # "absent" /\ row' = row) \/ row' = [row EXCEPT ![a] = "queued"])
        <4>1. row'[a] # "absent"
          BY <1>0, <2>2, <3>1 DEF Enqueue, AtPc, IInv, TypeOK
        <4> QED
          BY <2>0, <3>1, <4>1 DEF ReqKnows
      <3> QED
        BY <1>2, <2>00, <2>2, <3>1 DEF Enqueue
    <2>3. CASE Bind(d)
      <3>0. row'[a] # "absent"
        BY <1>0, <2>3 DEF Bind, AtPc, ReqKnows, jobVars
      <3>1. CASE Then(d, "reread")
        BY <2>0, <3>0, <3>1 DEF ReqKnows
      <3>2. CASE Then(d, "activate")
        <4>1. att'[a].status # "prepared"
          <5>1. CASE CanBind(a)
            BY <2>3, <5>1, BindBinds
          <5>2. CASE ~CanBind(a)
            BY <2>3, <3>2, <5>2, <2>0 DEF Bind, AlreadyBound
          <5> QED
            BY <5>1, <5>2
        <4> QED
          BY <2>0, <3>0, <3>2, <4>1 DEF ReqKnows
      <3> QED
        BY <2>3, <3>1, <3>2 DEF Bind
    <2>4. CASE Reread(d)
      <3>0. row'[a] # "absent" /\ att' = att /\ test' = test /\ a \in Admitted
        BY <1>0, <2>4 DEF Reread, AtPc, ReqKnows, jobVars, testVars
      <3>1. CASE Then(d, "activate") /\ test.job = a /\ test.status \in {"queued", "running"}
        <4>1. att[a].status # "prepared"
          BY <3>0, <3>1 DEF IInv, OwnerInv, Admitted, Attempts, None
        <4> QED
          BY <2>0, <3>0, <3>1, <4>1 DEF ReqKnows
      <3>2. CASE Then(d, "cleanup") /\ (Closed \/ (test.job # None /\ test.job # a))
        <4>1. Closed \/ ~Current(a)
          BY <3>0, <3>2 DEF IInv, OwnerInv
        <4>2. ~Current(a) => \E b \in Admitted' : ~(att'[b].epoch <= att'[a].epoch)
          BY <3>0, Stays DEF Current
        <4>3. Closed => Closed'
          BY <1>0
        <4> QED
          BY <2>0, <3>0, <3>2, <4>1, <4>2, <4>3 DEF ReqKnows, Current
      <3> QED
        BY <1>2, <2>00, <2>4, <3>1, <3>2 DEF Reread
    <2>5. CASE Activate(d) \/ Cleanup(d)
      BY <1>2, <2>00, <2>5 DEF Activate, Cleanup
    <2> QED
      BY <1>4, <2>1, <2>2, <2>3, <2>4, <2>5 DEF Process
  <1>5. CASE Crash
    BY <1>2, <1>5 DEF Crash, NoReq
  <1>6. CASE Worker \/ Booting
    BY <1>1, <1>6 DEF Worker, BeginTestExecution, RunCandidate, FinishTestExecution, GiveUp, EndJob, Pick,
       Booting, Boot, BootJobs, RecoverInterruptedTests
  <1>7. CASE Sweeper \/ \E a \in Attempts : Hook(a)
    BY <1>1, <1>7 DEF Sweeper, SweepStarts, SweepCancel, SweepCancelled, SweepReconciles, SweepGoesOn, SweepLooks,
       SweepEnds, SweepConfirms, Hook, HookSettle, HookEnd, HookConfirm
  <1>8. CASE Start \/ (\E ids \in SUBSET Cands : Retry(ids)) \/ CancelTest \/ CancelBound \/ Decide \/ Purge
    BY <1>1, <1>8 DEF Start, Retry, Admit, CancelTest, CancelBound, Decide, Purge
  <1> QED
    BY <1>3, <1>4, <1>5, <1>6, <1>7, <1>8 DEF Next

\* The job of a test that is going on is active, or its end is on its way: the
\* hook of an ended job gives up only on an attempt that has ended.
LEMMA NoOrphanStep == ASSUME IInv, Next, TypeOK' PROVE NoOrphanRun'
  <1> SUFFICES ASSUME Up', test'.status \in Going, test'.job # None
               PROVE  row'[test'.job] \in {"queued", "running"} \/ hook'[test'.job] # "none"
    BY DEF NoOrphanRun, Going
  <1>0. test'.job \in Attempts /\ att'[test'.job].status \in Going
    BY GoingStep DEF TypeOK, Test
  <1>1. CASE \E d \in Requests : Bind(d) /\ CanBind(req[d].att)
    <2>1. PICK d \in Requests : Bind(d) /\ CanBind(req[d].att)
      BY <1>1
    <2> QED
      BY <2>1, BindBinds
  <1>2. CASE test.status \in Going /\ test'.job = test.job
    <2> DEFINE a == test.job
    <2>1. a \in Attempts /\ att[a].status \in Going
      BY <1>0, <1>2 DEF IInv, OwnerInv, Going
    <2>2. Up
      <3>1. ASSUME ~Up PROVE FALSE
        <4>1. SweepGoesOn
          BY <3>1, ProcMoves DEF Up, Crash, Boot, BootJobs
        <4>2. proc = "recover" /\ sweep.pc # "idle"
          <5>1. proc \in {"down", "jobs", "recover", "up"} /\ (proc \in {"down", "jobs"} => sweep = NoSweep)
            BY DEF IInv, TypeOK, BootInv
          <5> QED
            BY <3>1, <4>1, <5>1 DEF SweepGoesOn, Up, NoSweep
        <4> QED
          BY <2>1, <4>2 DEF IInv, BootInv, RecoverInv, IsOpen, Open, Going
      <3> QED
        BY <3>1
    <2>3. row[a] \in {"queued", "running"} \/ hook[a] # "none"
      BY <1>2, <2>1, <2>2 DEF IInv, OwnerInv, NoOrphanRun, Going, Attempts, None
    <2>4. hook[a] # "none" => hook'[a] # "none"
      <3>1. ~HookConfirm(a)
        BY <2>1 DEF HookConfirm, IInv, OwnerInv, IsOpen, Open, Going
      <3>2. ~Crash
        BY DEF Crash, Up
      <3> QED
        BY <2>1, <3>1, <3>2, HookMoves
    <2>5. ~BootJobs
      BY DEF BootJobs, Up
    <2>6. RowMoves(a) /\ row' \in [Attempts -> {"absent", "queued", "running"} \cup Terminal]
      BY <2>1, JobsMove DEF TypeOK
    <2>7. row[a] \in {"queued", "running"} => row'[a] \in {"queued", "running"} \/ hook'[a] # "none"
      <3>1. row'[a] \in {"queued", "running"} \cup Terminal \/ row[a] \notin {"queued", "running"}
        BY <2>1, <2>6 DEF RowMoves
      <3> QED
        BY <2>1, <2>5, <3>1, HookMoves
    <2> QED
      BY <1>2, <2>3, <2>4, <2>7
  <1> QED
    BY <1>1, <1>2, GoingMoves

LEMMA OwnerStep == ASSUME IInv, Next, TypeOK' PROVE OwnerInv'
  <1>1. (test.status \in {"queued", "running"} /\ test.job # None =>
           att[test.job].status \in {"queued", "running"} /\ Current(test.job))'
    BY GoingStep DEF Going
  <1>2. \A d \in Requests : ReqKnows(d)'
    BY RequestStep
  <1> QED
    BY <1>1, <1>2, NewestStep, JobStep, NoOrphanStep DEF OwnerInv, ReqKnows

-----------------------------------------------------------------------------
(* The theorems. *)

\* The invariant holds in every reachable state.
THEOREM Invariance == Spec => []IInv
  <1>1. IInv /\ UNCHANGED vars => IInv'
    BY StutterKeeps
  <1>2. IInv /\ [Next]_vars => IInv'
    <2> SUFFICES ASSUME IInv, Next PROVE IInv'
      BY <1>1
    <2>1. TypeOK'
      BY TypeStep
    <2> QED
      BY <2>1, LinkedStep, SweepLinkedStep, CandStep, CostStep, BootStep, OwnerStep DEF IInv
  <1> QED
    BY <1>2, InitIInv, PTL DEF Spec

\* The rows, the request, the worker and the sweep keep their types.
THEOREM TypeCorrect == Spec => []TypeOK
  <1>1. IInv => TypeOK
    BY DEF IInv
  <1> QED
    BY <1>1, Invariance, PTL

\* A bracket opens, and is decided, only when every candidate was written well:
\* what is unfinished belongs to the newest attempt, and the end of an attempt
\* finishes its candidates (EndTestExecution, FinishTestExecution).
THEOREM ReviewsAreComplete == Spec => []ReviewIsComplete
  <1>1. IInv => ReviewIsComplete
    BY DEF IInv, CandInv
  <1> QED
    BY <1>1, Invariance, PTL

\* The cost confirmed for an attempt is what its job was paid for, and no paid
\* call comes after (ConfirmTestSettlement, RecoverInterruptedTests).
THEOREM SettlementsAreFinal == Spec => []SettledIsFinal
  <1>1. IInv => SettledIsFinal
    BY DEF IInv, CostInv, SettledIsFinal
  <1> QED
    BY <1>1, Invariance, PTL

\* No stop, restart or stale request leaves a test going on that nobody runs
\* and no hook will end.
THEOREM RunsAreOwned == Spec => []NoOrphanRun
  <1>1. IInv => NoOrphanRun
    BY DEF IInv, OwnerInv
  <1> QED
    BY <1>1, Invariance, PTL

\* Nothing reopens a cancelled or purged test, or writes into its candidates.
THEOREM ClosedTestsStayClosed == Spec => ClosedStaysClosed
  <1>1. IInv /\ [Next]_vars =>
          [Closed => (test.purged \/ test'.status = "cancelled") /\ test'.status \notin {"queued", "running", "review"}
                     /\ cand' = cand]_vars
    BY ClosedStep
  <1> QED
    BY <1>1, Invariance, PTL DEF Spec, ClosedStaysClosed

\* A boot ends with no attempt open, and each with its cost unless its job is
\* still waiting in the queue.
THEOREM BootsSettle == Spec => BootSettles
  <1>1. ASSUME IInv, Next, ~Up, proc' = "up"
        PROVE  \A a \in Admitted : /\ att'[a].status \notin Open
                                   /\ att'[a].settled \/ row'[a] = "queued"
    <2>1. SweepGoesOn
      BY <1>1, ProcMoves DEF Up, Crash, Boot, BootJobs
    <2>2. proc = "recover"
      <3>1. proc \in {"down", "jobs", "recover", "up"} /\ (proc \in {"down", "jobs"} => sweep = NoSweep)
        BY <1>1 DEF IInv, TypeOK, BootInv
      <3> QED
        BY <1>1, <2>1, <3>1 DEF SweepGoesOn, Up, NoSweep
    <2>3. sweep.pc = "closed" /\ sweep.todo = {} /\ UNCHANGED <<att, row>>
      BY <1>1, <2>1, <2>2 DEF SweepGoesOn, testVars, jobVars, IInv, BootInv, RecoverInv
    <2> QED
      BY <1>1, <2>2, <2>3 DEF IInv, BootInv, RecoverInv, IsOpen, Admitted
  <1>2. IInv /\ [Next]_vars =>
          [~Up /\ proc' = "up" => \A a \in Admitted : /\ att'[a].status \notin Open
                                                      /\ att'[a].settled \/ row'[a] = "queued"]_vars
    BY <1>1
  <1> QED
    BY <1>2, Invariance, PTL DEF Spec, BootSettles
=============================================================================
