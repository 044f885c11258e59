------------------------- MODULE RefundRequestProofs -------------------------
(***************************************************************************)
(* The properties of RefundRequest, for any account, any number of         *)
(* requests, operations and credits, and any price.                        *)
(*                                                                         *)
(* What makes a repeated cancel harmless is that the provider still has    *)
(* its key: a cancel is sent and served only while the key is kept, and a  *)
(* kept key of a cancel that went through answers without moving anything. *)
(* The reviewed amount is written once, before the first cancel is sent.   *)
(*                                                                         *)
(* The rest follows from there being one request under way at a time.  The *)
(* balance of the review then stands until the request's own cancel, which *)
(* is therefore the payment's last: it is what a balance down by the amount*)
(* shows, and a balance that is not down shows there is none.              *)
(***************************************************************************)
EXTENDS RefundRequest, CreditLedgerProofs, TLAPS

ReqStates == {"requested", "processing", "failed", "completed"}
IsRow(x) == /\ x = [f \in {"amount", "before", "at", "tx"} |-> x[f]]
            /\ x.amount \in Nat /\ x.at \in Nat
IsOp(x)  == /\ x = [f \in {"pc", "r", "seen", "tx"} |-> x[f]]
            /\ x.pc # "idle" => x.r \in Requests

Shape ==
    /\ now \in Nat /\ refund \in [Requests -> ReqStates]
    /\ row = [r \in Requests |-> row[r]] /\ \A r \in Requests : IsRow(row[r])
    /\ op = [o \in Ops |-> op[o]] /\ \A o \in Ops : IsOp(op[o])
    /\ cancels \in Seq([key : Requests, amount : Nat])
    /\ answers \in [Requests -> {"none", "ok", "refused"}] /\ late \subseteq Requests

\* Only a reviewed request is reconciled, and a cancel that may still arrive
\* arrives while the provider keeps its key.
Reviewed == \A o \in Ops : op[o].pc \notin {"idle", "reviewing"} => refund[op[o].r] # "requested"
Kept     == /\ \A o \in Ops : At(o, "calling") => Keeps(op[o].r)
            /\ \A r \in late : refund[r] # "requested" /\ Keeps(r)

\* A cancel that went through is remembered for as long as it may come again.
Remembered == \A r \in Requests : CancelsOf(r) # {} =>
    refund[r] # "requested" /\ (answers[r] = "ok" \/ ~Keeps(r))

IInv == Shape /\ Reviewed /\ Kept /\ Remembered /\ RefundedOnce

\* What every step keeps of a request that was reviewed.
Decided == \A r \in Requests : refund[r] # "requested" =>
    refund'[r] # "requested" /\ row'[r].amount = row[r].amount /\ row'[r].at = row[r].at

-----------------------------------------------------------------------------
\* The account's own work touches neither the clock nor the requests.
LEMMA WorkAside == ASSUME Work PROVE refund' = refund /\ now' = now
  BY DEF Work, Grant, TopUp, AddUpgradeBonus, RevokeVoucher, Record, Release, Hold, Settle

LEMMA InitHolds == RefundInit => IInv
<1> SUFFICES ASSUME RefundInit PROVE IInv
  OBVIOUS
<1>1. Shape
  BY DEF RefundInit, Init, Shape, ReqStates, IsRow, IsOp, NoRow, NoOp
<1>2. \A r \in Requests : CancelsOf(r) = {}
  BY DEF RefundInit, CancelsOf
<1> QED
  BY <1>1, <1>2 DEF RefundInit, IInv, Reviewed, Kept, Remembered, RefundedOnce, At, NoOp

\* A step that sends nothing and lets no time pass keeps what was sent.
LEMMA QuietKeeps ==
  ASSUME IInv, UNCHANGED <<now, cancels, answers>>, Decided
  PROVE  Remembered' /\ RefundedOnce'
<1>1. \A r \in Requests : CancelsOf(r)' = CancelsOf(r)
  BY DEF CancelsOf
<1>2. ASSUME NEW r \in Requests, CancelsOf(r)' # {}
      PROVE  refund'[r] # "requested" /\ (answers'[r] = "ok" \/ ~Keeps(r)')
             /\ row'[r].amount = row[r].amount
  BY <1>1, <1>2 DEF IInv, Remembered, Decided, Keeps
<1>3. Remembered'
  BY <1>2 DEF Remembered
<1>4. RefundedOnce'
  BY <1>1, <1>2 DEF IInv, RefundedOnce
<1> QED
  BY <1>3, <1>4

\* A step beside the requests keeps everything.
LEMMA AsideKeeps ==
  ASSUME IInv, UNCHANGED <<now, refund, row, cancels, answers, late, op>>
  PROVE  IInv'
<1>1. Shape'
  BY DEF IInv, Shape
<1>2. Reviewed' /\ Kept'
  BY DEF IInv, Reviewed, Kept, Keeps, At
<1>3. Decided
  BY DEF Decided
<1> QED
  BY <1>1, <1>2, <1>3, QuietKeeps DEF IInv

\* Recording a transaction leaves what was reviewed.
LEMMA TxMoves ==
  ASSUME Shape, NEW r \in Requests, NEW x, row' = [row EXCEPT ![r].tx = x]
  PROVE  /\ row' = [k \in Requests |-> row'[k]]
         /\ \A k \in Requests : /\ IsRow(row'[k])
                               /\ row'[k].amount = row[k].amount /\ row'[k].at = row[k].at
<1>1. row' = [row EXCEPT ![r] = [row[r] EXCEPT !.tx = x]]
  OBVIOUS
<1>2. row' = [k \in Requests |-> row'[k]] /\ row'[r] = [row[r] EXCEPT !.tx = x]
      /\ \A k \in Requests : k # r => row'[k] = row[k]
  BY <1>1 DEF Shape
<1>3. IsRow(row[r])
  BY DEF Shape
<1>5. IsRow(row'[r]) /\ row'[r].amount = row[r].amount /\ row'[r].at = row[r].at
  BY <1>2, <1>3 DEF IsRow
<1> QED
  BY <1>2, <1>5 DEF Shape

\* What an operation makes of itself when it goes on or leaves.
LEMMA OpMoves ==
  ASSUME Shape, NEW o \in Ops, NEW x, op' = [op EXCEPT ![o] = x]
  PROVE  /\ op' = [k \in Ops |-> op'[k]] /\ op'[o] = x
         /\ \A k \in Ops : k # o => op'[k] = op[k]
  BY DEF Shape

LEMMA PcMoves ==
  ASSUME NEW x, IsOp(x), x.pc # "idle", NEW pc
  PROVE  /\ IsOp([x EXCEPT !.pc = pc]) /\ [x EXCEPT !.pc = pc].pc = pc
         /\ [x EXCEPT !.pc = pc].r = x.r
  BY DEF IsOp

LEMMA Settling ==
  ASSUME Shape, NEW o \in Ops, op[o].pc # "idle", NEW c, Settled(o, c)
  PROVE  /\ op' = [op EXCEPT ![o] = op'[o]] /\ IsOp(op'[o])
         /\ \/ op'[o].pc = "idle"
            \/ op'[o].pc = "recording" /\ op'[o].r = op[o].r
<1>1. op[o].r \in Requests
  BY DEF Shape, IsOp
<1>2. PICK tx : op' = [op EXCEPT ![o] = IF tx = 0 THEN NoOp
                          ELSE [NoOp EXCEPT !.pc = "recording", !.r = op[o].r, !.tx = tx]]
  BY DEF Settled
<1>3. op'[o] = IF tx = 0 THEN NoOp ELSE [NoOp EXCEPT !.pc = "recording", !.r = op[o].r, !.tx = tx]
  BY <1>2, OpMoves
<1>4. ASSUME op'[o] = [NoOp EXCEPT !.pc = "recording", !.r = op[o].r, !.tx = tx]
      PROVE  IsOp(op'[o]) /\ op'[o].pc = "recording" /\ op'[o].r = op[o].r
  BY <1>1, <1>4 DEF NoOp, IsOp
<1>5. IsOp(NoOp) /\ NoOp.pc = "idle"
  BY DEF NoOp, IsOp
<1>6. op' = [op EXCEPT ![o] = op'[o]]
  BY <1>2, <1>3
<1> QED
  BY <1>3, <1>4, <1>5, <1>6

\* An operation of its own moves on; nothing else does.
LEMMA OpKeeps ==
  ASSUME IInv, UNCHANGED <<now, refund, cancels, answers>>, Shape', Reviewed', Decided,
         late' \subseteq late \cup {op[o].r : o \in {k \in Ops : At(k, "calling")}},
         \A o \in Ops : At(o, "calling")' => Keeps(op[o].r)'
  PROVE  IInv'
<1>1. ASSUME NEW r \in late' PROVE refund'[r] # "requested" /\ Keeps(r)'
  <2>1. r \in late \/ \E o \in Ops : At(o, "calling") /\ r = op[o].r
    BY <1>1
  <2>2. refund[r] # "requested" /\ Keeps(r) /\ r \in Requests
    BY <2>1 DEF IInv, Kept, Reviewed, Shape, IsOp, At
  <2> QED
    BY <2>2 DEF Decided, Keeps
<1>3. Kept'
  BY <1>1 DEF Kept
<1> QED
  BY <1>3, QuietKeeps DEF IInv

-----------------------------------------------------------------------------
\* The provider serves a cancel whose key it keeps.
LEMMA ServeKeeps ==
  ASSUME IInv, NEW r \in Requests, NEW answer \in {"ok", "refused"}, Serve(r, answer),
         refund[r] # "requested", Keeps(r), UNCHANGED <<now, refund, row>>
  PROVE  /\ Remembered' /\ RefundedOnce'
         /\ cancels' \in Seq([key : Requests, amount : Nat])
         /\ answers' \in [Requests -> {"none", "ok", "refused"}]
<1>1. CASE UNCHANGED <<cancels, answers>>
  <2>1. Remembered' /\ RefundedOnce'
    BY <1>1, QuietKeeps DEF Decided
  <2> QED
    BY <1>1, <2>1 DEF IInv, Shape
<1>2. CASE /\ answers[r] = "none" /\ UNCHANGED cancels
           /\ answers' = [answers EXCEPT ![r] = "refused"]
  <2>1. \A k \in Requests : CancelsOf(k)' = CancelsOf(k)
    BY <1>2 DEF CancelsOf
  <2>2. CancelsOf(r) = {}
    BY <1>2 DEF IInv, Remembered
  <2>3. \A k \in Requests : k # r => answers'[k] = answers[k]
    BY <1>2 DEF IInv, Shape
  <2>4. Remembered'
    BY <2>1, <2>2, <2>3 DEF IInv, Remembered, Keeps
  <2>5. RefundedOnce'
    BY <1>2, <2>1 DEF IInv, RefundedOnce
  <2> QED
    BY <1>2, <2>4, <2>5 DEF IInv, Shape
<1>3. CASE /\ answers[r] = "none"
           /\ cancels' = Append(cancels, [key |-> r, amount |-> row[r].amount])
           /\ answers' = [answers EXCEPT ![r] = "ok"]
  <2> DEFINE n == Len(cancels) + 1
  <2>1. CancelsOf(r) = {}
    BY <1>3 DEF IInv, Remembered
  <2>2. [key |-> r, amount |-> row[r].amount] \in [key : Requests, amount : Nat]
    BY DEF IInv, Shape, IsRow
  <2>3. cancels \in Seq([key : Requests, amount : Nat])
    BY DEF IInv, Shape
  <2>4. /\ cancels' \in Seq([key : Requests, amount : Nat])
        /\ DOMAIN cancels' = DOMAIN cancels \cup {n} /\ n \notin DOMAIN cancels
        /\ \A i \in DOMAIN cancels : cancels'[i] = cancels[i]
        /\ cancels'[n] = [key |-> r, amount |-> row[r].amount]
    BY <1>3, <2>2, <2>3
  <2> HIDE DEF n
  <2>5. CancelsOf(r)' = {n}
    BY <2>1, <2>4 DEF CancelsOf
  <2>6. \A k \in Requests : k # r => CancelsOf(k)' = CancelsOf(k)
    BY <2>4 DEF CancelsOf
  <2>7. answers' \in [Requests -> {"none", "ok", "refused"}] /\ answers'[r] = "ok"
        /\ \A k \in Requests : k # r => answers'[k] = answers[k]
    BY <1>3 DEF IInv, Shape
  <2>8. Remembered'
    BY <2>5, <2>6, <2>7 DEF IInv, Remembered, Keeps
  <2>9. RefundedOnce'
    <3> SUFFICES ASSUME NEW k \in Requests, NEW i \in CancelsOf(k)', NEW j \in CancelsOf(k)'
                 PROVE  i = j /\ cancels'[i].amount = row'[k].amount
      BY DEF RefundedOnce
    <3>1. CASE k = r
      BY <2>4, <2>5, <3>1
    <3>2. CASE k # r
      <4>1. i \in CancelsOf(k) /\ j \in CancelsOf(k) /\ i \in DOMAIN cancels
        BY <2>6, <3>2 DEF CancelsOf
      <4> QED
        BY <2>4, <4>1 DEF IInv, RefundedOnce
    <3> QED
      BY <3>1, <3>2
  <2> QED
    BY <2>4, <2>7, <2>8, <2>9
<1> QED
  BY <1>1, <1>2, <1>3 DEF Serve

-----------------------------------------------------------------------------
\* Every step keeps the invariant.
LEMMA StepKeeps == ASSUME IInv, [RefundNext]_allvars PROVE IInv'
<1> USE DEF At, Aside, Leave
<1>1. CASE UNCHANGED allvars
  BY <1>1, AsideKeeps DEF allvars, vars, rvars
<1>2. ASSUME NEW r \in Requests, RequestRefund(r) \/ Reject(r) PROVE IInv'
  BY <1>2, AsideKeeps DEF RequestRefund, Reject, vars
<1>3. CASE Work /\ UNCHANGED rvars
  BY <1>3, WorkAside, AsideKeeps DEF rvars
<1>4. ASSUME NEW r \in Requests, ServedLate(r) PROVE IInv'
  <2>1. r \in late /\ refund[r] # "requested" /\ Keeps(r) /\ UNCHANGED <<now, refund, row, late, op>>
    BY <1>4 DEF ServedLate, vars, IInv, Kept
  <2>2. PICK answer \in {"ok", "refused"} : Serve(r, answer)
    BY <1>4 DEF ServedLate
  <2>3. /\ Remembered' /\ RefundedOnce' /\ cancels' \in Seq([key : Requests, amount : Nat])
        /\ answers' \in [Requests -> {"none", "ok", "refused"}]
    BY <2>1, <2>2, ServeKeeps
  <2> QED
    BY <2>1, <2>3 DEF IInv, Shape, Reviewed, Kept, Keeps
<1>5. ASSUME NEW o \in Ops, NEW answer \in {"ok", "refused"}, CancelAnswered(o, answer) PROVE IInv'
  <2>1. op[o].r \in Requests /\ refund[op[o].r] # "requested" /\ Keeps(op[o].r)
        /\ UNCHANGED <<now, refund, row, late>>
    BY <1>5 DEF CancelAnswered, vars, IInv, Kept, Reviewed, Shape, IsOp
  <2>2. /\ Remembered' /\ RefundedOnce' /\ cancels' \in Seq([key : Requests, amount : Nat])
        /\ answers' \in [Requests -> {"none", "ok", "refused"}]
    BY <1>5, <2>1, ServeKeeps DEF CancelAnswered
  <2>3. /\ op' = [k \in Ops |-> op'[k]] /\ \A k \in Ops : k # o => op'[k] = op[k]
        /\ IsOp(op'[o]) /\ op'[o].pc # "calling" /\ (op'[o].pc # "idle" => op'[o].r = op[o].r)
    <3>1. Shape /\ IsOp(op[o]) /\ op[o].pc = "calling"
      BY <1>5 DEF CancelAnswered, IInv, Shape
    <3>2. CASE Settled(o, cancels')
      BY <3>1, <3>2, Settling, OpMoves
    <3>3. CASE op' = [op EXCEPT ![o].pc = "refused"]
      <4>1. op' = [op EXCEPT ![o] = [op[o] EXCEPT !.pc = "refused"]]
        BY <3>3
      <4>2. op'[o] = [op[o] EXCEPT !.pc = "refused"] /\ op' = [k \in Ops |-> op'[k]]
            /\ \A k \in Ops : k # o => op'[k] = op[k]
        BY <3>1, <4>1, OpMoves
      <4>3. IsOp(op'[o]) /\ op'[o].pc = "refused" /\ op'[o].r = op[o].r
        BY <3>1, <4>2, PcMoves
      <4> QED
        BY <3>1, <4>2, <4>3
    <3> QED
      BY <1>5, <3>2, <3>3 DEF CancelAnswered
  <2> QED
    BY <2>1, <2>2, <2>3 DEF IInv, Shape, Reviewed, Kept, Keeps
<1>6. ASSUME Pass PROVE IInv'
  <2>1. /\ now' = now + 1 /\ UNCHANGED <<refund, row, op, cancels>>
        /\ \A o \in Ops : op[o].pc = "calling" => now <= row[op[o].r].at
        /\ answers' = [r \in Requests |-> IF now' > row[r].at + 1 THEN "none" ELSE answers[r]]
        /\ late' = {r \in late : now' <= row[r].at + 1}
    BY <1>6 DEF Pass, Tick
  <2>2. Shape'
    BY <2>1 DEF IInv, Shape
  <2>3. Reviewed'
    BY <2>1 DEF IInv, Reviewed
  <2>4. Kept'
    <3>1. ASSUME NEW o \in Ops, op[o].pc = "calling" PROVE now' <= row[op[o].r].at + 1
      <4>1. row[op[o].r].at \in Nat /\ now \in Nat /\ now <= row[op[o].r].at
        BY <2>1, <3>1 DEF IInv, Shape, IsOp, IsRow
      <4> QED
        BY <2>1, <4>1
    <3> QED
      BY <2>1, <3>1 DEF IInv, Kept, Keeps
  <2>5. \A r \in Requests : CancelsOf(r)' = CancelsOf(r)
    BY <2>1 DEF CancelsOf
  <2>6. Remembered'
    BY <2>1, <2>5 DEF IInv, Shape, IsRow, Remembered, Keeps
  <2>7. RefundedOnce'
    BY <2>1, <2>5 DEF IInv, RefundedOnce
  <2> QED
    BY <2>2, <2>3, <2>4, <2>6, <2>7 DEF IInv
<1>7. ASSUME NEW o \in Ops, NEW amount \in Amounts, Approve(o, amount) PROVE IInv'
  <2>1. op[o].pc = "reviewing" /\ op[o].r \in Requests /\ refund[op[o].r] = "requested" /\ amount \in Nat
        /\ UNCHANGED <<now, cancels, answers, late>>
    BY <1>7, PriceAssumption DEF Approve, ApproveRefund, IInv, Shape, IsOp, Amounts
  <2>2. /\ refund' = [refund EXCEPT ![op[o].r] = "processing"] /\ op' = [op EXCEPT ![o] = NoOp]
        /\ row' = [row EXCEPT ![op[o].r] = [NoRow EXCEPT !.amount = amount, !.before = op[o].seen, !.at = now]]
    BY <1>7 DEF Approve, ApproveRefund
  <2>7. IsRow([NoRow EXCEPT !.amount = amount, !.before = op[o].seen, !.at = now])
    BY <2>1 DEF NoRow, IsRow, IInv, Shape
  <2>3. Shape'
    BY <2>1, <2>2, <2>7 DEF IInv, Shape, IsOp, NoOp, ReqStates
  <2>4. Decided
    BY <2>1, <2>2 DEF IInv, Shape, Decided
  <2>5. Reviewed'
    BY <2>1, <2>2 DEF IInv, Reviewed, Shape, NoOp, IsOp
  <2>6. Kept'
    BY <2>1, <2>2, <2>4 DEF IInv, Kept, Keeps, Shape, Decided, NoOp, IsOp, Reviewed
  <2> QED
    BY <2>1, <2>3, <2>4, <2>5, <2>6, QuietKeeps DEF IInv
<1>8. ASSUME NEW o \in Ops, Fail(o) \/ Apply(o) PROVE IInv'
  <2>1. /\ op[o].r \in Requests /\ op' = [op EXCEPT ![o] = NoOp]
        /\ UNCHANGED <<now, cancels, answers, late>> /\ op[o].pc \in {"failing", "applying"}
    BY <1>8 DEF Fail, Apply, FailRefund, ConfirmRefund, vars, IInv, Shape, IsOp
  <2>2. /\ \/ refund' = refund
           \/ refund' = [refund EXCEPT ![op[o].r] = "failed"]
           \/ refund' = [refund EXCEPT ![op[o].r] = "completed"]
        /\ \/ row' = row
           \/ row' = [row EXCEPT ![op[o].r].tx = op[o].tx]
    BY <1>8 DEF Fail, Apply, FailRefund, ConfirmRefund, vars
  <2>3. Decided
    <3>1. \A k \in Requests : row'[k].amount = row[k].amount /\ row'[k].at = row[k].at
      BY <2>1, <2>2, TxMoves DEF IInv
    <3> QED
      BY <2>1, <2>2, <3>1 DEF IInv, Shape, Decided
  <2>4. Shape'
    <3>1. row' = [k \in Requests |-> row'[k]] /\ \A k \in Requests : IsRow(row'[k])
      BY <2>1, <2>2, TxMoves DEF IInv, Shape
    <3> QED
      BY <2>1, <2>2, <3>1 DEF IInv, Shape, IsOp, NoOp, ReqStates
  <2>5. Reviewed'
    BY <2>1, <2>2 DEF IInv, Reviewed, Shape, NoOp, IsOp
  <2>6. Kept'
    BY <2>1, <2>3 DEF IInv, Kept, Keeps, Shape, Decided, NoOp, IsOp, Reviewed
  <2> QED
    BY <2>1, <2>3, <2>4, <2>5, <2>6, QuietKeeps DEF IInv
<1>9. ASSUME NEW o \in Ops, RecordRefundProviderAttempt(o) PROVE IInv'
  <2>1. /\ op[o].r \in Requests /\ UNCHANGED <<now, refund, cancels, answers, late>>
        /\ \/ row' = row /\ op' = [op EXCEPT ![o] = NoOp]
           \/ /\ row' = [row EXCEPT ![op[o].r].tx = op[o].tx]
              /\ op' = [op EXCEPT ![o].pc = "confirming"]
        /\ op[o].pc = "recording"
    BY <1>9 DEF RecordRefundProviderAttempt, vars, IInv, Shape, IsOp
  <2>2. Decided
    BY <2>1, TxMoves DEF IInv, Decided
  <2>3. /\ op' = [k \in Ops |-> op'[k]] /\ \A k \in Ops : k # o => op'[k] = op[k]
        /\ IsOp(op'[o]) /\ op'[o].pc # "calling" /\ (op'[o].pc # "idle" => op'[o].r = op[o].r)
    <3>1. Shape /\ IsOp(op[o]) /\ op[o].pc = "recording"
      BY <2>1 DEF IInv, Shape
    <3>2. CASE op' = [op EXCEPT ![o] = NoOp]
      BY <3>1, <3>2, OpMoves DEF NoOp, IsOp
    <3>3. CASE op' = [op EXCEPT ![o].pc = "confirming"]
      <4>1. op' = [op EXCEPT ![o] = [op[o] EXCEPT !.pc = "confirming"]]
        BY <3>3
      <4>2. op'[o] = [op[o] EXCEPT !.pc = "confirming"] /\ op' = [k \in Ops |-> op'[k]]
            /\ \A k \in Ops : k # o => op'[k] = op[k]
        BY <3>1, <4>1, OpMoves
      <4>3. IsOp(op'[o]) /\ op'[o].pc = "confirming" /\ op'[o].r = op[o].r
        BY <3>1, <4>2, PcMoves
      <4> QED
        BY <3>1, <4>2, <4>3
    <3> QED
      BY <2>1, <3>2, <3>3
  <2>4. Shape'
    <3>1. row' = [k \in Requests |-> row'[k]] /\ \A k \in Requests : IsRow(row'[k])
      BY <2>1, TxMoves DEF IInv, Shape
    <3> QED
      BY <2>1, <2>3, <3>1 DEF IInv, Shape
  <2>5. Reviewed'
    BY <2>1, <2>3 DEF IInv, Reviewed
  <2>6. \A k \in Ops : op'[k].pc = "calling" => Keeps(op[k].r)'
    <3> SUFFICES ASSUME NEW k \in Ops, op'[k].pc = "calling" PROVE Keeps(op[k].r)'
      OBVIOUS
    <3>1. op'[k] = op[k] /\ Keeps(op[k].r) /\ op[k].r \in Requests /\ refund[op[k].r] # "requested"
      BY <2>3 DEF IInv, Kept, Reviewed, Shape, IsOp
    <3> QED
      BY <2>1, <2>2, <3>1 DEF Decided, Keeps
  <2> QED
    BY <2>1, <2>2, <2>4, <2>5, <2>6, OpKeeps
<1>10. ASSUME NEW o \in Ops,
              Send(o) \/ ReadBack(o) \/ ReadConfirmed(o) \/ GiveUp(o)
                \/ \E r \in Requests : ReadForReview(o, r) \/ Begin(o, r)
       PROVE  IInv'
  <2>1. UNCHANGED <<now, refund, row, cancels, answers>>
    BY <1>10 DEF Send, ReadBack, ReadConfirmed, GiveUp, ReadForReview, Begin, vars
  <2>2. late' \subseteq late \cup {op[k].r : k \in {k \in Ops : At(k, "calling")}}
    BY <1>10 DEF Send, ReadBack, ReadConfirmed, GiveUp, ReadForReview, Begin
  <2> DEFINE Fine ==
        /\ op' = [k \in Ops |-> op'[k]] /\ \A k \in Ops : k # o => op'[k] = op[k]
        /\ IsOp(op'[o])
        /\ op'[o].pc \notin {"idle", "reviewing"} => refund[op'[o].r] # "requested"
        /\ op'[o].pc = "calling" => InWindow(op'[o].r)
  <2>3. Fine
    <3>1. CASE Send(o) \/ ReadConfirmed(o)
      BY ZenonT(60), <3>1 DEF Send, ReadConfirmed, IInv, Shape, Reviewed, IsOp
    <3>2. CASE ReadBack(o)
      <4>1. Shape /\ IsOp(op[o]) /\ op[o].pc = "refused" /\ refund[op[o].r] # "requested"
        BY <3>2 DEF ReadBack, IInv, Shape, Reviewed
      <4>2. CASE Settled(o, cancels)
        BY <4>1, <4>2, Settling, OpMoves
      <4>3. CASE op' = [op EXCEPT ![o].pc = "failing"]
        <5>1. op' = [op EXCEPT ![o] = [op[o] EXCEPT !.pc = "failing"]]
          BY <4>3
        <5>2. op'[o] = [op[o] EXCEPT !.pc = "failing"] /\ op' = [k \in Ops |-> op'[k]]
              /\ \A k \in Ops : k # o => op'[k] = op[k]
          BY <4>1, <5>1, OpMoves
        <5>3. IsOp(op'[o]) /\ op'[o].pc = "failing" /\ op'[o].r = op[o].r
          BY <4>1, <5>2, PcMoves
        <5> QED
          BY <4>1, <5>2, <5>3
      <4> QED
        BY <3>2, <4>2, <4>3 DEF ReadBack
    <3>3. CASE GiveUp(o)
      BY <3>3 DEF GiveUp, NoOp, IInv, Shape, IsOp
    <3>4. ASSUME NEW r \in Requests, ReadForReview(o, r) \/ Begin(o, r) PROVE Fine
      <4>1. CASE ReadForReview(o, r)
        BY <4>1 DEF ReadForReview, NoOp, IInv, Shape, IsOp
      <4>2. CASE Begin(o, r)
        <5>1. PICK pc \in {"due", "confirming"} :
                op' = [op EXCEPT ![o] = [NoOp EXCEPT !.pc = pc, !.r = r, !.tx = row[r].tx]]
          BY <4>2 DEF Begin
        <5>2. op'[o] = [NoOp EXCEPT !.pc = pc, !.r = r, !.tx = row[r].tx] /\ op' = [k \in Ops |-> op'[k]]
              /\ \A k \in Ops : k # o => op'[k] = op[k]
          BY <5>1 DEF IInv, Shape
        <5>3. IsOp(op'[o]) /\ op'[o].pc = pc /\ op'[o].r = r
          BY <5>2 DEF NoOp, IsOp
        <5> QED
          BY <4>2, <5>2, <5>3 DEF Begin
      <4> QED
        BY <3>4, <4>1, <4>2
    <3> QED
      BY <1>10, <3>1, <3>2, <3>3, <3>4
  <2>4. late' \subseteq Requests
    BY <2>2 DEF IInv, Shape, IsOp
  <2>5. Shape'
    BY <2>1, <2>3, <2>4 DEF IInv, Shape
  <2>6. Reviewed'
    BY <2>1, <2>3 DEF IInv, Reviewed
  <2>7. \A k \in Ops : op'[k].pc = "calling" => Keeps(op[k].r)'
    <3> SUFFICES ASSUME NEW k \in Ops, op'[k].pc = "calling" PROVE Keeps(op[k].r)'
      OBVIOUS
    <3>1. CASE k = o
      <4>1. now < row[op'[k].r].at + 1 /\ now \in Nat /\ row[op'[k].r].at \in Nat
        BY <2>3, <3>1 DEF InWindow, IInv, Shape, IsOp, IsRow
      <4> QED
        BY <2>1, <4>1 DEF Keeps
    <3>2. CASE k # o
      <4>1. op'[k] = op[k] /\ Keeps(op[k].r)
        BY <2>3, <3>2 DEF IInv, Kept
      <4> QED
        BY <2>1, <4>1 DEF Keeps
    <3> QED
      BY <3>1, <3>2
  <2> QED
    BY <2>1, <2>2, <2>5, <2>6, <2>7, OpKeeps DEF Decided
<1> QED
  BY <1>1, <1>2, <1>3, <1>4, <1>5, <1>6, <1>7, <1>8, <1>9, <1>10 DEF RefundNext

\* The invariant of the refund requests (billing/refunds.go).
THEOREM Invariance == RefundSpec => []IInv
<1>1. RefundInit => IInv
  BY InitHolds
<1>2. IInv /\ [RefundNext]_allvars => IInv'
  BY StepKeeps
<1> QED
  BY <1>1, <1>2, PTL DEF RefundSpec

\* However often a cancel is sent again, after lost answers, crashes and
\* overlapping reconciliations, a request moves its reviewed amount once
\* (billing/refunds.go:310-380).
THEOREM RefundsOnce == RefundSpec => []RefundedOnce
<1>1. IInv => RefundedOnce
  BY DEF IInv
<1> QED
  BY <1>1, Invariance, PTL

-----------------------------------------------------------------------------
(* The requests use the ledger as its specification allows. *)

\* Every step of the requests is a step of the ledger or leaves it alone.
LEMMA StepOfLedger == ASSUME IInv, [RefundNext]_allvars PROVE [Next]_vars
<1>1. \A o \in Ops : op[o].pc # "idle" => op[o].r \in Requests
  BY DEF IInv, Shape, IsOp
<1>2. ASSUME NEW o \in Ops, Fail(o) \/ Apply(o)
             \/ \E amount \in Amounts : Approve(o, amount)
      PROVE  Next \/ UNCHANGED vars
  <2>1. op[o].r \in Requests
    BY <1>1, <1>2 DEF Approve, Fail, Apply, At
  <2> QED
    BY <1>2, <2>1 DEF Approve, Fail, Apply, Next
<1>3. ASSUME NEW r \in Requests, RequestRefund(r) \/ Reject(r) \/ ServedLate(r) PROVE UNCHANGED vars
  BY <1>3 DEF RequestRefund, Reject, ServedLate, vars
<1>4. ASSUME NEW o \in Ops,
             \/ \E r \in Requests : ReadForReview(o, r) \/ Begin(o, r)
             \/ \E answer \in {"ok", "refused"} : CancelAnswered(o, answer)
             \/ Send(o) \/ ReadBack(o) \/ GiveUp(o) \/ RecordRefundProviderAttempt(o) \/ ReadConfirmed(o)
      PROVE  UNCHANGED vars
  BY <1>4 DEF ReadForReview, Begin, CancelAnswered, Send, ReadBack, GiveUp, RecordRefundProviderAttempt,
              ReadConfirmed, Aside
<1>5. Pass \/ Work => Next
  BY DEF Pass, Next
<1>6. UNCHANGED allvars => UNCHANGED vars
  BY DEF allvars
<1> QED
  BY <1>2, <1>3, <1>4, <1>5, <1>6 DEF RefundNext

-----------------------------------------------------------------------------
(* The balance of a payment. *)

Cancel == [key : Requests, amount : Nat]
Amts(c) == [i \in DOMAIN c |-> c[i].amount]

LEMMA BalanceIs ==
  ASSUME NEW c \in Seq(Cancel)
  PROVE  /\ Balance(c) = Price - Sum(Amts(c), DOMAIN c) /\ Balance(c) \in Int
         /\ \A i \in DOMAIN c : Amts(c)[i] = c[i].amount /\ Amts(c)[i] \in Int
         /\ IsFiniteSet(DOMAIN c) /\ Sum(Amts(c), DOMAIN c) \in Int
<1>1. Len(c) \in Nat /\ DOMAIN c = 1..Len(c) /\ \A i \in DOMAIN c : c[i].amount \in Nat
  <2>1. Len(c) \in Nat /\ DOMAIN c = 1..Len(c) /\ \A i \in DOMAIN c : c[i] \in Cancel
    OBVIOUS
  <2> QED
    BY <2>1 DEF Cancel
<1>2. IsFiniteSet(DOMAIN c)
  BY <1>1, FS_Interval
<1>3. \A i \in DOMAIN c : Amts(c)[i] = c[i].amount /\ Amts(c)[i] \in Int
  BY <1>1 DEF Amts
<1>4. SumFunction(Amts(c)) = Sum(Amts(c), DOMAIN c)
  <2>1. Amts(c) = [i \in DOMAIN c |-> Amts(c)[i]]
    BY DEF Amts
  <2> QED
    BY <2>1, OfAll
<1>5. Sum(Amts(c), DOMAIN c) \in Int
  BY <1>2, <1>3, SumType
<1>6. Balance(c) = Price - SumFunction(Amts(c))
  BY Zenon DEF Balance, Amts
<1> QED
  BY <1>2, <1>3, <1>4, <1>5, <1>6, PriceAssumption

\* Nothing was given back yet.
LEMMA BalanceAtFirst == ASSUME cancels = <<>> PROVE Balance(cancels) = Price
<1>1. cancels \in Seq(Cancel) /\ DOMAIN cancels = {}
  OBVIOUS
<1>2. Balance(cancels) = Price - Sum(Amts(cancels), {})
  BY <1>1, BalanceIs
<1> QED
  BY <1>2, SumOfNone, PriceAssumption

\* A cancel lowers the balance by what it moves.
LEMMA BalanceMoves ==
  ASSUME NEW c \in Seq(Cancel), NEW e \in Cancel
  PROVE  Balance(Append(c, e)) = Balance(c) - e.amount
<1> DEFINE d == Append(c, e)
           n == Len(c) + 1
<1>1. /\ d \in Seq(Cancel) /\ DOMAIN d = DOMAIN c \cup {n} /\ n \notin DOMAIN c
      /\ \A i \in DOMAIN c : d[i] = c[i]
      /\ d[n] = e
  OBVIOUS
<1> HIDE DEF d, n
<1>2. Sum(Amts(d), DOMAIN d) = Amts(d)[n] + Sum(Amts(d), DOMAIN c)
  <2>1. SplitsAt(Amts(d), DOMAIN d, n)
    BY <1>1, BalanceIs, SumOut
  <2>2. DOMAIN d \ {n} = DOMAIN c
    BY <1>1
  <2> QED
    BY <2>1, <2>2 DEF SplitsAt
<1>3. Sum(Amts(d), DOMAIN c) = Sum(Amts(c), DOMAIN c)
  <2>1. \A i \in DOMAIN c : Amts(d)[i] \in Int /\ Amts(d)[i] = Amts(c)[i]
    BY <1>1, BalanceIs
  <2> QED
    BY <2>1, BalanceIs, SumOfEqual
<1>4. Amts(d)[n] = e.amount /\ e.amount \in Nat
  BY <1>1, BalanceIs DEF Cancel
<1>5. /\ Balance(d) = Price - Sum(Amts(d), DOMAIN d) /\ Balance(c) = Price - Sum(Amts(c), DOMAIN c)
      /\ Sum(Amts(c), DOMAIN c) \in Int
  BY <1>1, BalanceIs
<1>6. Balance(d) = Balance(c) - e.amount
  BY <1>2, <1>3, <1>4, <1>5, PriceAssumption
<1> QED
  BY <1>6 DEF d

\* A nonempty finite set of numbers has a greatest.
LEMMA Greatest ==
  ASSUME NEW S, IsFiniteSet(S), S # {}, \A x \in S : x \in Int
  PROVE  Max(S) \in S /\ \A x \in S : x <= Max(S)
<1> DEFINE Top(T) == \E x \in T : \A y \in T : x >= y
           Bad == {T \in SUBSET S : T # {} /\ ~ Top(T)}
<1>1. Bad = {}
  <2> SUFFICES ASSUME Bad # {} PROVE FALSE
    OBVIOUS
  <2>1. PICK T \in Bad : \A Y \in Bad : Y \subseteq T => Y = T
    <3>1. Bad \subseteq SUBSET S
      OBVIOUS
    <3> HIDE DEF Bad
    <3> QED
      BY <3>1, Smallest
  <2>2. PICK x \in T : TRUE
    BY <2>1
  <2>3. CASE T \ {x} = {}
    BY <2>1, <2>2, <2>3
  <2>4. CASE T \ {x} # {}
    <3>1. Top(T \ {x})
      <4>1. T \ {x} \in SUBSET S /\ T \ {x} \subseteq T /\ T \ {x} # T
        BY <2>1, <2>2
      <4> HIDE DEF Top
      <4> QED
        BY <2>1, <2>4, <4>1
    <3> QED
      BY <2>1, <2>2, <3>1
  <2> QED
    BY <2>3, <2>4
<1>2. Top(S)
  BY <1>1
<1>3. PICK x \in S : \A y \in S : x >= y
  BY <1>2
<1>4. Max(S) \in S /\ \A y \in S : Max(S) >= y
  BY <1>3, Zenon DEF Max
<1> QED
  BY <1>4

-----------------------------------------------------------------------------
(* The invariant of the money. *)

Stages == {"idle", "reviewing", "due", "calling", "refused", "failing", "recording", "confirming", "applying"}

\* At most one request of the payment is under way.
Open(r) == filed[r] = "yes" /\ refund[r] \in {"requested", "processing"}
OneOpen == \A r, k \in Requests : Open(r) /\ Open(k) => r = k

\* The payment never gives back more than it charged.
Paid == /\ Balance(cancels) >= 0 /\ Len(cancels) + Balance(cancels) <= Price
        /\ \A i \in DOMAIN cancels : cancels[i].amount \in Amounts

\* What the payment shows while a request is processing: the balance of the
\* review, less its own cancel, which is then the last.
Expected(r) == IF CancelsOf(r) = {} THEN Balance(cancels) = row[r].before
               ELSE Len(cancels) \in CancelsOf(r) /\ Balance(cancels) = row[r].before - row[r].amount

\* Nothing that is sent for the request any more moves money.
Answered(r) == answers[r] # "none" \/ ~Keeps(r)

RowFine(r) ==
    /\ row[r].amount \in 0..Price /\ row[r].before \in 0..Price
    /\ row[r].at \in 0..MaxTime /\ row[r].tx \in 0..Len(cancels)
    /\ refund[r] # "requested" => filed[r] = "yes" /\ row[r].amount # 0
    /\ refund[r] = "processing" => Expected(r) /\ (row[r].tx # 0 => row[r].tx \in CancelsOf(r))
    /\ refund[r] = "completed" => row[r].tx \in CancelsOf(r)
    /\ refund[r] = "failed" => CancelsOf(r) = {} /\ Answered(r)

OpFine(x) ==
    /\ x.pc \in Stages /\ x.r \in Requests \cup {NoReq} /\ x.seen \in 0..Price /\ x.tx \in 0..Len(cancels)
    /\ x.pc = "reviewing" => /\ filed[x.r] # "no"
                             /\ Open(x.r) /\ refund[x.r] = "requested" => x.seen = Balance(cancels)
    /\ x.pc \in {"recording", "confirming", "applying"} /\ refund[x.r] = "processing" => x.tx \in CancelsOf(x.r)
    /\ x.pc \in {"refused", "failing"} => Answered(x.r)
    /\ x.pc = "failing" /\ refund[x.r] = "processing" => CancelsOf(x.r) = {}

\* What a reviewed request does to the lots its payment funded.
Completed == {k \in Requests : refund[k] = "completed"}
Funded(r) == \A l \in Funds[r] :
    /\ refund[r] # "requested" /\ LotKind[l] = "purchased" => lot[l].granted > 0
    /\ lot[l].granted > 0 /\ refund[r] = "processing" => lot[l].frozen \in {r} \cup Completed
    /\ lot[l].granted > 0 /\ refund[r] = "completed" /\ r \notin Upgrades => lot[l].frozen \in Completed

\* A lot is frozen by a request that is under way or was completed.
Holding == \A l \in Lots : lot[l].frozen # NoReq => refund[lot[l].frozen] \in {"processing", "completed"}

Money == /\ filed \in [Requests -> {"no", "yes", "rejected"}] /\ OneOpen /\ Paid
         /\ (\A r \in Requests : RowFine(r)) /\ (\A o \in Ops : OpFine(op[o]))
         /\ (\A r \in Requests : Funded(r)) /\ Holding
MoneyInv == LedgerInv /\ IInv /\ Money

-----------------------------------------------------------------------------
\* How a request's status, its filing and the provider's memory move on.
StatusMoves ==
    \A r \in Requests : \/ refund'[r] = refund[r]
                        \/ refund[r] = "requested" /\ refund'[r] = "processing"
                        \/ refund[r] = "processing" /\ refund'[r] \in {"failed", "completed"}
FiledMoves == \A r \in Requests : filed[r] # "no" => filed'[r] = filed[r] \/ filed'[r] = "rejected"
AnsweredStays == \A r \in Requests : refund[r] # "requested" /\ Answered(r) => Answered(r)'

LEMMA MoneyTypes ==
  ASSUME MoneyInv
  PROVE  /\ now \in 0..MaxTime /\ refund \in [Requests -> ReqStates] /\ filed \in [Requests -> {"no", "yes", "rejected"}]
         /\ cancels \in Seq(Cancel) /\ Len(cancels) \in Nat /\ DOMAIN cancels = 1..Len(cancels)
         /\ Balance(cancels) \in 0..Price /\ Len(cancels) \in 0..Price
         /\ \A o \in Ops : op[o].pc # "idle" => op[o].r \in Requests
<1>1. cancels \in Seq(Cancel) /\ refund \in [Requests -> ReqStates]
      /\ \A o \in Ops : op[o].pc # "idle" => op[o].r \in Requests
  BY DEF MoneyInv, IInv, Shape, IsOp, Cancel
<1>2. Balance(cancels) \in Int
  BY <1>1, BalanceIs
<1>3. Len(cancels) \in Nat /\ DOMAIN cancels = 1..Len(cancels)
  BY <1>1
<1>4. Balance(cancels) >= 0 /\ Len(cancels) + Balance(cancels) <= Price
  BY DEF MoneyInv, Money, Paid
<1>5. Balance(cancels) \in 0..Price /\ Len(cancels) \in 0..Price
  BY <1>2, <1>3, <1>4, PriceAssumption
<1> QED
  BY <1>1, <1>3, <1>5 DEF MoneyInv, LedgerInv, LedgerShape, Money

\* A request, or an operation, that a step without a cancel leaves alone.
LEMMA RowStays ==
  ASSUME MoneyInv, NEW r \in Requests, cancels' = cancels, refund'[r] = refund[r], row'[r] = row[r],
         refund[r] # "requested" => filed'[r] = filed[r], AnsweredStays
  PROVE  RowFine(r)'
<1>1. CancelsOf(r)' = CancelsOf(r) /\ RowFine(r)
  BY DEF CancelsOf, MoneyInv, Money
<1>2. Expected(r) => Expected(r)'
  BY <1>1 DEF Expected
<1> QED
  BY <1>1, <1>2 DEF RowFine, AnsweredStays

LEMMA OpStays ==
  ASSUME MoneyInv, NEW o \in Ops, op'[o] = op[o], cancels' = cancels, StatusMoves, FiledMoves, AnsweredStays
  PROVE  OpFine(op[o])'
<1> PICK x : x = op[o]
  OBVIOUS
<1>1. OpFine(x) /\ (x.pc # "idle" => x.r \in Requests) /\ (x.pc \notin {"idle", "reviewing"} => refund[x.r] # "requested")
  BY MoneyTypes DEF MoneyInv, Money, IInv, Reviewed
<1>2. \A r \in Requests : CancelsOf(r)' = CancelsOf(r)
  BY DEF CancelsOf
<1>3. op'[o] = x
  OBVIOUS
<1>4. /\ x.pc \in Stages /\ x.r \in Requests \cup {NoReq} /\ x.seen \in 0..Price /\ x.tx \in 0..Len(cancels')
  BY <1>1 DEF OpFine
<1>5. ASSUME x.pc = "reviewing"
      PROVE  filed'[x.r] # "no" /\ (Open(x.r)' /\ refund'[x.r] = "requested" => x.seen = Balance(cancels'))
  BY <1>1, <1>3, <1>5 DEF OpFine, StatusMoves, FiledMoves, Open
<1>6. ASSUME x.pc \in {"recording", "confirming", "applying"}, refund'[x.r] = "processing" PROVE x.tx \in CancelsOf(x.r)'
  BY <1>1, <1>2, <1>6 DEF OpFine, StatusMoves
<1>7. ASSUME x.pc \in {"refused", "failing"} PROVE Answered(x.r)'
  BY <1>1, <1>7 DEF OpFine, AnsweredStays
<1>8. ASSUME x.pc = "failing", refund'[x.r] = "processing" PROVE CancelsOf(x.r)' = {}
  BY <1>1, <1>2, <1>8 DEF OpFine, StatusMoves
<1> QED
  BY <1>3, <1>4, <1>5, <1>6, <1>7, <1>8 DEF OpFine

\* Only the request under way can still move money.
LEMMA OnlyOpenServed ==
  ASSUME MoneyInv, NEW r \in Requests, refund[r] # "requested", ~Answered(r)
  PROVE  /\ refund[r] = "processing" /\ Open(r) /\ CancelsOf(r) = {}
         /\ Balance(cancels) = row[r].before /\ row[r].amount \in Amounts
<1>1. RowFine(r) /\ refund[r] \in ReqStates
  BY MoneyTypes, PriceAssumption DEF MoneyInv, Money
<1>2. CancelsOf(r) # {} => Answered(r)
  BY DEF MoneyInv, IInv, Remembered, Answered
<1>3. CancelsOf(r) = {}
  BY <1>2
<1>4. refund[r] = "processing"
  BY <1>1, <1>3 DEF RowFine, ReqStates
<1>5. filed[r] = "yes" /\ row[r].amount # 0 /\ row[r].amount \in 0..Price /\ Expected(r)
  BY <1>1, <1>4 DEF RowFine
<1> QED
  BY <1>3, <1>4, <1>5, PriceAssumption DEF Open, Expected, Amounts

\* The provider's step moves the balance of the open request only.
LEMMA ServeMoves ==
  ASSUME MoneyInv, NEW r \in Requests, NEW answer \in {"ok", "refused"}, Serve(r, answer),
         refund[r] # "requested", Keeps(r), UNCHANGED <<now, filed, refund, row>>
  PROVE  /\ Paid' /\ (\A k \in Requests : RowFine(k)')
         /\ (\A o \in Ops : op'[o] = op[o] => OpFine(op[o])')
         /\ answers'[r] # "none" /\ AnsweredStays
<1>1. answers \in [Requests -> {"none", "ok", "refused"}]
  BY DEF MoneyInv, IInv, Shape
<1>2. CASE cancels' = cancels
  <2>1. \/ answers' = answers /\ answers[r] # "none"
        \/ answers' = [answers EXCEPT ![r] = "refused"]
        \/ answers' = [answers EXCEPT ![r] = "ok"]
    BY DEF Serve
  <2>2. answers'[r] # "none" /\ \A k \in Requests : k # r => answers'[k] = answers[k]
    BY <1>1, <2>1
  <2>3. AnsweredStays
    BY <2>2 DEF AnsweredStays, Answered, Keeps
  <2>4. Paid'
    BY <1>2 DEF MoneyInv, Money, Paid
  <2>5. StatusMoves /\ FiledMoves
    BY DEF StatusMoves, FiledMoves
  <2> QED
    BY <1>2, <2>2, <2>3, <2>4, <2>5, RowStays, OpStays
<1>3. CASE cancels' # cancels
  <2> DEFINE e == [key |-> r, amount |-> row[r].amount]
             n == Len(cancels) + 1
  <2>1. /\ answers[r] = "none" /\ cancels' = Append(cancels, e) /\ row[r].amount <= Balance(cancels)
        /\ answers' = [answers EXCEPT ![r] = "ok"]
    BY <1>3 DEF Serve
  <2>2. /\ refund[r] = "processing" /\ Open(r) /\ CancelsOf(r) = {}
        /\ Balance(cancels) = row[r].before /\ row[r].amount \in Amounts
    BY <2>1, OnlyOpenServed DEF Answered
  <2>3. cancels \in Seq(Cancel) /\ Len(cancels) \in Nat /\ Balance(cancels) \in Int /\ Price \in Nat
        /\ Len(cancels) + Balance(cancels) <= Price
    BY MoneyTypes, PriceAssumption DEF MoneyInv, Money, Paid
  <2>4. row[r].amount \in 1..Price /\ e \in Cancel /\ e.amount = row[r].amount /\ e.key = r
    BY <2>2, <2>3 DEF Amounts, Cancel
  <2> HIDE DEF e
  <2>5. /\ DOMAIN cancels' = DOMAIN cancels \cup {n} /\ n \notin DOMAIN cancels /\ Len(cancels') = n
        /\ \A i \in DOMAIN cancels : cancels'[i] = cancels[i]
        /\ cancels'[n] = e
    BY <2>1, <2>3, <2>4
  <2>6. Balance(cancels') = Balance(cancels) - row[r].amount
    BY <2>1, <2>3, <2>4, BalanceMoves
  <2>7. n \in Nat /\ n = Len(cancels) + 1
    BY <2>3
  <2> HIDE DEF n
  <2>8. CancelsOf(r)' = {n} /\ \A k \in Requests : k # r => CancelsOf(k)' = CancelsOf(k)
    <3>1. CancelsOf(r)' = {n}
      BY <2>2, <2>4, <2>5 DEF CancelsOf
    <3>2. \A k \in Requests : k # r => CancelsOf(k)' = CancelsOf(k)
      BY <2>4, <2>5 DEF CancelsOf
    <3> QED
      BY <3>1, <3>2
  <2>9. answers'[r] = "ok" /\ \A k \in Requests : k # r => answers'[k] = answers[k]
    BY <1>1, <2>1
  <2>10. AnsweredStays
    BY <2>9 DEF AnsweredStays, Answered, Keeps
  <2>11. Paid'
    <3>1. Balance(cancels') >= 0 /\ Len(cancels') + Balance(cancels') <= Price
      BY <2>1, <2>3, <2>4, <2>5, <2>6, <2>7
    <3>2. \A i \in DOMAIN cancels' : cancels'[i].amount \in Amounts
      BY <2>2, <2>4, <2>5 DEF MoneyInv, Money, Paid
    <3> QED
      BY <3>1, <3>2 DEF Paid
  <2>12. ASSUME NEW k \in Requests PROVE RowFine(k)'
    <3>1. RowFine(k) /\ 0..Len(cancels) \subseteq 0..Len(cancels')
      BY <2>3, <2>5, <2>7 DEF MoneyInv, Money
    <3>2. CASE k = r
      <4>1. Expected(r)'
        BY <2>2, <2>5, <2>6, <2>8 DEF Expected
      <4>2. row[r].tx = 0
        BY <2>2, <3>1, <3>2 DEF RowFine
      <4> QED
        BY <2>2, <3>1, <3>2, <4>1, <4>2 DEF RowFine
    <3>3. CASE k # r
      <4>1. refund[k] # "processing"
        BY <2>2, <3>1, <3>3 DEF MoneyInv, Money, OneOpen, Open, RowFine
      <4>2. CancelsOf(k)' = CancelsOf(k) /\ (refund[k] # "requested" /\ Answered(k) => Answered(k)')
        BY <2>8, <2>10, <3>3 DEF AnsweredStays
      <4> QED
        BY <3>1, <4>1, <4>2 DEF RowFine
    <3> QED
      BY <3>2, <3>3
  <2>13. ASSUME NEW o \in Ops, op'[o] = op[o] PROVE OpFine(op[o])'
    <3> PICK x : x = op[o]
      OBVIOUS
    <3>1. OpFine(x) /\ (x.pc # "idle" => x.r \in Requests)
          /\ (x.pc \notin {"idle", "reviewing"} => refund[x.r] # "requested")
      BY MoneyTypes DEF MoneyInv, Money, IInv, Reviewed
    <3>2. x.pc \in Stages /\ x.r \in Requests \cup {NoReq} /\ x.seen \in 0..Price /\ x.tx \in 0..Len(cancels')
      BY <2>3, <2>5, <2>7, <3>1 DEF OpFine
    <3>3. ASSUME x.pc = "reviewing"
          PROVE  filed'[x.r] # "no" /\ (Open(x.r)' /\ refund'[x.r] = "requested" => x.seen = Balance(cancels'))
      <4>1. Open(x.r) /\ refund[x.r] = "requested" => x.r = r
        BY <2>2, <3>1, <3>3 DEF MoneyInv, Money, OneOpen
      <4> QED
        BY <2>2, <3>1, <3>3, <4>1 DEF OpFine, Open
    <3>4. ASSUME x.pc \in {"recording", "confirming", "applying"}, refund'[x.r] = "processing"
          PROVE  x.tx \in CancelsOf(x.r)'
      BY <2>2, <2>8, <3>1, <3>4 DEF OpFine
    <3>5. ASSUME x.pc \in {"refused", "failing"} PROVE Answered(x.r)'
      BY <2>10, <3>1, <3>5 DEF OpFine, AnsweredStays
    <3>6. ASSUME x.pc = "failing", refund'[x.r] = "processing" PROVE CancelsOf(x.r)' = {}
      <4>1. x.r # r
        BY <2>1, <3>1, <3>6 DEF OpFine, Answered
      <4> QED
        BY <2>8, <3>1, <3>6, <4>1 DEF OpFine
    <3> QED
      BY <2>13, <3>2, <3>3, <3>4, <3>5, <3>6 DEF OpFine
  <2> QED
    BY <2>9, <2>10, <2>11, <2>12, <2>13
<1> QED
  BY <1>2, <1>3

\* What the payment shows of a request's amount.
LEMMA SettlingIn ==
  ASSUME NEW r \in Requests, NEW c \in Seq(Cancel)
  PROVE  /\ SettlingTx(r, c) \in 0..Len(c)
         /\ Len(c) \in Matching(r, c) => LatestMatch(r, c) = Len(c)
<1>1. Len(c) \in Nat /\ DOMAIN c = 1..Len(c)
  OBVIOUS
<1>2. Matching(r, c) \subseteq 1..Len(c) /\ IsFiniteSet(Matching(r, c))
  <2>1. Matching(r, c) \subseteq 1..Len(c)
    BY <1>1 DEF Matching
  <2>2. IsFiniteSet(1..Len(c))
    BY <1>1, FS_Interval
  <2> QED
    BY <2>1, <2>2, FS_Subset
<1>3. ASSUME Matching(r, c) # {}
      PROVE  Max(Matching(r, c)) \in Matching(r, c) /\ \A x \in Matching(r, c) : x <= Max(Matching(r, c))
  BY <1>2, <1>3, Greatest
<1>4. LatestMatch(r, c) \in 0..Len(c)
  BY <1>1, <1>2, <1>3 DEF LatestMatch
<1>5. ASSUME Len(c) \in Matching(r, c) PROVE LatestMatch(r, c) = Len(c)
  BY <1>1, <1>2, <1>3, <1>5 DEF LatestMatch
<1> QED
  BY <1>1, <1>4, <1>5 DEF SettlingTx

\* A balance down by the request's amount shows its own cancel, the latest.
LEMMA SettlesOwn ==
  ASSUME NEW r \in Requests, NEW c \in Seq(Cancel), row[r].amount \in Nat \ {0}, row[r].before \in Nat,
         NEW Own, Own = {i \in DOMAIN c : c[i].key = r},
         Own = {} => Balance(c) = row[r].before,
         Own # {} => Len(c) \in Own /\ c[Len(c)].amount = row[r].amount,
         SettlingTx(r, c) # 0
  PROVE  SettlingTx(r, c) \in Own
<1>1. Moved(r, c)
  BY DEF SettlingTx
<1>2. Own # {}
  BY <1>1 DEF Moved
<1>3. Len(c) \in Matching(r, c)
  BY <1>2 DEF Matching
<1>4. SettlingTx(r, c) = Len(c)
  BY <1>1, <1>3, SettlingIn DEF SettlingTx
<1> QED
  BY <1>2, <1>4

-----------------------------------------------------------------------------
(* The lots a payment funded. *)

\* What the account's work does to the rows: a frozen lot stays frozen, and a
\* window a guard row blocks is not opened.
LEMMA SpendingKeeps ==
  ASSUME NEW L, IsLots(L), NEW q, NEW l \in Lots
  PROVE  /\ Spent(L, q)[l].granted = L[l].granted /\ Spent(L, q)[l].frozen = L[l].frozen
         /\ Refunded(L, q)[l].granted = L[l].granted /\ Refunded(L, q)[l].frozen = L[l].frozen
<1>1. L[l] \in LotRow
  BY DEF IsLots
<1>2. Spent(L, q)[l] = L[l] \/ \E n : Spent(L, q)[l] = [L[l] EXCEPT !.remaining = n]
  BY DEF Spent
<1>3. Refunded(L, q)[l] = L[l] \/ \E n : Refunded(L, q)[l] = [L[l] EXCEPT !.remaining = n]
  BY DEF Refunded
<1> QED
  BY <1>1, <1>2, <1>3 DEF LotRow

LEMMA OpeningKeeps ==
  ASSUME IsLots(lot), NEW S, NEW l \in Lots
  PROVE  /\ lot[l].granted > 0 => Opened(S)[l].granted > 0
         /\ Opened(S)[l].granted > 0 => lot[l].granted > 0 \/ ~Blocked(l)
<1>1. lot[l] \in LotRow /\ lot[l].granted \in Nat /\ Size[l] \in Nat \ {0}
  BY LotsAssumption DEF IsLots, LotRow
<1>2. \/ Opened(S)[l] = lot[l]
      \/ lot[l].granted = 0 /\ ~Blocked(l)
      \/ \E e : Opened(S)[l] = [lot[l] EXCEPT !.exp = e]
  BY DEF Opened
<1>3. ASSUME NEW e, Opened(S)[l] = [lot[l] EXCEPT !.exp = e] PROVE Opened(S)[l].granted = lot[l].granted
  BY <1>1, <1>3 DEF LotRow
<1>4. CASE lot[l].granted = 0 /\ ~Blocked(l)
  BY <1>4
<1>5. CASE Opened(S)[l].granted = lot[l].granted
  BY <1>5
<1> QED
  BY <1>2, <1>3, <1>4, <1>5

LEMMA WorkLots ==
  ASSUME LedgerInv, Work, NEW l \in Lots
  PROVE  /\ lot'[l].frozen = lot[l].frozen /\ (lot[l].granted > 0 => lot'[l].granted > 0)
         /\ lot'[l].granted > 0 =>
              lot[l].granted > 0 \/ LotKind[l] \in {"voucher", "bonus", "purchased", "compensation"} \/ ~Blocked(l)
<1> DEFINE Fine(M) ==
             /\ M[l].frozen = lot[l].frozen /\ (lot[l].granted > 0 => M[l].granted > 0)
             /\ M[l].granted > 0 =>
                  \/ lot[l].granted > 0
                  \/ LotKind[l] \in {"voucher", "bonus", "purchased", "compensation"}
                  \/ ~Blocked(l)
<1>1. IsLots(lot) /\ lot[l] \in LotRow /\ lot \in [Lots -> LotRow] /\ LedgerShape
      /\ lot[l].granted \in Nat
  BY DEF LedgerInv, LedgerShape, IsLots, LotRow
<1>2. ASSUME NEW k \in Lots, Grant(k) PROVE Fine(lot')
  <2>1. lot' = [lot EXCEPT ![k] = Issued(Size[k], Closes[k])] /\ lot[k].granted = 0
        /\ LotKind[k] \in {"voucher", "bonus", "purchased"}
    BY <1>2 DEF Grant
  <2>2. CASE l = k
    <3>1. lot'[l].frozen = NoReq
      BY <1>1, <2>1, <2>2 DEF Issued
    <3>2. lot[l].frozen = NoReq
      BY <1>1, <2>1, <2>2, Unissued
    <3> QED
      BY <2>1, <2>2, <3>1, <3>2
  <2>3. CASE l # k
    BY <1>1, <2>1, <2>3
  <2> QED
    BY <2>2, <2>3
<1>3. ASSUME NEW k \in Lots, TopUp(k) \/ RevokeVoucher(k) PROVE Fine(lot')
  <2>1. lot' = [lot EXCEPT ![k] = Raised(lot[k])] \/ lot' = [lot EXCEPT ![k] = [lot[k] EXCEPT !.exp = now]]
    BY <1>3 DEF TopUp, RevokeVoucher
  <2>2. CASE l = k
    <3>1. lot'[l] = [lot[l] EXCEPT !.granted = @ + 1, !.remaining = @ + 1] \/ lot'[l] = [lot[l] EXCEPT !.exp = now]
      BY <1>1, <2>1, <2>2 DEF Raised
    <3>2. lot'[l].frozen = lot[l].frozen /\ lot'[l].granted \in {lot[l].granted, lot[l].granted + 1}
      BY <1>1, <3>1 DEF LotRow
    <3>3. TopUp(k) => lot[l].granted > 0
      BY <1>1, <2>2 DEF TopUp
    <3>4. lot'[l].granted > 0 => lot[l].granted > 0
      <4>1. CASE TopUp(k)
        BY <3>3, <4>1
      <4>2. CASE RevokeVoucher(k)
        BY <2>2, <4>2 DEF RevokeVoucher
      <4> QED
        BY <1>3, <4>1, <4>2
    <3> QED
      BY <1>1, <3>2, <3>4
  <2>3. CASE l # k
    BY <1>1, <2>1, <2>3
  <2> QED
    BY <2>2, <2>3
<1>4. ASSUME NEW j \in Jobs, NEW plan \in {"free", "paid", "master"}, Hold(j, plan) PROVE Fine(lot')
  <2> DEFINE L == IF plan = "paid" THEN Renewed ELSE lot
  <2>1. PICK q : lot' = Spent(L, q)
    BY <1>4 DEF Hold
  <2>2. IsLots(L) /\ L[l].frozen = lot[l].frozen
    BY <1>1, OpenedIn DEF Renewed
  <2>3. /\ lot[l].granted > 0 => L[l].granted > 0
        /\ L[l].granted > 0 => lot[l].granted > 0 \/ ~Blocked(l)
    BY <1>1, OpeningKeeps DEF Renewed
  <2> HIDE DEF L
  <2>4. lot'[l].granted = L[l].granted /\ lot'[l].frozen = L[l].frozen
    BY <2>1, <2>2, SpendingKeeps
  <2> QED
    BY <2>2, <2>3, <2>4
<1>5. ASSUME NEW j \in Jobs, Record(j) \/ Release(j) PROVE Fine(lot')
  <2>1. lot' = lot \/ \E q : lot' = Refunded(lot, q)
    BY <1>5 DEF Record, Release
  <2>2. lot'[l].granted = lot[l].granted /\ lot'[l].frozen = lot[l].frozen
    BY <1>1, <2>1, SpendingKeeps
  <2> QED
    BY <2>2
<1>6. ASSUME NEW j \in Jobs, NEW outcome, NEW cause, Settle(j, outcome, cause) PROVE Fine(lot')
  <2> DEFINE M == SettledLots(j)
  <2>1. adm[j].state = "open"
        /\ (lot' = M \/ \E n, e : lot[Comp[j]].granted = 0 /\ lot' = [M EXCEPT ![Comp[j]] = Issued(n, e)])
    BY <1>6, Zenon DEF Settle, SettledLots
  <2>2. IsLots(M) /\ M[l].granted = lot[l].granted /\ M[l].frozen = lot[l].frozen
    BY <2>1, SettledLotsIn
  <2> HIDE DEF M
  <2>3. CASE lot' = M \/ l # Comp[j]
    <3>1. lot'[l] = M[l]
      BY <2>1, <2>2, <2>3 DEF IsLots
    <3> QED
      BY <2>2, <3>1
  <2>4. CASE lot' # M /\ l = Comp[j]
    <3>1. PICK n, e : lot[l].granted = 0 /\ lot' = [M EXCEPT ![l] = Issued(n, e)]
      BY <2>1, <2>4
    <3>2. lot'[l] = Issued(n, e) /\ LotKind[l] = "compensation"
      BY <2>2, <2>4, <3>1, FundsAssumption DEF IsLots
    <3>3. lot'[l].frozen = NoReq /\ lot[l].frozen = NoReq
      BY <1>1, <3>1, <3>2, Unissued DEF Issued
    <3> QED
      BY <3>1, <3>2, <3>3
  <2> QED
    BY <2>3, <2>4
<1>7. ASSUME NEW k \in Lots, AddUpgradeBonus(k) PROVE Fine(lot')
  <2> DEFINE S == Windows \cup {k}
  <2>1. lot' = Opened(S)
    BY <1>7 DEF AddUpgradeBonus
  <2> HIDE DEF S
  <2>2. Opened(S)[l].frozen = lot[l].frozen
    BY <1>1, OpenedIn
  <2> QED
    BY <1>1, <2>1, <2>2, OpeningKeeps
<1> QED
  BY <1>2, <1>3, <1>4, <1>5, <1>6, <1>7 DEF Work

\* So the work leaves the funding of every request as it has to be.
LEMMA FundedByWork ==
  ASSUME LedgerInv, Work, NEW r \in Requests, Funded(r)
  PROVE  Funded(r)'
<1>1. refund' = refund /\ Completed' = Completed
  BY WorkAside DEF Completed
<1>2. ASSUME NEW l \in Funds[r]
      PROVE  /\ refund[r] # "requested" /\ LotKind[l] = "purchased" => lot'[l].granted > 0
             /\ lot'[l].granted > 0 /\ refund[r] = "processing" => lot'[l].frozen \in {r} \cup Completed
             /\ lot'[l].granted > 0 /\ refund[r] = "completed" /\ r \notin Upgrades => lot'[l].frozen \in Completed
  <2>1. l \in Lots /\ LotKind[l] \in {"daily", "monthly", "upgrade", "purchased"}
    BY FundsAssumption
  <2>2. /\ lot'[l].frozen = lot[l].frozen /\ (lot[l].granted > 0 => lot'[l].granted > 0)
        /\ lot'[l].granted > 0 => lot[l].granted > 0 \/ LotKind[l] = "purchased" \/ ~Blocked(l)
    BY <2>1, WorkLots
  <2>3. refund[r] = "processing" \/ (refund[r] = "completed" /\ r \notin Upgrades) => Blocked(l)
    BY DEF Blocked
  <2> QED
    BY <2>2, <2>3 DEF Funded
<1> QED
  BY <1>1, <1>2 DEF Funded

\* A decision freezes what the request's payment funded.
LEMMA FundedByApproval ==
  ASSUME MoneyInv, NEW r \in Requests, ApproveRefund(r), filed[r] = "yes", NEW k \in Requests
  PROVE  Funded(k)'
<1>1. /\ refund[r] = "requested" /\ refund' = [refund EXCEPT ![r] = "processing"]
      /\ \A l \in Funds[r] : LotKind[l] = "purchased" => lot[l].granted > 0
      /\ lot' = [l \in Lots |-> IF l \in Funds[r] /\ lot[l].granted > 0 /\ lot[l].frozen = NoReq
                                THEN [lot[l] EXCEPT !.frozen = r] ELSE lot[l]]
  BY DEF ApproveRefund
<1>2. refund \in [Requests -> ReqStates] /\ IsLots(lot) /\ Funded(k)
  BY MoneyTypes DEF MoneyInv, LedgerInv, LedgerShape, Money
<1>3. Completed' = Completed
  BY <1>1, <1>2 DEF Completed
<1>4. ASSUME NEW l \in Lots
      PROVE  /\ lot'[l].granted = lot[l].granted
             /\ lot'[l].frozen = IF l \in Funds[r] /\ lot[l].granted > 0 /\ lot[l].frozen = NoReq THEN r ELSE lot[l].frozen
  <2>1. lot[l] \in LotRow
    BY <1>2 DEF IsLots
  <2> QED
    BY <1>1, <2>1 DEF LotRow
<1>5. NoReq \notin Requests /\ \A q \in Requests : Funds[q] \subseteq Lots
  BY FundsAssumption
<1>6. CASE k = r
  <2>1. ASSUME NEW l \in Funds[r], lot[l].granted > 0 PROVE lot'[l].frozen \in {r} \cup Completed
    <3>1. CASE lot[l].frozen = NoReq
      BY <1>4, <1>5, <2>1, <3>1
    <3>2. CASE lot[l].frozen # NoReq
      <4> DEFINE q == lot[l].frozen
      <4>1. q \in Requests /\ lot'[l].frozen = q
        BY <1>2, <1>4, <1>5, <3>2 DEF IsLots, LotRow
      <4>2. refund[q] = "completed"
        <5>1. l \in Lots /\ refund[q] \in {"processing", "completed"}
          BY <1>2, <1>5, <3>2 DEF MoneyInv, Money, Holding
        <5>2. ASSUME refund[q] = "processing" PROVE FALSE
          <6>1. RowFine(q)
            BY <4>1 DEF MoneyInv, Money
          <6>2. Open(q) /\ Open(r)
            BY <1>1, <5>2, <6>1 DEF Open, RowFine
          <6> QED
            BY <1>1, <4>1, <5>2, <6>2 DEF MoneyInv, Money, OneOpen
        <5> QED
          BY <5>1, <5>2
      <4> QED
        BY <4>1, <4>2 DEF Completed
    <3> QED
      BY <3>1, <3>2
  <2> QED
    BY <1>1, <1>2, <1>3, <1>4, <1>5, <1>6, <2>1 DEF Funded
<1>7. CASE k # r
  <2>1. refund'[k] = refund[k] /\ refund[k] # "processing"
    BY <1>1, <1>2, <1>7 DEF MoneyInv, Money, OneOpen, Open, RowFine
  <2>2. ASSUME NEW l \in Funds[k]
        PROVE  /\ lot'[l].granted = lot[l].granted
               /\ lot[l].frozen \in Completed => lot'[l].frozen = lot[l].frozen
    BY <1>4, <1>5 DEF Completed
  <2> QED
    BY <1>2, <1>3, <2>1, <2>2 DEF Funded
<1> QED
  BY <1>6, <1>7

LEMMA HoldingByApproval ==
  ASSUME MoneyInv, NEW r \in Requests, ApproveRefund(r)
  PROVE  Holding'
<1>1. /\ refund[r] = "requested" /\ refund' = [refund EXCEPT ![r] = "processing"]
      /\ lot' = [l \in Lots |-> IF l \in Funds[r] /\ lot[l].granted > 0 /\ lot[l].frozen = NoReq
                                THEN [lot[l] EXCEPT !.frozen = r] ELSE lot[l]]
  BY DEF ApproveRefund
<1>2. refund \in [Requests -> ReqStates] /\ IsLots(lot) /\ Holding
  BY MoneyTypes DEF MoneyInv, LedgerInv, LedgerShape, Money
<1> SUFFICES ASSUME NEW l \in Lots, lot'[l].frozen # NoReq
             PROVE  refund'[lot'[l].frozen] \in {"processing", "completed"}
  BY DEF Holding
<1>3. lot'[l].frozen \in {r, lot[l].frozen} /\ lot[l].frozen \in Requests \cup {NoReq}
  <2>1. lot[l] \in LotRow
    BY <1>2 DEF IsLots
  <2> QED
    BY <1>1, <2>1 DEF LotRow
<1> QED
  BY <1>1, <1>2, <1>3 DEF Holding

\* A failed request gives back what it froze, a completed one keeps it.
LEMMA FundedByOutcome ==
  ASSUME MoneyInv, NEW r \in Requests, FailRefund(r) \/ ConfirmRefund(r)
  PROVE  Holding' /\ \A k \in Requests : Funded(k)'
<1>1. /\ refund[r] = "processing"
      /\ \/ /\ refund' = [refund EXCEPT ![r] = "failed"]
            /\ lot' = [l \in Lots |-> IF lot[l].frozen = r THEN [lot[l] EXCEPT !.frozen = NoReq] ELSE lot[l]]
         \/ /\ refund' = [refund EXCEPT ![r] = "completed"]
            /\ lot' = [l \in Lots |-> IF lot[l].frozen = r THEN Void(l) ELSE lot[l]]
  BY DEF FailRefund, ConfirmRefund
<1>2. refund \in [Requests -> ReqStates] /\ IsLots(lot) /\ Holding
  BY MoneyTypes DEF MoneyInv, LedgerInv, LedgerShape, Money
<1>3. NoReq \notin Requests /\ \A q \in Requests : Funds[q] \subseteq Lots
  BY FundsAssumption
<1>4. ASSUME NEW l \in Lots
      PROVE  /\ lot'[l].granted = lot[l].granted /\ lot[l].frozen \in Requests \cup {NoReq}
             /\ lot[l].frozen # r => lot'[l].frozen = lot[l].frozen
             /\ lot[l].frozen = r => lot'[l].frozen = IF refund'[r] = "failed" THEN NoReq ELSE r
  <2>1. lot[l] \in LotRow /\ refund'[r] \in {"failed", "completed"}
    BY <1>1, <1>2 DEF IsLots
  <2>2. CASE refund'[r] = "failed"
    <3>1. lot'[l] = IF lot[l].frozen = r THEN [lot[l] EXCEPT !.frozen = NoReq] ELSE lot[l]
      BY <1>1, <1>2, <2>2
    <3> QED
      BY <2>1, <2>2, <3>1 DEF LotRow
  <2>3. CASE refund'[r] = "completed"
    <3>1. lot'[l] = IF lot[l].frozen = r THEN Void(l) ELSE lot[l]
      BY <1>1, <1>2, <2>3
    <3>2. Void(l).granted = lot[l].granted /\ Void(l).frozen = lot[l].frozen
      BY <2>1 DEF Void, LotRow
    <3> QED
      BY <2>1, <2>3, <3>1, <3>2 DEF LotRow
  <2> QED
    BY <2>1, <2>2, <2>3
<1>5. /\ refund'[r] \in {"failed", "completed"} /\ (\A k \in Requests : k # r => refund'[k] = refund[k])
      /\ Completed \subseteq Completed' /\ (refund'[r] = "completed" => r \in Completed')
  BY <1>1, <1>2 DEF Completed
<1>6. Holding'
  BY <1>1, <1>2, <1>3, <1>4, <1>5 DEF Holding
<1>7. ASSUME NEW k \in Requests, k # r PROVE Funded(k)'
  <2>1. refund'[k] = refund[k] /\ refund[k] # "processing" /\ Funded(k)
    BY <1>1, <1>5, <1>7 DEF MoneyInv, Money, OneOpen, Open, RowFine
  <2>2. ASSUME NEW l \in Funds[k]
        PROVE  /\ lot'[l].granted = lot[l].granted
               /\ lot[l].frozen \in Completed => lot'[l].frozen \in Completed'
    <3>1. r \notin Completed /\ l \in Lots
      BY <1>1, <1>3 DEF Completed
    <3> QED
      BY <1>4, <1>5, <3>1
  <2> QED
    BY <2>1, <2>2 DEF Funded
<1>8. Funded(r)'
  <2>1. Funded(r)
    BY DEF MoneyInv, Money
  <2>2. ASSUME NEW l \in Funds[r]
        PROVE  /\ lot'[l].granted = lot[l].granted
               /\ lot[l].frozen \in {r} \cup Completed /\ refund'[r] = "completed" => lot'[l].frozen \in Completed'
    BY <1>3, <1>4, <1>5
  <2> QED
    BY <1>1, <1>5, <2>1, <2>2 DEF Funded
<1> QED
  BY <1>6, <1>7, <1>8

-----------------------------------------------------------------------------
(* Every step keeps the invariant of the money. *)

LEMMA MoneyInit == RefundInit => MoneyInv
<1> SUFFICES ASSUME RefundInit PROVE MoneyInv
  OBVIOUS
<1>1. LedgerInv /\ IInv
  BY LedgerInit, InitHolds DEF RefundInit
<1>2. /\ cancels = <<>> /\ filed = [r \in Requests |-> "no"] /\ row = [r \in Requests |-> NoRow]
      /\ op = [o \in Ops |-> NoOp] /\ refund = [r \in Requests |-> "requested"]
      /\ \A l \in Lots : lot[l].frozen = NoReq /\ lot[l].granted = 0
  BY DEF RefundInit, Init
<1>3. Balance(cancels) = Price /\ Len(cancels) = 0 /\ DOMAIN cancels = {}
  BY <1>2, BalanceAtFirst
<1>4. Paid
  BY <1>3, PriceAssumption DEF Paid
<1>5. ASSUME NEW r \in Requests PROVE RowFine(r) /\ Funded(r)
  <2>1. refund[r] = "requested" /\ row[r].amount = 0 /\ row[r].before = 0 /\ row[r].at = 0 /\ row[r].tx = 0
    BY <1>2 DEF NoRow
  <2>2. RowFine(r)
    BY <1>3, <2>1, PriceAssumption, LotsAssumption DEF RowFine
  <2>3. \A l \in Funds[r] : lot[l].granted = 0
    BY <1>2, FundsAssumption
  <2> QED
    BY <2>1, <2>2, <2>3 DEF Funded
<1>6. ASSUME NEW o \in Ops PROVE OpFine(op[o])
  <2>1. op[o].pc = "idle" /\ op[o].r = NoReq /\ op[o].seen = 0 /\ op[o].tx = 0
    BY <1>2 DEF NoOp
  <2> QED
    BY <1>3, <2>1, PriceAssumption DEF OpFine, Stages
<1>7. OneOpen /\ Holding /\ filed \in [Requests -> {"no", "yes", "rejected"}]
  BY <1>2 DEF OneOpen, Open, Holding
<1> QED
  BY <1>1, <1>4, <1>5, <1>6, <1>7 DEF MoneyInv, Money

\* A step that only an operation takes.
LEMMA OpOnly ==
  ASSUME MoneyInv, UNCHANGED <<now, refund, lot, filed, row, cancels, answers>>, NEW o \in Ops,
         \A k \in Ops \ {o} : op'[k] = op[k], OpFine(op[o])'
  PROVE  Money'
<1>1. StatusMoves /\ FiledMoves /\ AnsweredStays
  BY DEF StatusMoves, FiledMoves, AnsweredStays, Answered, Keeps
<1>2. \A k \in Ops : OpFine(op[k])'
  BY <1>1, OpStays
<1>3. \A r \in Requests : RowFine(r)'
  BY <1>1, RowStays
<1>4. ASSUME NEW r \in Requests PROVE Funded(r)'
  BY DEF MoneyInv, Money, Funded, Completed
<1>5. OneOpen' /\ Paid' /\ Holding' /\ filed' \in [Requests -> {"no", "yes", "rejected"}]
  BY DEF MoneyInv, Money, OneOpen, Open, Paid, Holding
<1> QED
  BY <1>2, <1>3, <1>4, <1>5 DEF Money

\* What a step leaves alone of the lots.
LEMMA FundingStays ==
  ASSUME MoneyInv, UNCHANGED <<refund, lot>>
  PROVE  Holding' /\ \A r \in Requests : Funded(r)'
<1>1. ASSUME NEW r \in Requests PROVE Funded(r)'
  BY DEF MoneyInv, Money, Funded, Completed
<1> QED
  BY <1>1 DEF MoneyInv, Money, Holding

\* The account's work, and the filing of a request.
LEMMA WorkMoney == ASSUME MoneyInv, Work, UNCHANGED rvars PROVE Money'
<1>1. UNCHANGED <<now, refund, filed, row, cancels, answers, op>>
  BY WorkAside DEF rvars
<1>2. StatusMoves /\ FiledMoves /\ AnsweredStays
  BY <1>1 DEF StatusMoves, FiledMoves, AnsweredStays, Answered, Keeps
<1>3. \A k \in Ops : OpFine(op[k])'
  BY <1>1, <1>2, OpStays
<1>4. \A r \in Requests : RowFine(r)'
  BY <1>1, <1>2, RowStays
<1>5. \A r \in Requests : Funded(r)'
  BY FundedByWork DEF MoneyInv, Money
<1>6. Holding'
  BY <1>1, WorkLots DEF MoneyInv, Money, Holding
<1>7. OneOpen' /\ Paid' /\ filed' \in [Requests -> {"no", "yes", "rejected"}]
  BY <1>1 DEF MoneyInv, Money, OneOpen, Open, Paid
<1> QED
  BY <1>3, <1>4, <1>5, <1>6, <1>7 DEF Money

LEMMA FilingMoney ==
  ASSUME MoneyInv, NEW r \in Requests, RequestRefund(r) \/ Reject(r)
  PROVE  Money'
<1>1. /\ UNCHANGED <<now, refund, lot, row, cancels, answers, op>>
      /\ \/ /\ filed[r] = "no" /\ filed' = [filed EXCEPT ![r] = "yes"]
            /\ \A k \in Requests : filed[k] = "yes" => refund[k] \in {"failed", "completed"}
         \/ filed[r] = "yes" /\ refund[r] = "requested" /\ filed' = [filed EXCEPT ![r] = "rejected"]
  BY DEF RequestRefund, Reject, vars
<1>2. filed \in [Requests -> {"no", "yes", "rejected"}] /\ OneOpen /\ \A k \in Requests : RowFine(k)
  BY DEF MoneyInv, Money
<1>3. /\ filed' \in [Requests -> {"no", "yes", "rejected"}]
      /\ \A k \in Requests : k # r => filed'[k] = filed[k]
      /\ filed[r] # "no" => filed'[r] = "rejected"
      /\ refund[r] # "requested" => filed'[r] = filed[r]
  BY <1>1, <1>2 DEF RowFine
<1>4. StatusMoves /\ FiledMoves /\ AnsweredStays
  BY <1>1, <1>3 DEF StatusMoves, FiledMoves, AnsweredStays, Answered, Keeps
<1>5. \A k \in Ops : OpFine(op[k])'
  BY <1>1, <1>4, OpStays
<1>6. \A k \in Requests : RowFine(k)'
  BY <1>1, <1>3, <1>4, RowStays
<1>7. OneOpen'
  <2> SUFFICES ASSUME NEW j \in Requests, NEW k \in Requests, Open(j)', Open(k)' PROVE j = k
    BY DEF OneOpen
  <2>1. CASE filed[r] = "no"
    <3>1. \A q \in Requests : ~Open(q)
      BY <1>1, <2>1 DEF Open
    <3>2. \A q \in Requests : q # r => ~Open(q)'
      BY <1>1, <1>3, <3>1 DEF Open
    <3> QED
      BY <3>2
  <2>2. CASE filed[r] = "yes"
    BY <1>1, <1>2, <1>3, <2>2 DEF OneOpen, Open
  <2> QED
    BY <1>1, <2>1, <2>2
<1>8. Paid'
  BY <1>1 DEF MoneyInv, Money, Paid
<1> QED
  BY <1>1, <1>3, <1>5, <1>6, <1>7, <1>8, FundingStays DEF Money

\* The clock: what was answered stays answered or is out of its window.
LEMMA PassMoney == ASSUME MoneyInv, Pass PROVE Money'
<1>1. /\ now' = now + 1 /\ UNCHANGED <<refund, lot, filed, row, cancels, op>>
      /\ answers' = [r \in Requests |-> IF now' > row[r].at + 1 THEN "none" ELSE answers[r]]
  BY DEF Pass, Tick
<1>2. now \in Nat /\ \A r \in Requests : row[r].at \in Nat
  BY DEF MoneyInv, IInv, Shape, IsRow
<1>3. AnsweredStays
  <2> SUFFICES ASSUME NEW r \in Requests, Answered(r) PROVE Answered(r)'
    BY DEF AnsweredStays
  <2> QED
    BY <1>1, <1>2 DEF Answered, Keeps
<1>4. StatusMoves /\ FiledMoves
  BY <1>1 DEF StatusMoves, FiledMoves
<1>5. \A k \in Ops : OpFine(op[k])'
  BY <1>1, <1>3, <1>4, OpStays
<1>6. \A r \in Requests : RowFine(r)'
  BY <1>1, <1>3, RowStays
<1>7. OneOpen' /\ Paid' /\ filed' \in [Requests -> {"no", "yes", "rejected"}]
  BY <1>1 DEF MoneyInv, Money, OneOpen, Open, Paid
<1> QED
  BY <1>1, <1>5, <1>6, <1>7, FundingStays DEF Money

\* What an operation becomes when only its place changes, and when it leaves.
LEMMA PlaceMoves ==
  ASSUME NEW x, x = [f \in {"pc", "r", "seen", "tx"} |-> x[f]], NEW pc
  PROVE  /\ [x EXCEPT !.pc = pc].pc = pc /\ [x EXCEPT !.pc = pc].r = x.r
         /\ [x EXCEPT !.pc = pc].seen = x.seen /\ [x EXCEPT !.pc = pc].tx = x.tx
  OBVIOUS

LEMMA PlaceOf ==
  ASSUME MoneyInv, NEW o \in Ops, NEW pc, op' = [op EXCEPT ![o].pc = pc]
  PROVE  /\ op'[o].pc = pc /\ op'[o].r = op[o].r /\ op'[o].seen = op[o].seen /\ op'[o].tx = op[o].tx
         /\ \A k \in Ops \ {o} : op'[k] = op[k]
<1>1. Shape /\ op[o] = [f \in {"pc", "r", "seen", "tx"} |-> op[o][f]]
  BY DEF MoneyInv, IInv, Shape, IsOp
<1>2. op' = [op EXCEPT ![o] = [op[o] EXCEPT !.pc = pc]]
  OBVIOUS
<1>3. op'[o] = [op[o] EXCEPT !.pc = pc] /\ \A k \in Ops \ {o} : op'[k] = op[k]
  BY <1>1, <1>2, OpMoves
<1> QED
  BY <1>1, <1>3, PlaceMoves

LEMMA LeaveFine ==
  ASSUME MoneyInv, NEW o \in Ops, Leave(o), Len(cancels') \in Nat
  PROVE  OpFine(op[o])' /\ \A k \in Ops \ {o} : op'[k] = op[k]
<1>1. op'[o] = NoOp /\ \A k \in Ops \ {o} : op'[k] = op[k]
  BY OpMoves DEF MoneyInv, IInv, Leave
<1>2. NoOp.pc = "idle" /\ NoOp.r = NoReq /\ NoOp.seen = 0 /\ NoOp.tx = 0
  BY DEF NoOp
<1> QED
  BY <1>1, <1>2, PriceAssumption DEF OpFine, Stages

\* An operation that settles records a transaction that is the request's own.
LEMMA SettledFine ==
  ASSUME MoneyInv, NEW o \in Ops, NEW r \in Requests, r = op[o].r, Settled(o, cancels'),
         cancels' \in Seq(Cancel), RowFine(r)', UNCHANGED <<refund, row>>, RefundedOnce'
  PROVE  OpFine(op[o])' /\ \A k \in Ops \ {o} : op'[k] = op[k]
<1> DEFINE t == SettlingTx(r, cancels')
<1>1. op' = [op EXCEPT ![o] = IF t = 0 THEN NoOp ELSE [NoOp EXCEPT !.pc = "recording", !.r = r, !.tx = t]]
  BY DEF Settled
<1>2. op'[o] = (IF t = 0 THEN NoOp ELSE [NoOp EXCEPT !.pc = "recording", !.r = r, !.tx = t])
      /\ \A k \in Ops \ {o} : op'[k] = op[k]
  BY <1>1, OpMoves DEF MoneyInv, IInv
<1>3. t \in 0..Len(cancels') /\ Len(cancels') \in Nat
  BY SettlingIn
<1>4. ASSUME t # 0, refund[r] = "processing" PROVE t \in CancelsOf(r)'
  <2>1. RowFine(r)'
    OBVIOUS
  <2>2. Expected(r)' /\ row[r].amount \in 0..Price /\ row[r].amount # 0 /\ row[r].before \in 0..Price
    BY <1>4, <2>1 DEF RowFine
  <2>3. row[r].amount \in Nat \ {0} /\ row[r].before \in Nat
    BY <2>2, PriceAssumption
  <2>4. CancelsOf(r)' = {i \in DOMAIN cancels' : cancels'[i].key = r}
    BY DEF CancelsOf
  <2>5. CancelsOf(r)' = {} => Balance(cancels') = row[r].before
    BY <2>2 DEF Expected
  <2>6. CancelsOf(r)' # {} => Len(cancels') \in CancelsOf(r)' /\ cancels'[Len(cancels')].amount = row[r].amount
    BY <2>2 DEF Expected, RefundedOnce
  <2> HIDE DEF t
  <2>7. t = SettlingTx(r, cancels')
    BY DEF t
  <2> QED
    BY <1>4, <2>3, <2>4, <2>5, <2>6, <2>7, SettlesOwn
<1> HIDE DEF t
<1>5. CASE t = 0
  <2>1. op'[o].pc = "idle" /\ op'[o].r = NoReq /\ op'[o].seen = 0 /\ op'[o].tx = 0
    BY <1>2, <1>5 DEF NoOp
  <2> QED
    BY <1>2, <1>3, <2>1, PriceAssumption DEF OpFine, Stages
<1>6. CASE t # 0
  <2>1. op'[o].pc = "recording" /\ op'[o].r = r /\ op'[o].seen = 0 /\ op'[o].tx = t
    BY <1>2, <1>6 DEF NoOp
  <2> QED
    BY <1>2, <1>3, <1>4, <1>6, <2>1, PriceAssumption DEF OpFine, Stages
<1> QED
  BY <1>5, <1>6

\* Operations that read, send or leave.
LEMMA ReadingMoney ==
  ASSUME MoneyInv, NEW o \in Ops, NEW r \in Requests, ReadForReview(o, r) \/ Begin(o, r)
  PROVE  Money'
<1>1. UNCHANGED <<now, refund, lot, filed, row, cancels, answers>>
  BY DEF ReadForReview, Begin, Aside, vars
<1>2. Len(cancels) \in Nat /\ Balance(cancels) \in 0..Price /\ RowFine(r)
  BY MoneyTypes DEF MoneyInv, Money
<1>3. CASE ReadForReview(o, r)
  <2>1. op' = [op EXCEPT ![o] = [NoOp EXCEPT !.pc = "reviewing", !.r = r, !.seen = Balance(cancels)]] /\ filed[r] = "yes"
    BY <1>3 DEF ReadForReview
  <2>2. op'[o] = [NoOp EXCEPT !.pc = "reviewing", !.r = r, !.seen = Balance(cancels)]
        /\ \A k \in Ops \ {o} : op'[k] = op[k]
    BY <2>1, OpMoves DEF MoneyInv, IInv
  <2>3. op'[o].pc = "reviewing" /\ op'[o].r = r /\ op'[o].seen = Balance(cancels) /\ op'[o].tx = 0
    BY <2>2 DEF NoOp
  <2>4. OpFine(op[o])'
    BY <1>1, <1>2, <2>1, <2>3 DEF OpFine, Stages
  <2> QED
    BY <1>1, <2>2, <2>4, OpOnly
<1>4. CASE Begin(o, r)
  <2>1. op' = [op EXCEPT ![o] = [NoOp EXCEPT !.pc = IF row[r].tx = 0 THEN "due" ELSE "confirming",
                                              !.r = r, !.tx = row[r].tx]]
        /\ refund[r] = "processing"
    BY <1>4 DEF Begin
  <2>2. op'[o] = [NoOp EXCEPT !.pc = IF row[r].tx = 0 THEN "due" ELSE "confirming", !.r = r, !.tx = row[r].tx]
        /\ \A k \in Ops \ {o} : op'[k] = op[k]
    BY <2>1, OpMoves DEF MoneyInv, IInv
  <2>3. op'[o].pc = (IF row[r].tx = 0 THEN "due" ELSE "confirming") /\ op'[o].r = r /\ op'[o].seen = 0
        /\ op'[o].tx = row[r].tx
    BY <2>2 DEF NoOp
  <2>4. row[r].tx \in 0..Len(cancels) /\ (row[r].tx # 0 => row[r].tx \in CancelsOf(r)) /\ CancelsOf(r)' = CancelsOf(r)
    BY <1>1, <1>2, <2>1 DEF RowFine, CancelsOf
  <2>5. OpFine(op[o])'
    BY <1>1, <1>2, <2>3, <2>4, PriceAssumption DEF OpFine, Stages
  <2> QED
    BY <1>1, <2>2, <2>5, OpOnly
<1> QED
  BY <1>3, <1>4

LEMMA PlaceMoney ==
  ASSUME MoneyInv, IInv', NEW o \in Ops, Send(o) \/ ReadBack(o) \/ ReadConfirmed(o) \/ GiveUp(o)
  PROVE  Money'
<1>1. UNCHANGED <<now, refund, lot, filed, row, cancels, answers>>
  BY DEF Send, ReadBack, ReadConfirmed, GiveUp, Aside, vars
<1>2. Len(cancels) \in Nat /\ cancels \in Seq(Cancel) /\ OpFine(op[o]) /\ (op[o].pc # "idle" => op[o].r \in Requests)
      /\ (op[o].pc \notin {"idle", "reviewing"} => refund[op[o].r] # "requested")
  BY MoneyTypes DEF MoneyInv, Money, IInv, Reviewed
<1>3. \A r \in Requests : CancelsOf(r)' = CancelsOf(r)
  BY <1>1 DEF CancelsOf
<1>4. CASE GiveUp(o)
  <2>1. OpFine(op[o])' /\ \A k \in Ops \ {o} : op'[k] = op[k]
    BY <1>1, <1>2, <1>4, LeaveFine DEF GiveUp
  <2> QED
    BY <1>1, <2>1, OpOnly
<1>5. CASE Send(o)
  <2>1. op' = [op EXCEPT ![o].pc = "calling"]
    BY <1>5 DEF Send
  <2>2. /\ op'[o].pc = "calling" /\ op'[o].r = op[o].r /\ op'[o].seen = op[o].seen /\ op'[o].tx = op[o].tx
        /\ \A k \in Ops \ {o} : op'[k] = op[k]
    BY <2>1, PlaceOf
  <2>3. OpFine(op[o])'
    BY <1>1, <1>2, <2>2 DEF OpFine, Stages
  <2> QED
    BY <1>1, <2>2, <2>3, OpOnly
<1>6. CASE ReadConfirmed(o)
  <2>1. op' = [op EXCEPT ![o].pc = "applying"] /\ op[o].pc = "confirming"
    BY <1>6 DEF ReadConfirmed, Aside, At
  <2>2. /\ op'[o].pc = "applying" /\ op'[o].r = op[o].r /\ op'[o].seen = op[o].seen /\ op'[o].tx = op[o].tx
        /\ \A k \in Ops \ {o} : op'[k] = op[k]
    BY <2>1, PlaceOf
  <2>3. OpFine(op[o])'
    BY <1>1, <1>2, <1>3, <2>1, <2>2 DEF OpFine, Stages
  <2> QED
    BY <1>1, <2>2, <2>3, OpOnly
<1>7. CASE ReadBack(o)
  <2>1. op[o].pc = "refused" /\ RowFine(op[o].r) /\ op[o].r \in Requests
    BY <1>2, <1>7 DEF ReadBack, Aside, At, MoneyInv, Money
  <2>2. CASE Settled(o, cancels)
    <3> PICK r \in Requests : r = op[o].r
      BY <2>1
    <3>1. RowFine(r)'
      BY <1>1, RowStays DEF AnsweredStays, Answered, Keeps
    <3>2. OpFine(op[o])' /\ \A k \in Ops \ {o} : op'[k] = op[k]
      BY <1>1, <1>2, <2>1, <2>2, <3>1, SettledFine DEF IInv
    <3> QED
      BY <1>1, <3>2, OpOnly
  <2>3. CASE Untouched(op[o].r) /\ op' = [op EXCEPT ![o].pc = "failing"]
    <3>1. /\ op'[o].pc = "failing" /\ op'[o].r = op[o].r /\ op'[o].seen = op[o].seen /\ op'[o].tx = op[o].tx
          /\ \A k \in Ops \ {o} : op'[k] = op[k]
      BY <2>3, PlaceOf
    <3>2. ASSUME refund[op[o].r] = "processing" PROVE CancelsOf(op[o].r) = {}
      <4>1. Expected(op[o].r) /\ row[op[o].r].amount \in 0..Price /\ row[op[o].r].amount # 0
            /\ row[op[o].r].before \in 0..Price /\ Balance(cancels) = row[op[o].r].before
        BY <2>1, <2>3, <3>2 DEF RowFine, Untouched
      <4>2. row[op[o].r].before # row[op[o].r].before - row[op[o].r].amount
        BY <4>1, PriceAssumption
      <4> QED
        BY <4>1, <4>2 DEF Expected
    <3>3. Answered(op[o].r)
      BY <1>2, <2>1 DEF OpFine
    <3>4. Answered(op[o].r) => (answers'[op[o].r] # "none" \/ ~(now' <= row'[op[o].r].at + 1))
      BY <1>1 DEF Answered, Keeps
    <3>5. OpFine(op[o])'
      BY <1>1, <1>2, <1>3, <2>1, <3>1, <3>2, <3>3, <3>4 DEF OpFine, Stages, Answered, Keeps
    <3> QED
      BY <1>1, <3>1, <3>5, OpOnly
  <2> QED
    BY <1>7, <2>2, <2>3 DEF ReadBack
<1> QED
  BY <1>4, <1>5, <1>6, <1>7

\* The provider serves a cancel, to a listener or after it left.
LEMMA ServingMoney ==
  ASSUME MoneyInv, IInv',
         \/ \E r \in Requests : ServedLate(r)
         \/ \E o \in Ops, answer \in {"ok", "refused"} : CancelAnswered(o, answer)
  PROVE  Money'
<1>1. UNCHANGED <<now, refund, lot, filed, row>>
  BY DEF ServedLate, CancelAnswered, Aside, vars
<1>2. OneOpen' /\ filed' \in [Requests -> {"no", "yes", "rejected"}]
  BY <1>1 DEF MoneyInv, Money, OneOpen, Open
<1>3. cancels' \in Seq(Cancel) /\ RefundedOnce'
  BY DEF IInv, Shape, Cancel
<1>4. ASSUME NEW r \in Requests, ServedLate(r) PROVE Money'
  <2>1. refund[r] # "requested" /\ Keeps(r) /\ op' = op
    BY <1>4 DEF ServedLate, MoneyInv, IInv, Kept
  <2>2. PICK answer \in {"ok", "refused"} : Serve(r, answer)
    BY <1>4 DEF ServedLate
  <2>3. Paid' /\ (\A k \in Requests : RowFine(k)') /\ \A o \in Ops : OpFine(op[o])'
    BY <1>1, <2>1, <2>2, ServeMoves
  <2> QED
    BY <1>1, <1>2, <2>3, FundingStays DEF Money
<1>5. ASSUME NEW o \in Ops, NEW answer \in {"ok", "refused"}, CancelAnswered(o, answer) PROVE Money'
  <2>1. op[o].pc = "calling" /\ Serve(op[o].r, answer)
        /\ IF answer = "ok" THEN Settled(o, cancels') ELSE op' = [op EXCEPT ![o].pc = "refused"]
    BY <1>5 DEF CancelAnswered, Aside, At
  <2>2. op[o].r \in Requests /\ refund[op[o].r] # "requested" /\ Keeps(op[o].r) /\ OpFine(op[o])
    BY <2>1, MoneyTypes DEF MoneyInv, Money, IInv, Reviewed, Kept, At
  <2> PICK r \in Requests : r = op[o].r
    BY <2>2
  <2>3. /\ Paid' /\ (\A k \in Requests : RowFine(k)') /\ answers'[r] # "none"
        /\ \A k \in Ops : op'[k] = op[k] => OpFine(op[k])'
    BY <1>1, <2>1, <2>2, ServeMoves
  <2>4. OpFine(op[o])' /\ \A k \in Ops \ {o} : op'[k] = op[k]
    <3>1. CASE Settled(o, cancels')
      BY <1>1, <1>3, <2>3, <3>1, SettledFine
    <3>2. CASE op' = [op EXCEPT ![o].pc = "refused"]
      <4>1. /\ op'[o].pc = "refused" /\ op'[o].r = op[o].r /\ op'[o].seen = op[o].seen /\ op'[o].tx = op[o].tx
            /\ \A k \in Ops \ {o} : op'[k] = op[k]
        BY <3>2, PlaceOf
      <4>2. op[o].tx \in 0..Len(cancels')
        <5>1. op[o].tx \in 0..Len(cancels) /\ Len(cancels) \in Nat
          BY <2>2, MoneyTypes DEF OpFine
        <5>2. cancels' = cancels \/ Len(cancels') = Len(cancels) + 1
          BY <2>1, MoneyTypes DEF Serve
        <5> QED
          BY <5>1, <5>2
      <4>3. OpFine(op[o])'
        BY <2>2, <2>3, <4>1, <4>2 DEF OpFine, Stages, Answered
      <4> QED
        BY <4>1, <4>3
    <3> QED
      BY <2>1, <3>1, <3>2
  <2> QED
    BY <1>1, <1>2, <2>3, <2>4, FundingStays DEF Money
<1> QED
  BY <1>4, <1>5

\* The reviewer approves on a balance that still stands.
LEMMA ApproveMoney ==
  ASSUME MoneyInv, NEW o \in Ops, NEW amount \in Amounts, Approve(o, amount)
  PROVE  Money'
<1> DEFINE x == [NoRow EXCEPT !.amount = amount, !.before = op[o].seen, !.at = now]
<1>1. /\ op[o].pc = "reviewing" /\ filed[op[o].r] = "yes" /\ amount <= op[o].seen /\ ApproveRefund(op[o].r)
      /\ row' = [row EXCEPT ![op[o].r] = x] /\ Leave(o) /\ UNCHANGED <<filed, cancels, answers, late>>
  BY DEF Approve, WithinLeft, At
<1>2. op[o].r \in Requests /\ OpFine(op[o])
  BY <1>1, MoneyTypes DEF MoneyInv, Money
<1> PICK r \in Requests : r = op[o].r
  BY <1>2
<1>3. refund[r] = "requested" /\ refund' = [refund EXCEPT ![r] = "processing"] /\ now' = now
  BY <1>1 DEF ApproveRefund
<1>4. /\ now \in 0..MaxTime /\ refund \in [Requests -> ReqStates] /\ Len(cancels) \in Nat
      /\ Balance(cancels) \in 0..Price /\ RowFine(r) /\ row = [k \in Requests |-> row[k]]
  BY MoneyTypes DEF MoneyInv, Money, IInv, Shape
<1>5. op[o].seen = Balance(cancels)
  BY <1>1, <1>2, <1>3 DEF OpFine, Open
<1>6. x.amount = amount /\ x.before = Balance(cancels) /\ x.at = now /\ x.tx = 0
  BY <1>5 DEF NoRow
<1> HIDE DEF x
<1>7. row'[r] = x /\ (\A k \in Requests : k # r => row'[k] = row[k] /\ refund'[k] = refund[k]) /\ refund'[r] = "processing"
  BY <1>1, <1>3, <1>4
<1>8. StatusMoves /\ FiledMoves
  BY <1>1, <1>3, <1>7 DEF StatusMoves, FiledMoves
<1>9. AnsweredStays
  BY <1>1, <1>3, <1>7 DEF AnsweredStays, Answered, Keeps
<1>10. OpFine(op[o])' /\ \A k \in Ops \ {o} : op'[k] = op[k]
  BY <1>1, <1>4, LeaveFine
<1>11. \A k \in Ops : OpFine(op[k])'
  BY <1>1, <1>8, <1>9, <1>10, OpStays
<1>12. RowFine(r)'
  <2>1. CancelsOf(r)' = {}
    <3>1. CancelsOf(r) = {}
      BY <1>3 DEF MoneyInv, IInv, Remembered
    <3> QED
      BY <1>1, <3>1 DEF CancelsOf
  <2>2. Expected(r)'
    BY <1>1, <1>6, <1>7, <2>1 DEF Expected
  <2>3. amount \in 0..Price /\ amount # 0
    BY PriceAssumption DEF Amounts
  <2>4. row'[r].amount = amount /\ row'[r].before = Balance(cancels) /\ row'[r].at = now /\ row'[r].tx = 0
        /\ filed'[r] = "yes"
    BY <1>1, <1>6, <1>7
  <2> QED
    BY <1>1, <1>4, <1>7, <2>2, <2>3, <2>4 DEF RowFine
<1>13. \A k \in Requests : RowFine(k)'
  BY <1>1, <1>7, <1>9, <1>12, RowStays
<1>14. OneOpen'
  <2>1. \A k \in Requests : Open(k)' => Open(k)
    BY <1>1, <1>3, <1>7 DEF Open
  <2> QED
    BY <2>1 DEF MoneyInv, Money, OneOpen
<1>15. Holding' /\ \A k \in Requests : Funded(k)'
  BY <1>1, FundedByApproval, HoldingByApproval
<1>16. Paid' /\ filed' \in [Requests -> {"no", "yes", "rejected"}]
  BY <1>1 DEF MoneyInv, Money, Paid
<1> QED
  BY <1>11, <1>13, <1>14, <1>15, <1>16 DEF Money

\* A row whose transaction is recorded.
LEMMA TxOf ==
  ASSUME MoneyInv, NEW r \in Requests, NEW t, row' = [row EXCEPT ![r].tx = t]
  PROVE  /\ row'[r].amount = row[r].amount /\ row'[r].before = row[r].before /\ row'[r].at = row[r].at
         /\ row'[r].tx = t /\ \A k \in Requests : k # r => row'[k] = row[k]
<1>1. row = [k \in Requests |-> row[k]] /\ row[r] = [f \in {"amount", "before", "at", "tx"} |-> row[r][f]]
  BY DEF MoneyInv, IInv, Shape, IsRow
<1>2. row' = [row EXCEPT ![r] = [row[r] EXCEPT !.tx = t]]
  OBVIOUS
<1>3. row'[r] = [row[r] EXCEPT !.tx = t] /\ \A k \in Requests : k # r => row'[k] = row[k]
  BY <1>1, <1>2
<1> QED
  BY <1>1, <1>3

\* A refused request fails only while nothing of it moved.
LEMMA FailMoney == ASSUME MoneyInv, NEW o \in Ops, Fail(o) PROVE Money'
<1>1. op[o].pc = "failing" /\ Leave(o) /\ UNCHANGED <<filed, row, cancels, answers, late>>
      /\ IF refund[op[o].r] = "processing" THEN FailRefund(op[o].r) ELSE UNCHANGED vars
  BY DEF Fail, At
<1>2. op[o].r \in Requests /\ OpFine(op[o]) /\ Len(cancels) \in Nat
  BY <1>1, MoneyTypes DEF MoneyInv, Money
<1> PICK r \in Requests : r = op[o].r
  BY <1>2
<1>3. OpFine(op[o])' /\ \A k \in Ops \ {o} : op'[k] = op[k]
  BY <1>1, <1>2, LeaveFine
<1>4. CASE UNCHANGED vars
  <2>1. UNCHANGED <<now, refund, lot, filed, row, cancels, answers>>
    BY <1>1, <1>4 DEF vars
  <2> QED
    BY <1>3, <2>1, OpOnly
<1>5. CASE refund[r] = "processing" /\ FailRefund(r)
  <2>1. refund' = [refund EXCEPT ![r] = "failed"] /\ now' = now
    BY <1>5 DEF FailRefund
  <2>2. refund'[r] = "failed" /\ \A k \in Requests : k # r => refund'[k] = refund[k]
    BY <2>1, MoneyTypes
  <2>3. StatusMoves /\ FiledMoves /\ AnsweredStays
    BY <1>1, <1>5, <2>1, <2>2 DEF StatusMoves, FiledMoves, AnsweredStays, Answered, Keeps
  <2>4. \A k \in Ops : OpFine(op[k])'
    BY <1>1, <1>3, <2>3, OpStays
  <2>5. RowFine(r)'
    <3>1. RowFine(r) /\ CancelsOf(r) = {} /\ Answered(r) /\ refund[r] # "requested"
      BY <1>1, <1>2, <1>5 DEF OpFine, MoneyInv, Money
    <3>2. CancelsOf(r)' = {} /\ Answered(r)'
      BY <1>1, <2>3, <3>1 DEF CancelsOf, AnsweredStays
    <3> QED
      BY <1>1, <2>2, <3>1, <3>2 DEF RowFine
  <2>6. \A k \in Requests : RowFine(k)'
    BY <1>1, <2>2, <2>3, <2>5, RowStays
  <2>7. OneOpen'
    <3>1. \A k \in Requests : Open(k)' => Open(k)
      BY <1>1, <2>2 DEF Open
    <3> QED
      BY <3>1 DEF MoneyInv, Money, OneOpen
  <2>8. Holding' /\ \A k \in Requests : Funded(k)'
    BY <1>5, FundedByOutcome
  <2>9. Paid' /\ filed' \in [Requests -> {"no", "yes", "rejected"}]
    BY <1>1 DEF MoneyInv, Money, Paid
  <2> QED
    BY <2>4, <2>6, <2>7, <2>8, <2>9 DEF Money
<1> QED
  BY <1>1, <1>4, <1>5

\* A recorded or applied transaction is the request's own.
LEMMA RecordMoney == ASSUME MoneyInv, NEW o \in Ops, RecordRefundProviderAttempt(o) PROVE Money'
<1>1. /\ op[o].pc = "recording" /\ UNCHANGED <<now, refund, lot, filed, cancels, answers>>
      /\ \/ /\ refund[op[o].r] = "processing" /\ row' = [row EXCEPT ![op[o].r].tx = op[o].tx]
            /\ op' = [op EXCEPT ![o].pc = "confirming"]
         \/ Leave(o) /\ row' = row
  BY DEF RecordRefundProviderAttempt, Aside, At, vars
<1>2. op[o].r \in Requests /\ OpFine(op[o]) /\ Len(cancels) \in Nat
  BY <1>1, MoneyTypes DEF MoneyInv, Money
<1> PICK r \in Requests : r = op[o].r
  BY <1>2
<1>3. CASE Leave(o) /\ row' = row
  <2>1. OpFine(op[o])' /\ \A k \in Ops \ {o} : op'[k] = op[k]
    BY <1>1, <1>2, <1>3, LeaveFine
  <2> QED
    BY <1>1, <1>3, <2>1, OpOnly
<1>4. CASE /\ refund[r] = "processing" /\ row' = [row EXCEPT ![r].tx = op[o].tx]
           /\ op' = [op EXCEPT ![o].pc = "confirming"]
  <2>1. /\ op'[o].pc = "confirming" /\ op'[o].r = r /\ op'[o].seen = op[o].seen /\ op'[o].tx = op[o].tx
        /\ \A k \in Ops \ {o} : op'[k] = op[k]
    BY <1>4, PlaceOf
  <2>2. /\ row'[r].amount = row[r].amount /\ row'[r].before = row[r].before /\ row'[r].at = row[r].at
        /\ row'[r].tx = op[o].tx /\ \A k \in Requests : k # r => row'[k] = row[k]
    BY <1>4, TxOf
  <2>3. op[o].tx \in CancelsOf(r) /\ op[o].tx \in 0..Len(cancels) /\ \A k \in Requests : CancelsOf(k)' = CancelsOf(k)
    BY <1>1, <1>2, <1>4 DEF OpFine, CancelsOf
  <2>4. StatusMoves /\ FiledMoves /\ AnsweredStays
    <3>1. \A k \in Requests : row'[k].at = row[k].at
      BY <2>2
    <3> QED
      BY <1>1, <3>1 DEF StatusMoves, FiledMoves, AnsweredStays, Answered, Keeps
  <2>5. OpFine(op[o])'
    BY <1>1, <1>2, <1>4, <2>1, <2>3 DEF OpFine, Stages
  <2>6. \A k \in Ops : OpFine(op[k])'
    BY <1>1, <2>1, <2>4, <2>5, OpStays
  <2>7. RowFine(r)'
    <3>1. RowFine(r)
      BY DEF MoneyInv, Money
    <3>2. Expected(r)'
      BY <1>1, <1>4, <2>2, <2>3, <3>1 DEF RowFine, Expected
    <3> QED
      BY <1>1, <1>4, <2>2, <2>3, <3>1, <3>2 DEF RowFine
  <2>8. \A k \in Requests : RowFine(k)'
    BY <1>1, <2>2, <2>4, <2>7, RowStays
  <2>9. OneOpen' /\ Paid' /\ filed' \in [Requests -> {"no", "yes", "rejected"}]
    BY <1>1 DEF MoneyInv, Money, OneOpen, Open, Paid
  <2> QED
    BY <1>1, <2>6, <2>8, <2>9, FundingStays DEF Money
<1> QED
  BY <1>1, <1>3, <1>4

LEMMA ApplyMoney == ASSUME MoneyInv, NEW o \in Ops, Apply(o) PROVE Money'
<1>1. /\ op[o].pc = "applying" /\ Leave(o) /\ UNCHANGED <<filed, cancels, answers, late>>
      /\ IF refund[op[o].r] = "processing"
           THEN ConfirmRefund(op[o].r) /\ row' = [row EXCEPT ![op[o].r].tx = op[o].tx]
           ELSE UNCHANGED <<vars, row>>
  BY DEF Apply, At
<1>2. op[o].r \in Requests /\ OpFine(op[o]) /\ Len(cancels) \in Nat
  BY <1>1, MoneyTypes DEF MoneyInv, Money
<1> PICK r \in Requests : r = op[o].r
  BY <1>2
<1>3. OpFine(op[o])' /\ \A k \in Ops \ {o} : op'[k] = op[k]
  BY <1>1, <1>2, LeaveFine
<1>4. CASE UNCHANGED <<vars, row>>
  <2>1. UNCHANGED <<now, refund, lot, filed, row, cancels, answers>>
    BY <1>1, <1>4 DEF vars
  <2> QED
    BY <1>3, <2>1, OpOnly
<1>5. CASE refund[r] = "processing" /\ ConfirmRefund(r) /\ row' = [row EXCEPT ![r].tx = op[o].tx]
  <2>1. refund' = [refund EXCEPT ![r] = "completed"] /\ now' = now
    BY <1>5 DEF ConfirmRefund
  <2>2. refund'[r] = "completed" /\ \A k \in Requests : k # r => refund'[k] = refund[k]
    BY <2>1, MoneyTypes
  <2>3. /\ row'[r].amount = row[r].amount /\ row'[r].before = row[r].before /\ row'[r].at = row[r].at
        /\ row'[r].tx = op[o].tx /\ \A k \in Requests : k # r => row'[k] = row[k]
    BY <1>5, TxOf
  <2>4. op[o].tx \in CancelsOf(r) /\ op[o].tx \in 0..Len(cancels) /\ CancelsOf(r)' = CancelsOf(r)
    BY <1>1, <1>2, <1>5 DEF OpFine, CancelsOf
  <2>5. StatusMoves /\ FiledMoves /\ AnsweredStays
    <3>1. \A k \in Requests : row'[k].at = row[k].at
      BY <2>3
    <3> QED
      BY <1>1, <1>5, <2>1, <2>2, <3>1 DEF StatusMoves, FiledMoves, AnsweredStays, Answered, Keeps
  <2>6. \A k \in Ops : OpFine(op[k])'
    BY <1>1, <1>3, <2>5, OpStays
  <2>7. RowFine(r)'
    <3>1. RowFine(r)
      BY DEF MoneyInv, Money
    <3> QED
      BY <1>1, <1>5, <2>2, <2>3, <2>4, <3>1 DEF RowFine
  <2>8. \A k \in Requests : RowFine(k)'
    BY <1>1, <2>2, <2>3, <2>5, <2>7, RowStays
  <2>9. OneOpen'
    <3>1. \A k \in Requests : Open(k)' => Open(k)
      BY <1>1, <2>2 DEF Open
    <3> QED
      BY <3>1 DEF MoneyInv, Money, OneOpen
  <2>10. Holding' /\ \A k \in Requests : Funded(k)'
    BY <1>5, FundedByOutcome
  <2>11. Paid' /\ filed' \in [Requests -> {"no", "yes", "rejected"}]
    BY <1>1 DEF MoneyInv, Money, Paid
  <2> QED
    BY <2>6, <2>8, <2>9, <2>10, <2>11 DEF Money
<1> QED
  BY <1>1, <1>4, <1>5

-----------------------------------------------------------------------------
LEMMA MoneyKeeps == ASSUME MoneyInv, [RefundNext]_allvars PROVE MoneyInv'
<1>1. LedgerInv' /\ IInv'
  BY StepOfLedger, LedgerStep, StepKeeps DEF MoneyInv
<1>2. ASSUME RefundNext PROVE Money'
  <2>1. ASSUME NEW r \in Requests, RequestRefund(r) \/ Reject(r) PROVE Money'
    BY <2>1, FilingMoney
  <2>2. ASSUME NEW o \in Ops, NEW r \in Requests, ReadForReview(o, r) \/ Begin(o, r) PROVE Money'
    BY <2>2, ReadingMoney
  <2>3. ASSUME NEW o \in Ops, NEW amount \in Amounts, Approve(o, amount) PROVE Money'
    BY <2>3, ApproveMoney
  <2>4. ASSUME NEW o \in Ops, Send(o) \/ ReadBack(o) \/ GiveUp(o) \/ ReadConfirmed(o) PROVE Money'
    BY <1>1, <2>4, PlaceMoney
  <2>5. ASSUME NEW o \in Ops, Fail(o) \/ RecordRefundProviderAttempt(o) \/ Apply(o) PROVE Money'
    BY <2>5, FailMoney, RecordMoney, ApplyMoney
  <2>6. ASSUME \/ \E r \in Requests : ServedLate(r)
               \/ \E o \in Ops, answer \in {"ok", "refused"} : CancelAnswered(o, answer)
        PROVE  Money'
    BY <1>1, <2>6, ServingMoney
  <2>7. ASSUME Pass \/ (Work /\ UNCHANGED rvars) PROVE Money'
    BY <2>7, PassMoney, WorkMoney
  <2> QED
    BY <1>2, <2>1, <2>2, <2>3, <2>4, <2>5, <2>6, <2>7 DEF RefundNext
<1>3. ASSUME UNCHANGED allvars PROVE Money'
  <2>1. UNCHANGED <<now, refund, lot>> /\ UNCHANGED rvars
    BY <1>3 DEF allvars, vars
  <2>2. StatusMoves /\ FiledMoves /\ AnsweredStays
    BY <2>1 DEF rvars, StatusMoves, FiledMoves, AnsweredStays, Answered, Keeps
  <2>3. (\A k \in Ops : OpFine(op[k])') /\ \A r \in Requests : RowFine(r)'
    BY <2>1, <2>2, OpStays, RowStays DEF rvars
  <2>4. OneOpen' /\ Paid' /\ filed' \in [Requests -> {"no", "yes", "rejected"}]
    BY <2>1 DEF rvars, MoneyInv, Money, OneOpen, Open, Paid
  <2>5. Holding' /\ \A r \in Requests : Funded(r)'
    BY <2>1, FundingStays
  <2> QED
    BY <2>3, <2>4, <2>5 DEF Money
<1> QED
  BY <1>1, <1>2, <1>3 DEF MoneyInv

\* The inductive invariant of the money: one request of the payment is under
\* way at a time, the balance its review read stands until its own cancel, an
\* operation past the provider's answer carries that cancel, and what it funded
\* is frozen from its approval on (billing/refunds.go,
\* usage/store/refund_funding.go).
THEOREM MoneyInvariance == RefundSpec => []MoneyInv
<1>1. RefundInit => MoneyInv
  BY MoneyInit
<1>2. MoneyInv /\ [RefundNext]_allvars => MoneyInv'
  BY MoneyKeeps
<1> QED
  BY <1>1, <1>2, PTL DEF RefundSpec

\* Refund requests implement the credit ledger: each of their steps is one of
\* its operations or leaves it alone, so that what is proved of the ledger
\* holds with requests, reviews and reconciliations above it
\* (billing/refunds.go over usage/service.go).
THEOREM RefundsImplementLedger == RefundSpec => Spec
<1>1. RefundInit => Init
  BY DEF RefundInit
<1>2. IInv /\ [RefundNext]_allvars => [Next]_vars
  BY StepOfLedger
<1> QED
  BY <1>1, <1>2, Invariance, PTL DEF RefundSpec, Spec

\* The credits of a refund under decision stay as the reviewer saw them,
\* whatever the reconciliations do (usage/store/queries/usage.sql).
THEOREM FrozenUnderRefunds == RefundSpec => FrozenStill
  BY RefundsImplementLedger, FrozenStays, PTL

LEMMA MoneyTyped == MoneyInv => RefundTypeOK
<1> SUFFICES ASSUME MoneyInv PROVE RefundTypeOK
  OBVIOUS
<1>1. TypeOK
  BY LedgerTypes DEF MoneyInv
<1>2. /\ filed \in [Requests -> {"no", "yes", "rejected"}] /\ Len(cancels) <= Price
      /\ Len(cancels) \in 0..Price
      /\ answers \in [Requests -> {"none", "ok", "refused"}] /\ late \subseteq Requests
  BY MoneyTypes, PriceAssumption DEF MoneyInv, IInv, Shape
<1>3. \A n \in 0..Len(cancels) : n \in 0..Price
  BY <1>2, PriceAssumption
<1>4. row \in [Requests -> [amount : 0..Price, before : 0..Price, at : 0..MaxTime, tx : 0..Price]]
  <2>1. ASSUME NEW r \in Requests PROVE row[r] \in [amount : 0..Price, before : 0..Price, at : 0..MaxTime, tx : 0..Price]
    <3>1. /\ row[r] = [f \in {"amount", "before", "at", "tx"} |-> row[r][f]]
          /\ row[r].amount \in 0..Price /\ row[r].before \in 0..Price /\ row[r].at \in 0..MaxTime /\ row[r].tx \in 0..Price
      BY <1>3 DEF MoneyInv, Money, RowFine, IInv, Shape, IsRow
    <3> QED
      BY <3>1
  <2>2. row = [r \in Requests |-> row[r]]
    BY DEF MoneyInv, IInv, Shape
  <2> QED
    BY <2>1, <2>2
<1>5. op \in [Ops -> [pc : {"idle", "reviewing", "due", "calling", "refused", "failing", "recording",
                            "confirming", "applying"},
                      r : Requests \cup {NoReq}, seen : 0..Price, tx : 0..Price]]
  <2>1. ASSUME NEW o \in Ops PROVE op[o] \in [pc : Stages, r : Requests \cup {NoReq}, seen : 0..Price, tx : 0..Price]
    <3>1. /\ op[o] = [f \in {"pc", "r", "seen", "tx"} |-> op[o][f]]
          /\ op[o].pc \in Stages /\ op[o].r \in Requests \cup {NoReq} /\ op[o].seen \in 0..Price /\ op[o].tx \in 0..Price
      BY <1>3 DEF MoneyInv, Money, OpFine, IInv, Shape, IsOp
    <3> QED
      BY <3>1
  <2>2. op = [o \in Ops |-> op[o]]
    BY DEF MoneyInv, IInv, Shape
  <2> QED
    BY <2>1, <2>2 DEF Stages
<1>6. ASSUME NEW i \in DOMAIN cancels PROVE cancels[i] \in [key : Requests, amount : Amounts]
  <2>1. cancels[i] \in Cancel /\ cancels[i].amount \in Amounts
    BY MoneyTypes DEF MoneyInv, Money, Paid
  <2> QED
    BY <2>1 DEF Cancel
<1> QED
  BY <1>1, <1>2, <1>4, <1>5, <1>6 DEF RefundTypeOK

\* Types of the requests (billing/refunds.go); in particular the payment is
\* never refunded more than it charged.
THEOREM RefundsTyped == RefundSpec => []RefundTypeOK
  BY MoneyInvariance, MoneyTyped, PTL

LEMMA MoneyOwn == MoneyInv => CompletedOnOwnCancel
  BY DEF MoneyInv, Money, RowFine, CompletedOnOwnCancel

\* A completed request was completed on its own cancel, not on one of the same
\* amount that an earlier request of the payment made
\* (billing/provider_refusals.go).
THEOREM CompletionsOwn == RefundSpec => []CompletedOnOwnCancel
  BY MoneyInvariance, MoneyOwn, PTL

\* Money that moved never leaves its credits spendable.
LEMMA MoneyFrozen == MoneyInv => MoneyFreezesCredits
<1> SUFFICES ASSUME MoneyInv, NEW r \in Requests, CancelsOf(r) # {}
             PROVE  /\ refund[r] \in {"processing", "completed"}
                    /\ refund[r] = "processing" \/ r \notin Upgrades =>
                          \A l \in Funds[r] : lot[l].granted > 0 => lot[l].frozen # NoReq
  BY DEF MoneyFreezesCredits
<1>1. refund[r] \in {"processing", "completed"}
  <2>1. refund[r] \in ReqStates /\ RowFine(r) /\ refund[r] # "requested"
    BY MoneyTypes DEF MoneyInv, Money, IInv, Remembered
  <2> QED
    BY <2>1 DEF RowFine, ReqStates
<1>2. NoReq \notin Requests /\ Funded(r)
  BY FundsAssumption DEF MoneyInv, Money
<1> QED
  BY <1>1, <1>2 DEF Funded, Completed

\* A request whose cancel went through has not failed, and what its payment
\* funded stays frozen (billing/refunds.go, usage/store/refund_funding.go).
THEOREM MoneyMovedFreezes == RefundSpec => []MoneyFreezesCredits
  BY MoneyInvariance, MoneyFrozen, PTL
-----------------------------------------------------------------------------
(* What a refund promises. *)

\* How the requests move, and what that is in the promise.
SameAmounts == \A k \in Requests : row'[k].amount = row[k].amount
Others(r)   == \A k \in Requests : k # r => Status(k)' = Status(k)

LEMMA PromiseStays ==
  ASSUME \A k \in Requests : Status(k)' = Status(k), SameAmounts, cancels' = cancels
  PROVE  UNCHANGED Promise!vars
<1>1. [k \in Requests |-> Status(k)]' = [k \in Requests |-> Status(k)]
  OBVIOUS
<1>2. [k \in Requests |-> row[k].amount]' = [k \in Requests |-> row[k].amount]
  BY DEF SameAmounts
<1>3. {k \in Requests : CancelsOf(k) # {}}' = {k \in Requests : CancelsOf(k) # {}}
  BY DEF CancelsOf
<1>4. Balance(cancels)' = Balance(cancels)
  OBVIOUS
<1> QED
  BY <1>1, <1>2, <1>3, <1>4 DEF Promise!vars

LEMMA PromiseMoves ==
  ASSUME NEW r \in Requests, NEW s, Status(r)' = s, Others(r), SameAmounts, cancels' = cancels
  PROVE  Promise!MovesTo(r, s)
<1>1. [k \in Requests |-> Status(k)]' = [[k \in Requests |-> Status(k)] EXCEPT ![r] = s]
  BY DEF Others
<1>2. [k \in Requests |-> row[k].amount]' = [k \in Requests |-> row[k].amount]
  BY DEF SameAmounts
<1>3. {k \in Requests : CancelsOf(k) # {}}' = {k \in Requests : CancelsOf(k) # {}}
  BY DEF CancelsOf
<1>4. Balance(cancels)' = Balance(cancels)
  OBVIOUS
<1> QED
  BY <1>1, <1>2, <1>3, <1>4 DEF Promise!MovesTo

\* An owner's request and a rejection.
LEMMA FilingPromised ==
  ASSUME MoneyInv, NEW r \in Requests, RequestRefund(r) \/ Reject(r)
  PROVE  Promise!File(r) \/ Promise!Reject(r)
<1>1. UNCHANGED <<refund, row, cancels>>
  BY DEF RequestRefund, Reject, vars
<1>2. filed \in [Requests -> {"no", "yes", "rejected"}] /\ RowFine(r)
  BY DEF MoneyInv, Money
<1>3. SameAmounts
  BY <1>1 DEF SameAmounts
<1>4. CASE RequestRefund(r)
  <2>1. /\ filed[r] = "no" /\ filed' = [filed EXCEPT ![r] = "yes"]
        /\ \A k \in Requests : filed[k] = "yes" => refund[k] \in {"failed", "completed"}
    BY <1>4 DEF RequestRefund
  <2>2. Status(r) = "none" /\ Status(r)' = "requested" /\ Others(r)
    BY <1>1, <1>2, <2>1 DEF Status, Others, RowFine
  <2>3. \A k \in Requests : Status(k) \notin {"requested", "processing"}
    BY <2>1 DEF Status
  <2>4. Promise!MovesTo(r, "requested")
    BY <1>1, <1>3, <2>2, PromiseMoves
  <2> QED
    BY <2>2, <2>3, <2>4 DEF Promise!File, Promise!UnderWay
<1>5. CASE Reject(r)
  <2>1. filed[r] = "yes" /\ refund[r] = "requested" /\ filed' = [filed EXCEPT ![r] = "rejected"]
    BY <1>5 DEF Reject
  <2>2. Status(r) = "requested" /\ Status(r)' = "rejected" /\ Others(r)
    BY <1>1, <1>2, <2>1 DEF Status, Others
  <2>3. Promise!MovesTo(r, "rejected")
    BY <1>1, <1>3, <2>2, PromiseMoves
  <2> QED
    BY <2>2, <2>3 DEF Promise!Reject
<1> QED
  BY <1>4, <1>5

\* A review grants no more than is left: the balance it read still stands.
LEMMA ReviewPromised ==
  ASSUME MoneyInv, NEW o \in Ops, NEW a \in Amounts, Approve(o, a)
  PROVE  \E r \in Requests : Promise!Grant(r, a)
<1> DEFINE x == [NoRow EXCEPT !.amount = a, !.before = op[o].seen, !.at = now]
<1>1. /\ op[o].pc = "reviewing" /\ filed[op[o].r] = "yes" /\ a <= op[o].seen /\ ApproveRefund(op[o].r)
      /\ row' = [row EXCEPT ![op[o].r] = x] /\ UNCHANGED <<filed, cancels>>
  BY DEF Approve, WithinLeft, At
<1>2. op[o].r \in Requests /\ OpFine(op[o])
  BY <1>1, MoneyTypes DEF MoneyInv, Money
<1> PICK r \in Requests : r = op[o].r
  BY <1>2
<1>3. refund[r] = "requested" /\ refund' = [refund EXCEPT ![r] = "processing"]
  BY <1>1 DEF ApproveRefund
<1>4. op[o].seen = Balance(cancels)
  BY <1>1, <1>2, <1>3 DEF OpFine, Open
<1>5. x.amount = a
  BY DEF NoRow
<1> HIDE DEF x
<1>6. row'[r].amount = a /\ refund'[r] = "processing"
      /\ \A k \in Requests : k # r => row'[k] = row[k] /\ refund'[k] = refund[k]
  BY <1>1, <1>3, <1>5, MoneyTypes DEF MoneyInv, IInv, Shape
<1>7. Status(r) = "requested" /\ Status(r)' = "processing" /\ Others(r)
  BY <1>1, <1>3, <1>6 DEF Status, Others
<1>8. [k \in Requests |-> Status(k)]' = [[k \in Requests |-> Status(k)] EXCEPT ![r] = "processing"]
  BY <1>7 DEF Others
<1>9. [k \in Requests |-> row[k].amount]' = [[k \in Requests |-> row[k].amount] EXCEPT ![r] = a]
  BY <1>6
<1>10. {k \in Requests : CancelsOf(k) # {}}' = {k \in Requests : CancelsOf(k) # {}}
  BY <1>1 DEF CancelsOf
<1>11. Balance(cancels)' = Balance(cancels)
  BY <1>1
<1>12. 0 < a /\ a <= Balance(cancels)
  BY <1>1, <1>4, PriceAssumption DEF Amounts
<1> QED
  BY <1>7, <1>8, <1>9, <1>10, <1>11, <1>12 DEF Promise!Grant

\* The provider's step: nothing, or the one cancel of a request under way.
LEMMA ServingPromised ==
  ASSUME MoneyInv, NEW r \in Requests, NEW answer \in {"ok", "refused"}, Serve(r, answer),
         refund[r] # "requested", Keeps(r), UNCHANGED <<filed, refund, row>>
  PROVE  Promise!GiveBack(r) \/ UNCHANGED Promise!vars
<1>1. SameAmounts /\ \A k \in Requests : Status(k)' = Status(k)
  BY DEF SameAmounts, Status
<1>2. CASE cancels' = cancels
  BY <1>1, <1>2, PromiseStays
<1>3. CASE cancels' # cancels
  <2> DEFINE e == [key |-> r, amount |-> row[r].amount]
             n == Len(cancels) + 1
  <2>1. answers[r] = "none" /\ cancels' = Append(cancels, e)
    BY <1>3 DEF Serve
  <2>2. /\ refund[r] = "processing" /\ Open(r) /\ CancelsOf(r) = {} /\ row[r].amount \in Amounts
    BY <2>1, OnlyOpenServed DEF Answered
  <2>3. cancels \in Seq(Cancel) /\ Len(cancels) \in Nat /\ Price \in Nat
    BY MoneyTypes, PriceAssumption
  <2>4. e \in Cancel /\ e.amount = row[r].amount /\ e.key = r
    BY <2>2, <2>3 DEF Amounts, Cancel
  <2> HIDE DEF e
  <2>5. /\ DOMAIN cancels' = DOMAIN cancels \cup {n} /\ n \notin DOMAIN cancels
        /\ \A i \in DOMAIN cancels : cancels'[i] = cancels[i]
        /\ cancels'[n] = e
    BY <2>1, <2>3, <2>4
  <2>6. Balance(cancels)' = Balance(cancels) - row[r].amount
    BY <2>1, <2>3, <2>4, BalanceMoves
  <2> HIDE DEF n
  <2>7. CancelsOf(r)' = {n}
    BY <2>2, <2>4, <2>5 DEF CancelsOf
  <2>8. \A k \in Requests : k # r => CancelsOf(k)' = CancelsOf(k)
    BY <2>4, <2>5 DEF CancelsOf
  <2>9. {k \in Requests : CancelsOf(k) # {}}' = {k \in Requests : CancelsOf(k) # {}} \cup {r}
    BY <2>7, <2>8
  <2>10. r \notin {k \in Requests : CancelsOf(k) # {}}
    BY <2>2
  <2>11. [k \in Requests |-> Status(k)]' = [k \in Requests |-> Status(k)]
    BY <1>1
  <2>12. [k \in Requests |-> row[k].amount]' = [k \in Requests |-> row[k].amount]
    BY <1>1 DEF SameAmounts
  <2>13. Status(r) = "processing"
    BY <2>2 DEF Status, Open
  <2> QED
    BY <2>6, <2>9, <2>10, <2>11, <2>12, <2>13 DEF Promise!GiveBack
<1> QED
  BY <1>2, <1>3

\* An outcome: completed on its own cancel, failed only without one.
LEMMA OutcomePromised ==
  ASSUME MoneyInv, NEW o \in Ops, Fail(o) \/ Apply(o)
  PROVE  (\E r \in Requests : Promise!Fail(r) \/ Promise!Complete(r)) \/ UNCHANGED Promise!vars
<1>1. op[o].pc \in {"failing", "applying"} /\ UNCHANGED <<filed, cancels>>
  BY DEF Fail, Apply, At
<1>2. op[o].r \in Requests /\ OpFine(op[o])
  BY <1>1, MoneyTypes DEF MoneyInv, Money
<1> PICK r \in Requests : r = op[o].r
  BY <1>2
<1>3. CASE refund[r] # "processing"
  <2>1. UNCHANGED <<refund, row>>
    BY <1>3 DEF Fail, Apply, vars
  <2> QED
    BY <1>1, <2>1, PromiseStays DEF SameAmounts, Status
<1>4. CASE refund[r] = "processing" /\ Fail(o)
  <2>1. op[o].pc = "failing" /\ refund' = [refund EXCEPT ![r] = "failed"] /\ row' = row
    BY <1>4 DEF Fail, FailRefund, At
  <2>2. filed[r] = "yes" /\ CancelsOf(r) = {}
    BY <1>2, <1>4, <2>1 DEF OpFine, MoneyInv, Money, RowFine
  <2>3. Status(r) = "processing" /\ Status(r)' = "failed" /\ Others(r) /\ SameAmounts
    BY <1>1, <1>4, <2>1, <2>2, MoneyTypes DEF Status, Others, SameAmounts
  <2>4. Promise!MovesTo(r, "failed")
    BY <1>1, <2>3, PromiseMoves
  <2>5. r \notin {k \in Requests : CancelsOf(k) # {}}
    BY <2>2
  <2> QED
    BY <2>3, <2>4, <2>5 DEF Promise!Fail
<1>5. CASE refund[r] = "processing" /\ Apply(o)
  <2>1. /\ op[o].pc = "applying" /\ refund' = [refund EXCEPT ![r] = "completed"]
        /\ row' = [row EXCEPT ![r].tx = op[o].tx]
    BY <1>5 DEF Apply, ConfirmRefund, At
  <2>2. filed[r] = "yes" /\ CancelsOf(r) # {}
    BY <1>2, <1>5, <2>1 DEF OpFine, MoneyInv, Money, RowFine
  <2>3. SameAmounts
    BY <2>1, TxMoves DEF MoneyInv, IInv, SameAmounts
  <2>4. Status(r) = "processing" /\ Status(r)' = "completed" /\ Others(r)
    BY <1>1, <1>5, <2>1, <2>2, MoneyTypes DEF Status, Others
  <2>5. Promise!MovesTo(r, "completed")
    BY <1>1, <2>3, <2>4, PromiseMoves
  <2>6. r \in {k \in Requests : CancelsOf(k) # {}}
    BY <2>2
  <2> QED
    BY <2>4, <2>5, <2>6 DEF Promise!Complete
<1> QED
  BY <1>3, <1>4, <1>5

\* Whatever else an operation, the clock or the account does is not seen.
LEMMA AsidePromised ==
  ASSUME MoneyInv,
         \/ \E o \in Ops : \/ \E r \in Requests : ReadForReview(o, r) \/ Begin(o, r)
                           \/ Send(o) \/ ReadBack(o) \/ GiveUp(o) \/ ReadConfirmed(o)
                           \/ RecordRefundProviderAttempt(o)
         \/ Pass \/ (Work /\ UNCHANGED rvars) \/ UNCHANGED allvars
  PROVE  UNCHANGED Promise!vars
<1>1. UNCHANGED <<refund, filed, cancels>>
  BY WorkAside DEF ReadForReview, Begin, Send, ReadBack, GiveUp, ReadConfirmed, RecordRefundProviderAttempt,
     Aside, Pass, Tick, vars, rvars, allvars
<1>2. SameAmounts
  <2>1. CASE \E o \in Ops : RecordRefundProviderAttempt(o)
    <3>1. PICK o \in Ops : RecordRefundProviderAttempt(o)
      BY <2>1
    <3>2. op[o].r \in Requests
      BY <3>1, MoneyTypes DEF RecordRefundProviderAttempt, Aside, At
    <3>3. row' = row \/ row' = [row EXCEPT ![op[o].r].tx = op[o].tx]
      BY <3>1 DEF RecordRefundProviderAttempt
    <3> QED
      BY <3>2, <3>3, TxMoves DEF MoneyInv, IInv, SameAmounts
  <2>2. CASE row' = row
    BY <2>2 DEF SameAmounts
  <2>3. row' = row \/ \E o \in Ops : RecordRefundProviderAttempt(o)
    BY DEF ReadForReview, Begin, Send, ReadBack, GiveUp, ReadConfirmed, Pass, rvars, allvars
  <2> QED
    BY <2>1, <2>2, <2>3
<1> QED
  BY <1>1, <1>2, PromiseStays DEF Status

LEMMA StepPromised == ASSUME MoneyInv, [RefundNext]_allvars PROVE [Promise!Next]_(Promise!vars)
<1>1. ASSUME NEW r \in Requests, RequestRefund(r) \/ Reject(r) PROVE Promise!Next
  BY <1>1, FilingPromised DEF Promise!Next
<1>2. ASSUME NEW o \in Ops, NEW a \in Amounts, Approve(o, a) PROVE Promise!Next
  BY <1>2, ReviewPromised DEF Promise!Next, Amounts
<1>3. ASSUME NEW r \in Requests, ServedLate(r) PROVE Promise!Next \/ UNCHANGED Promise!vars
  <2>1. refund[r] # "requested" /\ Keeps(r) /\ UNCHANGED <<filed, refund, row>>
    BY <1>3 DEF ServedLate, MoneyInv, IInv, Kept, vars
  <2>2. PICK answer \in {"ok", "refused"} : Serve(r, answer)
    BY <1>3 DEF ServedLate
  <2> QED
    BY <2>1, <2>2, ServingPromised DEF Promise!Next
<1>4. ASSUME NEW o \in Ops, NEW answer \in {"ok", "refused"}, CancelAnswered(o, answer)
      PROVE  Promise!Next \/ UNCHANGED Promise!vars
  <2>1. op[o].pc = "calling" /\ Serve(op[o].r, answer) /\ UNCHANGED <<filed, refund, row>>
    BY <1>4 DEF CancelAnswered, Aside, At, vars
  <2>2. op[o].r \in Requests /\ refund[op[o].r] # "requested" /\ Keeps(op[o].r)
    BY <2>1, MoneyTypes DEF MoneyInv, IInv, Reviewed, Kept, At
  <2> QED
    BY <2>1, <2>2, ServingPromised DEF Promise!Next
<1>5. ASSUME NEW o \in Ops, Fail(o) \/ Apply(o) PROVE Promise!Next \/ UNCHANGED Promise!vars
  BY <1>5, OutcomePromised DEF Promise!Next
<1>6. ASSUME \/ \E o \in Ops : \/ \E r \in Requests : ReadForReview(o, r) \/ Begin(o, r)
                               \/ Send(o) \/ ReadBack(o) \/ GiveUp(o) \/ ReadConfirmed(o)
                               \/ RecordRefundProviderAttempt(o)
             \/ Pass \/ (Work /\ UNCHANGED rvars) \/ UNCHANGED allvars
      PROVE  UNCHANGED Promise!vars
  BY <1>6, AsidePromised
<1> QED
  BY <1>1, <1>2, <1>3, <1>4, <1>5, <1>6 DEF RefundNext

LEMMA InitPromised == RefundInit => Promise!Init
<1> SUFFICES ASSUME RefundInit PROVE Promise!Init
  OBVIOUS
<1>1. \A r \in Requests : filed[r] = "no" /\ row[r] = NoRow /\ CancelsOf(r) = {}
  BY DEF RefundInit, CancelsOf
<1>2. [r \in Requests |-> Status(r)] = [r \in Requests |-> "none"]
  BY <1>1 DEF Status
<1>3. [r \in Requests |-> row[r].amount] = [r \in Requests |-> 0]
  BY <1>1 DEF NoRow
<1>4. Balance(cancels) = Price
  BY BalanceAtFirst DEF RefundInit
<1>5. {r \in Requests : CancelsOf(r) # {}} = {}
  BY <1>1
<1> QED
  BY <1>2, <1>3, <1>4, <1>5 DEF Promise!Init

\* Refund requests, their reviews and reconciliations implement RefundPromise:
\* one request of a payment is under way at a time, its money goes back once,
\* after its review and of exactly the reviewed amount, which is never more
\* than is left of the payment; it is completed only when its money went back
\* and fails only while none did (billing/refunds.go,
\* billing/provider_refusals.go).
THEOREM RefundsKeepPromise == RefundSpec => KeepsPromise
<1>1. RefundInit => Promise!Init
  BY InitPromised
<1>2. MoneyInv /\ [RefundNext]_allvars => [Promise!Next]_(Promise!vars)
  BY StepPromised
<1> QED
  BY <1>1, <1>2, MoneyInvariance, PTL DEF RefundSpec, KeepsPromise, Promise!Spec
=============================================================================
