---------------------------- MODULE RefundRequest ----------------------------
(***************************************************************************)
(* Refund requests of one payment (billing/refunds.go and                  *)
(* provider_refusals.go), over the credit lots the payment funded          *)
(* (CreditLedger): an owner requests, a reviewer rejects or approves, and  *)
(* reconciliations - the reviewer's own, the billing worker's, an          *)
(* operator's - cancel at the provider, read back and complete or fail.    *)
(*                                                                         *)
(* A transaction is one step, a provider call or read another; an          *)
(* operation may be given up between any two of them, by an error, a lost  *)
(* answer or the end of the process.  The provider is external: it answers *)
(* a cancel key as it answered it first, until it forgets the key.         *)
(***************************************************************************)
EXTENDS CreditLedger

CONSTANTS
    Ops,    \* bound: reviews and reconciliations under way at once
    Price   \* what the payment charged

ASSUME PriceAssumption == Price \in Nat \ {0}

VARIABLES
    filed,    \* filed[r]: "no", "yes" or "rejected" (then refund[r] is still "requested")
    row,      \* row[r]: what the review and the provider attempt put on the request
    cancels,  \* the provider's cancels of the payment, in order; the index is the transaction key
    answers,  \* answers[r]: what the provider remembers of the request's idempotency key
    late,     \* cancels sent whose sender no longer listens
    op        \* op[o]: what operation o is at, and the balance a review read

rvars == <<filed, row, cancels, answers, late, op>>
allvars == <<vars, rvars>>

Amounts == 1..Price
NoRow   == [amount |-> 0, before |-> 0, at |-> 0, tx |-> 0]
NoOp    == [pc |-> "idle", r |-> NoReq, seen |-> 0, tx |-> 0]

RefundTypeOK ==
    /\ TypeOK
    /\ filed \in [Requests -> {"no", "yes", "rejected"}]
    /\ row \in [Requests -> [amount : 0..Price, before : 0..Price, at : 0..MaxTime, tx : 0..Price]]
    /\ Len(cancels) <= Price
    /\ \A i \in DOMAIN cancels : cancels[i] \in [key : Requests, amount : Amounts]
    /\ answers \in [Requests -> {"none", "ok", "refused"}] /\ late \subseteq Requests
    /\ op \in [Ops -> [pc : {"idle", "reviewing", "due", "calling", "refused", "failing", "recording",
                             "confirming", "applying"},
                       r : Requests \cup {NoReq}, seen : 0..Price, tx : 0..Price]]

RefundInit ==
    /\ Init
    /\ filed = [r \in Requests |-> "no"] /\ row = [r \in Requests |-> NoRow]
    /\ cancels = <<>> /\ answers = [r \in Requests |-> "none"] /\ late = {}
    /\ op = [o \in Ops |-> NoOp]

\* The balance of a payment that shows the cancels c.
Balance(c) == Price - SumFunction([i \in DOMAIN c |-> c[i].amount])

At(o, pc)  == op[o].pc = pc
Leave(o)   == op' = [op EXCEPT ![o] = NoOp]
\* A step of an operation that writes nothing of the ledger.
Aside(o, pc) == At(o, pc) /\ UNCHANGED vars

-----------------------------------------------------------------------------
(* Requests and their review. *)

Confirmed == SumFunction([r \in Requests |-> IF refund[r] = "completed" THEN row[r].amount ELSE 0])

RequestRefund(r) ==
    /\ filed[r] = "no"
    /\ \A k \in Requests : filed[k] = "yes" => refund[k] \in {"failed", "completed"}
    /\ Confirmed < Price
    /\ filed' = [filed EXCEPT ![r] = "yes"]
    /\ UNCHANGED <<vars, row, cancels, answers, late, op>>

\* An approval reads the payment at the provider before its transaction.
ReadForReview(o, r) ==
    /\ Aside(o, "idle")
    /\ filed[r] = "yes" /\ refund[r] = "requested"
    /\ op' = [op EXCEPT ![o] = [NoOp EXCEPT !.pc = "reviewing", !.r = r, !.seen = Balance(cancels)]]
    /\ UNCHANGED <<filed, row, cancels, answers, late>>

Reject(r) ==
    /\ filed[r] = "yes" /\ refund[r] = "requested"
    /\ filed' = [filed EXCEPT ![r] = "rejected"]
    /\ UNCHANGED <<vars, row, cancels, answers, late, op>>

WithinPrice(o, amount) == amount <= Price              \* mutant: what earlier refunds took is forgotten
WithinLeft(o, amount)  == amount <= op[o].seen

\* The decision freezes the funding in its own transaction (Guard); the
\* reconciliation that follows reads the request afresh.
Approve(o, amount) ==
    LET r == op[o].r IN
    /\ At(o, "reviewing") /\ filed[r] = "yes"
    /\ WithinLeft(o, amount)
    /\ ApproveRefund(r)
    /\ row' = [row EXCEPT ![r] = [NoRow EXCEPT !.amount = amount, !.before = op[o].seen, !.at = now]]
    /\ Leave(o)
    /\ UNCHANGED <<filed, cancels, answers, late>>

-----------------------------------------------------------------------------
(* Reconciliation, of a request that is processing when it is read. *)

Begin(o, r) ==
    /\ Aside(o, "idle")
    /\ refund[r] = "processing"
    /\ op' = [op EXCEPT ![o] = [NoOp EXCEPT !.pc = IF row[r].tx = 0 THEN "due" ELSE "confirming",
                                            !.r = r, !.tx = row[r].tx]]
    /\ UNCHANGED <<filed, row, cancels, answers, late>>

\* A step of the clock is the seven-day retry period: past it no cancel is sent, and the
\* provider keeps a key for longer than that.
AnyTime(r)  == TRUE                 \* mutant: a cancel is retried for ever
InWindow(r) == now < row[r].at + 1
Keeps(r)    == now <= row[r].at + 1

Send(o) ==
    /\ Aside(o, "due")
    /\ InWindow(op[o].r)
    /\ op' = [op EXCEPT ![o].pc = "calling"]
    /\ UNCHANGED <<filed, row, cancels, answers, late>>

\* What the provider does with a cancel of r, and what it answers.
Serve(r, answer) ==
    \/ /\ answers[r] = "none" /\ answer = "ok" /\ row[r].amount <= Balance(cancels)
       /\ cancels' = Append(cancels, [key |-> r, amount |-> row[r].amount])
       /\ answers' = [answers EXCEPT ![r] = "ok"]
    \/ /\ answers[r] = "none" /\ answer = "refused"
       /\ answers' = [answers EXCEPT ![r] = "refused"]
       /\ UNCHANGED cancels
    \* A retry of a cancel that went through may be refused as already cancelled.
    \/ /\ answers[r] # "none" /\ (answers[r] = "refused" => answer = "refused")
       /\ UNCHANGED <<cancels, answers>>

\* What a payment that shows the cancels c says of a request: the latest
\* cancel of its amount, and its balance down by it.
Matching(r, c)    == {i \in DOMAIN c : c[i].amount = row[r].amount}
FirstMatch(r, c)  == IF Matching(r, c) = {} THEN 0 ELSE Min(Matching(r, c))  \* mutant: the oldest
LatestMatch(r, c) == IF Matching(r, c) = {} THEN 0 ELSE Max(Matching(r, c))
Moved(r, c)       == Balance(c) <= row[r].before - row[r].amount
SettlingTx(r, c)  == IF Moved(r, c) THEN LatestMatch(r, c) ELSE 0

\* Having seen the cancels c, go on to record the transaction or leave it
\* processing.
Settled(o, c) ==
    LET tx == SettlingTx(op[o].r, c) IN
    op' = [op EXCEPT ![o] = IF tx = 0 THEN NoOp ELSE [NoOp EXCEPT !.pc = "recording", !.r = op[o].r, !.tx = tx]]

CancelAnswered(o, answer) ==
    /\ Aside(o, "calling")
    /\ Serve(op[o].r, answer)
    /\ IF answer = "ok" THEN Settled(o, cancels') ELSE op' = [op EXCEPT ![o].pc = "refused"]
    /\ UNCHANGED <<filed, row, late>>

\* A refusal is settled by what the payment shows (cancelOrReadBack): an
\* untouched balance is a failure.
TakenAsProof(r) == TRUE             \* mutant: a refusal is taken as proof that no money moved
Untouched(r)    == Balance(cancels) = row[r].before
ReadBack(o) ==
    /\ Aside(o, "refused")
    /\ IF Untouched(op[o].r) THEN op' = [op EXCEPT ![o].pc = "failing"] ELSE Settled(o, cancels)
    /\ UNCHANGED <<filed, row, cancels, answers, late>>

\* Release and FailRefund in one transaction; one whose request has moved on
\* rolls back.
Fail(o) ==
    /\ At(o, "failing")
    /\ IF refund[op[o].r] = "processing" THEN FailRefund(op[o].r) ELSE UNCHANGED vars
    /\ Leave(o)
    /\ UNCHANGED <<filed, row, cancels, answers, late>>

RecordRefundProviderAttempt(o) ==
    LET r == op[o].r IN
    /\ Aside(o, "recording")
    /\ IF refund[r] = "processing" /\ row[r].tx \in {0, op[o].tx}
         THEN row' = [row EXCEPT ![r].tx = op[o].tx] /\ op' = [op EXCEPT ![o].pc = "confirming"]
         ELSE Leave(o) /\ UNCHANGED row
    /\ UNCHANGED <<filed, cancels, answers, late>>

ReadConfirmed(o) ==
    LET r == op[o].r  tx == op[o].tx IN
    /\ Aside(o, "confirming")
    /\ tx \in Matching(r, cancels) /\ Moved(r, cancels)
    /\ op' = [op EXCEPT ![o].pc = "applying"]
    /\ UNCHANGED <<filed, row, cancels, answers, late>>

\* Confirm, the reversal of what the payment entitled to, and
\* RecordRefundOutcome in one transaction, for a request still processing.
Apply(o) ==
    LET r == op[o].r IN
    /\ At(o, "applying")
    /\ IF refund[r] = "processing"
         THEN ConfirmRefund(r) /\ row' = [row EXCEPT ![r].tx = op[o].tx]
         ELSE UNCHANGED <<vars, row>>
    /\ Leave(o)
    /\ UNCHANGED <<filed, cancels, answers, late>>

\* An operation ends at any point: an error, an answer that never comes, a
\* crash.  A cancel it had sent may still arrive.
GiveUp(o) ==
    /\ ~At(o, "idle") /\ UNCHANGED vars
    /\ late' = IF At(o, "calling") THEN late \cup {op[o].r} ELSE late
    /\ Leave(o)
    /\ UNCHANGED <<filed, row, cancels, answers>>

ServedLate(r) ==
    /\ r \in late /\ Keeps(r)
    /\ \E answer \in {"ok", "refused"} : Serve(r, answer)
    /\ UNCHANGED <<vars, filed, row, late, op>>

\* No call outlives the provider's keeping of its key.
Pass ==
    /\ \A o \in Ops : At(o, "calling") => now <= row[op[o].r].at
    /\ Tick
    /\ answers' = [r \in Requests |-> IF now' > row[r].at + 1 THEN "none" ELSE answers[r]]
    /\ late' = {r \in late : now' <= row[r].at + 1}
    /\ UNCHANGED <<filed, row, cancels, op>>

-----------------------------------------------------------------------------
RefundNext ==
    \/ \E r \in Requests : RequestRefund(r) \/ Reject(r) \/ ServedLate(r)
    \/ \E o \in Ops :
         \/ \E r \in Requests : ReadForReview(o, r) \/ Begin(o, r)
         \/ \E amount \in Amounts : Approve(o, amount)
         \/ \E answer \in {"ok", "refused"} : CancelAnswered(o, answer)
         \/ Send(o) \/ ReadBack(o) \/ Fail(o) \/ GiveUp(o)
         \/ RecordRefundProviderAttempt(o) \/ ReadConfirmed(o) \/ Apply(o)
    \/ Pass
    \* The account goes on starting and settling work.
    \/ Work /\ UNCHANGED rvars

RefundSpec == RefundInit /\ [][RefundNext]_allvars

-----------------------------------------------------------------------------
(* Properties. *)

CancelsOf(r) == {i \in DOMAIN cancels : cancels[i].key = r}

\* However often a cancel is sent again, after lost answers, crashes and
\* overlapping reconciliations, a request moves its reviewed amount once.
RefundedOnce == \A r \in Requests : \A i, k \in CancelsOf(r) : i = k /\ cancels[i].amount = row[r].amount

\* A completed request was completed on its own cancel, not on one of the
\* same amount that an earlier request of the payment made.
CompletedOnOwnCancel == \A r \in Requests : refund[r] = "completed" => row[r].tx \in CancelsOf(r)

\* Money that moved never leaves its credits spendable: a request whose cancel
\* went through has not failed, and the lots it funded stay frozen, windows
\* that open meanwhile included (an upgrade's open again when it is completed).
MoneyFreezesCredits == \A r \in Requests : CancelsOf(r) # {} =>
    /\ refund[r] \in {"processing", "completed"}
    /\ refund[r] = "processing" \/ r \notin Upgrades =>
          \A l \in Funds[r] : lot[l].granted > 0 => lot[l].frozen # NoReq

\* Owners, reviewers, reconciliations, the provider and the account together
\* keep what a refund promises: the money of a request goes back once, after
\* its review, of the reviewed amount, out of what is left of the payment; it
\* is completed only when its money went back and fails only while none did.
Status(r) == IF filed[r] = "yes" THEN refund[r] ELSE IF filed[r] = "no" THEN "none" ELSE "rejected"
Promise == INSTANCE RefundPromise WITH
    status <- [r \in Requests |-> Status(r)],
    amount <- [r \in Requests |-> row[r].amount],
    given  <- {r \in Requests : CancelsOf(r) # {}},
    left   <- Balance(cancels)
KeepsPromise == Promise!Spec
=============================================================================
