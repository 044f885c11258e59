---------------------------- MODULE CreditLedger ----------------------------
(***************************************************************************)
(* One account's credit lots (usage/service.go and its store): starts hold *)
(* credits from lots in consumption order, settlements charge what was     *)
(* confirmed and give the rest back, releases give everything back, while  *)
(* lots open, expire, are topped up, are revoked, and are frozen and voided*)
(* by refunds of the payments that funded them.                            *)
(*                                                                         *)
(* Every operation is one transaction on the single writer, so each is one *)
(* action.  An operation the code refuses rolls back and is no step.       *)
(***************************************************************************)
EXTENDS Integers, SequencesExt

CONSTANTS
    Lots,      \* lot ids, numbered in order of creation
    LotKind,   \* LotKind[l]: "daily", "monthly", "upgrade" (a monthly lot a paid upgrade adds),
               \* "voucher", "bonus", "purchased", "compensation"
    Size,      \* Size[l]: what an issued lot grants (a compensation's is computed)
    Opens,     \* Opens[l]: when a window's lot may be opened
    Closes,    \* Closes[l]: when an issued lot expires
    Jobs,
    Need,      \* Need[j]: the worst case the start is held at, in credits
    Capped,    \* starts that carry an approved ceiling
    Stoppable, \* starts that may settle as cancelled
    Comp,      \* Comp[j]: the compensation lot of job j
    Requests,  \* refund requests
    Funds,     \* Funds[r]: the lots its payment funded
    Upgrades,  \* requests that refund an upgrade
    MaxTime, MaxCost, MaxTopUp   \* bounds: clock, a job's cost, credits topped up

Never == MaxTime + 1
NoReq == "nobody"
ASSUME LotsAssumption ==
    /\ Lots \subseteq Nat /\ Size \in [Lots -> Nat \ {0}] /\ Closes \in [Lots -> 0..Never]
    /\ Need \in [Jobs -> Nat] /\ Comp \in [Jobs -> Lots]
    /\ IsFiniteSet(Lots) /\ IsFiniteSet(Jobs) /\ MaxTime \in Nat /\ MaxCost \in Nat /\ MaxTopUp \in Nat
\* A payment funds windows and packs (refund_funding.go); a failure's
\* compensation is none of them.
ASSUME FundsAssumption ==
    /\ NoReq \notin Requests /\ Funds \in [Requests -> SUBSET Lots]
    /\ \A r \in Requests : \A l \in Funds[r] : LotKind[l] \in {"daily", "monthly", "upgrade", "purchased"}
    /\ \A j \in Jobs : LotKind[Comp[j]] = "compensation"

VARIABLES
    now,     \* the clock the transactions read
    lot,     \* lot[l]: the row; granted = 0 before it is issued
    adm,     \* adm[j]: the admission with its debits and eligible lots
    cost,    \* cost[j]: confirmed cost of the calls recorded so far, in credits
    refund,  \* refund[r]: the request's status
    voided   \* history: credits zeroed by confirmed refunds

vars == <<now, lot, adm, cost, refund, voided>>

NoDebits == [l \in {} |-> 0]
NoAdm    == [state |-> "none", hold |-> 0, debits |-> NoDebits, eligible |-> {}, charged |-> 0]

TypeOK ==
    /\ now \in 0..MaxTime
    /\ \A l \in Lots : /\ lot[l].remaining \in 0..lot[l].granted
                       /\ lot[l].exp \in 0..Never /\ lot[l].frozen \in Requests \cup {NoReq}
    /\ \A j \in Jobs : /\ adm[j].state \in {"none", "open", "settled"}
                       /\ adm[j].hold \in {0, Need[j]} /\ adm[j].eligible \subseteq Lots
                       /\ adm[j].charged \in 0..MaxCost
                       /\ DOMAIN adm[j].debits \subseteq Lots
    /\ cost \in [Jobs -> 0..MaxCost]
    /\ refund \in [Requests -> {"requested", "processing", "failed", "completed"}]
    /\ voided \in Nat

Init ==
    /\ now = 0
    /\ lot = [l \in Lots |-> [granted |-> 0, remaining |-> 0, exp |-> Closes[l], frozen |-> NoReq]]
    /\ adm = [j \in Jobs |-> NoAdm]
    /\ cost = [j \in Jobs |-> 0]
    /\ refund = [r \in Requests |-> "requested"]
    /\ voided = 0

-----------------------------------------------------------------------------
(* Lots, and drawing from them. *)

Issued(n, e) == [granted |-> n, remaining |-> n, exp |-> e, frozen |-> NoReq]

\* The one consumption order of the rows L: what expires, soonest first; then
\* what does not; purchased credits last; the oldest first among equals.
Rank(L, l) == IF LotKind[l] = "purchased" THEN 2 ELSE IF L[l].exp = Never THEN 1 ELSE 0
Before(L, k, l) ==
    \/ Rank(L, k) < Rank(L, l)
    \/ Rank(L, k) = Rank(L, l) /\ L[k].exp < L[l].exp
    \/ Rank(L, k) = Rank(L, l) /\ L[k].exp = L[l].exp /\ k < l

\* A queue of lots: what each can give, and its place in it.
Queue(L, S)  == [l \in S |-> [credits |-> L[l].remaining,
                              place   |-> Cardinality({k \in S : Before(L, k, l)})]]
Credits(q)   == [l \in DOMAIN q |-> q[l].credits]
Total(q)     == SumFunction(Credits(q))
Ahead(q, l)  == SumFunctionOnSet(Credits(q), {k \in DOMAIN q : q[k].place < q[l].place})
\* The first credits of a queue that make up an amount, or all it has.
Portion(q, amount) ==
    [l \in {k \in DOMAIN q : Ahead(q, k) < amount} |->
        [credits |-> Min({q[l].credits, amount - Ahead(q, l)}), place |-> q[l].place]]
Part(q, l)   == IF l \in DOMAIN q THEN q[l].credits ELSE 0

\* SpendFromLot and RefundToLot: each is guarded by what the row has, and a
\* statement whose guard fails changes nothing and reports nothing.
Spent(L, q)    == [l \in Lots |->
    IF L[l].remaining >= Part(q, l) /\ L[l].frozen = NoReq
      THEN [L[l] EXCEPT !.remaining = @ - Part(q, l)] ELSE L[l]]
Refunded(L, q) == [l \in Lots |->
    IF L[l].remaining + Part(q, l) <= L[l].granted
      THEN [L[l] EXCEPT !.remaining = @ + Part(q, l)] ELSE L[l]]

Spendable(row) == row.remaining > 0 /\ row.exp > now /\ row.frozen = NoReq
\* What a settlement may still draw from: expiry is not asked.
Drawable(row)  == row.remaining > 0 /\ row.frozen = NoReq

-----------------------------------------------------------------------------
(* Grants. *)

\* A guard row keeps a refunded payment's windows from opening: until the
\* refund fails, or, for an upgrade, until it is completed.
Blocked(l) == \E r \in Requests : /\ l \in Funds[r]
                                  /\ \/ refund[r] = "processing"
                                     \/ refund[r] = "completed" /\ r \notin Upgrades

\* The running lots of S are opened, each once; one whose row ends too soon is
\* extended.
Opened(S) == [l \in Lots |->
    IF l \in S /\ Opens[l] <= now /\ now < Closes[l] /\ ~Blocked(l)
      THEN IF lot[l].granted = 0 THEN Issued(Size[l], Closes[l])
           ELSE [lot[l] EXCEPT !.exp = Max({@, Closes[l]})]
      ELSE lot[l]]

\* The windows of the paid coverage.
Windows == {l \in Lots : LotKind[l] \in {"daily", "monthly"}}
Renewed == Opened(Windows)

\* A voucher, an operator's grant or a purchased pack.
Grant(l) ==
    /\ LotKind[l] \in {"voucher", "bonus", "purchased"}
    /\ lot[l].granted = 0 /\ Closes[l] > now
    /\ lot' = [lot EXCEPT ![l] = Issued(Size[l], Closes[l])]
    /\ UNCHANGED <<now, adm, cost, refund, voided>>

RaisedOnce(row) == [row EXCEPT !.remaining = @ + 1]     \* mutant: one side only
Raised(row)     == [row EXCEPT !.granted = @ + 1, !.remaining = @ + 1]

\* The running monthly lots: the window's own and those upgrades added.
Monthly == {l \in Lots : LotKind[l] \in {"monthly", "upgrade"} /\ lot[l].granted > 0 /\ lot[l].exp > now}

\* An operator who raises an account's tier raises the monthly lot that runs
\* longest, on both sides at once.
TopUp(l) ==
    /\ l \in Monthly /\ \A k \in Monthly : lot[k].exp <= lot[l].exp
    /\ lot[l].granted \in 1..(Size[l] + MaxTopUp - 1)
    /\ lot' = [lot EXCEPT ![l] = Raised(@)]
    /\ UNCHANGED <<now, adm, cost, refund, voided>>

\* A paid upgrade adds the prorated difference as a lot of its own beside the
\* windows, once however often the payment is reported.
AddUpgradeBonus(l) ==
    /\ LotKind[l] = "upgrade" /\ Opens[l] <= now /\ now < Closes[l]
    /\ lot' = Opened(Windows \cup {l})
    /\ UNCHANGED <<now, adm, cost, refund, voided>>

\* A revoked voucher expires now; its remainder stays on the row.
RevokeVoucher(l) ==
    /\ LotKind[l] = "voucher" /\ lot[l].granted > 0 /\ lot[l].exp > now
    /\ lot' = [lot EXCEPT ![l].exp = now]
    /\ UNCHANGED <<now, adm, cost, refund, voided>>

-----------------------------------------------------------------------------
(* Starts and settlements. *)

\* A start of an account on a free, a paid or the unlimited plan.  A retry of
\* an admitted start finds its admission and writes nothing.
Hold(j, plan) ==
    LET L        == IF plan = "paid" THEN Renewed ELSE lot
        eligible == IF plan = "master" THEN {} ELSE {l \in Lots : Spendable(L[l])}
        queue    == Queue(L, eligible)
        debits   == IF plan = "master" THEN NoDebits ELSE Portion(queue, Need[j])
    IN  /\ adm[j].state = "none"
        /\ plan = "master" \/ Total(queue) >= Need[j]
        /\ adm' = [adm EXCEPT ![j] = [state |-> "open", hold |-> Need[j], debits |-> debits,
                                      eligible |-> eligible, charged |-> 0]]
        /\ lot' = Spent(L, debits)
        /\ UNCHANGED <<now, cost, refund, voided>>

\* A provider call is recorded with a confirmed cost.  A call recorded after
\* the settlement is never read again and is left out.
Record(j) ==
    /\ adm[j].state = "open" /\ cost[j] < MaxCost
    /\ cost' = [cost EXCEPT ![j] = @ + 1]
    /\ UNCHANGED <<now, lot, adm, refund, voided>>

\* Work that held nothing froze no rate and is charged nothing; approved work
\* is charged no more than it reserved.
Uncapped(j) == IF adm[j].hold = 0 THEN 0 ELSE cost[j]      \* mutant: the ceiling is forgotten
Actual(j)   == IF j \in Capped THEN Min({cost[j], adm[j].hold})
               ELSE IF adm[j].hold = 0 THEN 0 ELSE cost[j]

\* What comes back to the lots of the hold, and what an overrun still takes
\* from the lots the start could see.
Unused(j)   == IF Actual(j) < adm[j].hold THEN Portion(adm[j].debits, adm[j].hold - Actual(j)) ELSE NoDebits
Overrun(j)  ==
    IF Actual(j) > adm[j].hold /\ DOMAIN adm[j].debits # {}
      THEN Portion(Queue(lot, {l \in adm[j].eligible : Drawable(lot[l])}), Actual(j) - adm[j].hold)
      ELSE NoDebits
ChargedAsked(j) == Actual(j)       \* mutant: charged for what no lot could give
Charged(j)  == IF Actual(j) > adm[j].hold /\ DOMAIN adm[j].debits # {}
                 THEN adm[j].hold + Total(Overrun(j)) ELSE Actual(j)

Settle(j, outcome, cause) ==
    LET actual == Charged(j)
        moved  == Spent(Refunded(lot, Unused(j)), Overrun(j))
        owed   == outcome = "failed" /\ cause # "provider" /\ actual > 0 /\ DOMAIN adm[j].debits # {}
    IN  /\ adm[j].state = "open"
        /\ outcome = "cancelled" => j \in Stoppable
        /\ lot' = IF owed /\ lot[Comp[j]].granted = 0
                    THEN [moved EXCEPT ![Comp[j]] = Issued((actual + 1) \div 2, Min({now + 1, MaxTime}))]
                    ELSE moved
        /\ adm' = [adm EXCEPT ![j].state = "settled", ![j].charged = actual, ![j].eligible = {}]
        /\ UNCHANGED <<now, cost, refund, voided>>

\* The row of an admitted start was never inserted.
Release(j) ==
    /\ adm[j].state = "open"
    /\ lot' = Refunded(lot, Portion(adm[j].debits, adm[j].hold))
    /\ adm' = [adm EXCEPT ![j] = NoAdm]
    /\ UNCHANGED <<now, cost, refund, voided>>

-----------------------------------------------------------------------------
(* Refunds of payments. *)

\* What open starts have reserved from some lots (RefundFundingEvidence).
ReservedFrom(S) ==
    SumFunction([j \in {k \in Jobs : adm[k].state = "open"} |->
                   SumFunction([l \in S |-> Part(adm[j].debits, l)])])
NeverInUse(r) == FALSE          \* mutant: the reviewer's evidence is not looked at
InUse(r)      == ReservedFrom(Funds[r]) > 0

\* The reviewer approves: nothing funded by the payment may be reserved, and
\* what it funded is frozen with the decision.  The payment was applied, so the
\* pack or the upgrade's lot it bought is there.
ApproveRefund(r) ==
    /\ refund[r] = "requested" /\ ~InUse(r)
    /\ \A l \in Funds[r] : LotKind[l] \in {"purchased", "upgrade"} => lot[l].granted > 0
    /\ refund' = [refund EXCEPT ![r] = "processing"]
    /\ lot' = [l \in Lots |-> IF l \in Funds[r] /\ lot[l].granted > 0 /\ lot[l].frozen = NoReq
                              THEN [lot[l] EXCEPT !.frozen = r] ELSE lot[l]]
    /\ UNCHANGED <<now, adm, cost, voided>>

\* The provider refused and no money moved: the funding goes back.
FailRefund(r) ==
    /\ refund[r] = "processing"
    /\ refund' = [refund EXCEPT ![r] = "failed"]
    /\ lot' = [l \in Lots |-> IF lot[l].frozen = r THEN [lot[l] EXCEPT !.frozen = NoReq] ELSE lot[l]]
    /\ UNCHANGED <<now, adm, cost, voided>>

\* The provider confirmed: purchased credits are zeroed, others expire, and
\* all of them stay frozen.
Void(l) == IF LotKind[l] = "purchased" THEN [lot[l] EXCEPT !.remaining = 0] ELSE [lot[l] EXCEPT !.exp = now]
ConfirmRefund(r) ==
    /\ refund[r] = "processing"
    /\ refund' = [refund EXCEPT ![r] = "completed"]
    /\ lot' = [l \in Lots |-> IF lot[l].frozen = r THEN Void(l) ELSE lot[l]]
    /\ voided' = voided + SumFunction([l \in {k \in Lots : lot[k].frozen = r} |->
                                         lot[l].remaining - Void(l).remaining])
    /\ UNCHANGED <<now, adm, cost>>

Tick == now < MaxTime /\ now' = now + 1 /\ UNCHANGED <<lot, adm, cost, refund, voided>>

-----------------------------------------------------------------------------
\* What an account's grants and starts do.
Work ==
    \/ \E l \in Lots : Grant(l) \/ TopUp(l) \/ AddUpgradeBonus(l) \/ RevokeVoucher(l)
    \/ \E j \in Jobs : \/ Record(j) \/ Release(j)
                       \/ \E plan \in {"free", "paid", "master"} : Hold(j, plan)
                       \/ \E outcome \in {"succeeded", "failed", "cancelled"}, cause \in {"provider", "unknown"} :
                              Settle(j, outcome, cause)

Next ==
    \/ Work
    \/ \E r \in Requests : ApproveRefund(r) \/ FailRefund(r) \/ ConfirmRefund(r)
    \/ Tick

Spec == Init /\ [][Next]_vars
\* The property below is about what a step may do, not about what must happen;
\* the clock runs on and a start whose job ended is settled.
FairSpec == /\ Spec /\ WF_vars(Tick)
            /\ \A j \in Jobs : WF_vars(\E o \in {"succeeded", "failed"} : Settle(j, o, "unknown"))

-----------------------------------------------------------------------------
(* Properties. *)

\* What is gone from each lot of the rows L, and what each start of the
\* admissions A has taken.
Gone(L)  == [l \in Lots |-> L[l].granted - L[l].remaining]
Taken(A) == [j \in Jobs |-> IF DOMAIN A[j].debits = {} THEN 0
                            ELSE IF A[j].state = "open" THEN A[j].hold ELSE A[j].charged]

\* Every credit that left a lot is in an open hold, was charged by a
\* settlement, or was voided by a refund: no release, settlement, overrun or
\* refund loses or invents one, although the spend and refund statements are
\* guarded and a guard that fails reports nothing.
Conserved == SumFunction(Gone(lot)) = voided + SumFunction(Taken(adm))

\* An approved start is never charged more than it reserved, and no start
\* more than the calls confirmed for it (QUOTA-44, QUOTA-46).
ChargedAsConfirmed ==
    \A j \in Jobs : adm[j].state = "settled" =>
        adm[j].charged <= cost[j] /\ (j \in Capped => adm[j].charged <= adm[j].hold)

\* While a refund is under way, and ever after it is confirmed, no start has
\* credits of that payment reserved: the approval saw none and no later start
\* could take one.
NothingReserved == \A j \in Jobs : adm[j].state = "open" =>
    \A l \in DOMAIN adm[j].debits : lot[l].frozen = NoReq

\* The credits a refund was decided on stay as the reviewer saw them: no
\* settlement, late overrun, returned hold or renewal uses or restores one.
FrozenStill ==
    [][\A l \in Lots : lot[l].frozen # NoReq /\ refund' = refund =>
         lot'[l].granted - lot'[l].remaining = lot[l].granted - lot[l].remaining]_vars

\* Revoking a redeemed voucher voids what is left of it (GIFT-10).
RevokedStaysVoid ==
    [][\A l \in Lots : LotKind[l] = "voucher" /\ lot[l].granted > 0 /\ lot[l].exp < Closes[l] =>
         lot'[l].remaining >= lot[l].remaining]_vars
=============================================================================
